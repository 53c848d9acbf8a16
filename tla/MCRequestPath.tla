---------------------------- MODULE MCRequestPath ----------------------------
(***************************************************************************)
(* The path of a playback request for TLC: the choice of the line, the     *)
(* image cache, the resumption of a stream, the statistics of the          *)
(* application and those of the edge's log.  They share no state; a        *)
(* behaviour is one of one of them, the others stand still in one of their *)
(* initial states.                                                         *)
(***************************************************************************)
EXTENDS LineRouting, ImageCache, StreamResume, PlaybackStats, StatsLog, TLC

CONSTANTS r1, r2, la, lb, lc

VARIABLE part    \* the component that moves

pathVars == <<part, lineVars, imageVars, streamVars, statVars, logVars>>

MCLists == <<<<la, lb>>, <<lb, lc>>>>
MCLineScopes ==
    {{"general"}, {"auth", "direct", "brief"}, {"strm", "brief"},
     {"progress", "leave", "edit"}, {"socket", "full"}}
MCImageScopes == {{"clear", "expire", "crash", "cache"}, {"limiter", "clear"}}

Report(event, position) ==
    [event |-> event, item |-> "i1", position |-> position, paused |-> FALSE]
MCReportScopes ==
    {{Report("playing", 1), Report("progress", 2), Report("stopped", 1)},
     {Report("progress", 1), Report("progress", 2),
      [Report("progress", 1) EXCEPT !.item = "i2", !.paused = TRUE]},
     {Report("playing", 1), Report("media", 0)}}
OneOf(S) == CHOOSE x \in S : TRUE

PathInit ==
    /\ part \in {"line", "image", "stream", "stats", "log"}
    /\ LineInit /\ ImageInit /\ StreamInit /\ StatsInit /\ LogInit
    /\ part # "line" => lrScope = OneOf(LineScopes)
    /\ part # "image" => icScope = OneOf(ImageScopes)
    /\ part # "stream" => srVersions = OneOf({<<s>> : s \in StreamSizes})
                          /\ srValidator = OneOf(Validators)
    /\ part # "stats" => psScope = OneOf(ReportScopes)

PathNext ==
    /\ UNCHANGED part
    /\ \/ part = "line" /\ LineNext
          /\ UNCHANGED <<imageVars, streamVars, statVars, logVars>>
       \/ part = "image" /\ ImageNext
          /\ UNCHANGED <<lineVars, streamVars, statVars, logVars>>
       \/ part = "stream" /\ StreamNext
          /\ UNCHANGED <<lineVars, imageVars, statVars, logVars>>
       \/ part = "stats" /\ StatsNext
          /\ UNCHANGED <<lineVars, imageVars, streamVars, logVars>>
       \/ part = "log" /\ LogNext
          /\ UNCHANGED <<lineVars, imageVars, streamVars, statVars>>

PathSpec == PathInit /\ [][PathNext]_pathVars

PathSymmetry == Permutations({r1, r2})
==============================================================================

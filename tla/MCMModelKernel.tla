--------------------------- MODULE MCMModelKernel ---------------------------
(* Model-checking instances of MModelKernel: grids scaled down from those   *)
(* of MModelSet, keeping what makes a test one of a wave, a work-group or   *)
(* the agent.                                                               *)
EXTENDS MModelKernel

Test(wave, group, grid, resident) ==
    [wave : {wave}, group : {group}, grid : {grid}, bits : {2}, resident : {resident},
     op : {"add", "and", "cas", "exch", "max", "st", "wrapinc"}, plain : BOOLEAN,
     syncOrder : {"rlx", "rel"}, hbOrder : {"rlx", "acq"}, scope : {"wave", "group", "agent"},
     hbSeg : {"global", "group"}, syncSeg : {"global", "group"}]

\* One wave: every operation and order, arrays in the same or in two segments.
WaveTests ==
    {t \in Test(2, 2, 2, 1) :
        /\ t.scope = "wave" /\ t.plain = (t.op = "max")
        /\ t.hbSeg = t.syncSeg \/ (t.op = "wrapinc" /\ t.syncOrder = "rlx")}

\* Three waves of a work-group, arrays in the group segment.
GroupTests ==
    {t \in Test(1, 3, 3, 1) :
        /\ t.op = "add" /\ ~t.plain /\ t.scope \in {"wave", "group"}
        /\ t.hbSeg = "group" /\ t.syncSeg = "group" /\ t.syncOrder = "rlx"
        /\ t.hbOrder = "acq"}

\* Three work-groups, two of them at a time.
AgentTests ==
    {t \in Test(2, 1, 3, 2) :
        t.op = "max" /\ ~t.plain /\ t.scope # "wave"
        /\ t.hbSeg = "global" /\ t.syncSeg = "global"}

\* Two work-groups of a wave, only the flags in the group segment.
EmptyFlagTests ==
    {[t EXCEPT !.bits = 3] : t \in
        {t \in Test(2, 2, 4, 1) :
            /\ t.op \in {"add", "exch", "wrapinc"} /\ t.plain = (t.op = "exch")
            /\ t.hbSeg = "global" /\ t.syncSeg = "group"
            /\ t.scope = "wave" /\ t.hbOrder = "rlx"}}

AllTests == WaveTests \cup GroupTests \cup AgentTests \cup EmptyFlagTests
RelaxedAgentTests == {t \in AgentTests : t.syncOrder = "rlx"}
=============================================================================

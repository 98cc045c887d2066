---------------------------- MODULE MCSkwStation ----------------------------
(* The station for TLC: authentication, association, scan and disconnect   *)
(* (SkwSme), and what goes on beside a connection: remain on channel,      *)
(* management frames, scheduled scan, signal warnings, channel switch and  *)
(* survey (SkwOffch).                                                      *)
EXTENDS SkwSme

Load(a, s, l, f, k, r, c, e) == [auths |-> a, assocs |-> s, leaves |-> l, faults |-> f,
                                 kicks |-> k, refusals |-> r, scans |-> c, kinds |-> e]

SmeLoads == {Load(1, 1, 0, 0, 1, 0, 0, {"open"}), Load(1, 1, 1, 1, 0, 0, 0, {"open"}),
            Load(1, 1, 0, 0, 0, 1, 0, {"open"}), Load(2, 1, 0, 0, 1, 0, 0, {"ft"}),
            Load(1, 2, 0, 0, 1, 0, 0, {"ft"}), Load(2, 1, 0, 1, 0, 0, 0, {"ft"}),
            Load(1, 2, 0, 1, 0, 0, 0, {"ft"}), Load(2, 1, 0, 0, 0, 0, 0, {"commit", "confirm"}),
            Load(0, 0, 1, 1, 0, 0, 3, {}), Load(1, 0, 0, 0, 0, 0, 2, {"ft"}),
            Load(2, 1, 1, 0, 0, 0, 0, {"ft"}), Load(1, 2, 1, 0, 0, 0, 0, {"ft"})}

OffLoad(u, f, m, n) == [user |-> u, fw |-> f, mlme |-> m, fails |-> n]
OffLoads == {
    OffLoad(<<"roc", "roc", "cancel", "cancel">>, {}, 0, 1),
    OffLoad(<<"roc", "short", "cancel", "short">>, {}, 0, 1),
    OffLoad(<<"long", "short", "long">>, {}, 1, 1),
    OffLoad(<<"rrm", "long">>, {}, 1, 1),
    OffLoad(<<"start", "stop", "start", "stop", "start">>, {"sched"}, 0, 2),
    OffLoad(<<"scan", "start", "scan", "stop">>, {"low1", "low2", "low3", "sched"}, 0, 1),
    OffLoad(<<"scan", "csa", "regd", "short">>, {"low1", "low2", "csa"}, 0, 1),
    OffLoad(<<"survey", "csa", "survey", "csa", "regd", "survey">>, {"acs1", "acs2", "csa"}, 0, 1)}

VARIABLES
    which,  \* the component that runs in this behaviour; the others stay as they begin
    load, cookie, user, asked, told, wire, air, roc, o_evq, ev, work, sched, cqm, link, survey,
    o_odd

Off == INSTANCE SkwOffch WITH
    Loads <- OffLoads, Pieces <- 2, evq <- o_evq, odd <- o_odd

offVars ==
    <<load, cookie, user, asked, told, wire, air, roc, o_evq, ev, work, sched, cqm, link, survey,
      o_odd>>

all == <<which, vars, offVars>>

\* a component that does not run is in one of its initial states, always the same one
MCInit ==
    /\ which \in {"sme", "off"}
    /\ Init
    /\ Off!Init
    /\ (which # "sme" => left = CHOOSE l \in SmeLoads : TRUE)
    /\ (which # "off" => load = CHOOSE l \in OffLoads : TRUE)

MCNext ==
    /\ UNCHANGED which
    /\ \/ which = "sme" /\ Next /\ UNCHANGED <<offVars>>
       \/ which = "off" /\ Off!Next /\ UNCHANGED <<vars>>

\* each component's own fairness, for the behaviours in which it runs
MCFairness ==
    /\ WF_vars(which = "sme" /\ Operation)
    /\ WF_vars(which = "sme" /\ Events)
    /\ WF_vars(which = "sme" /\ Work)
    /\ WF_vars(which = "sme" /\ StaTimer)
    /\ WF_vars(which = "sme" /\ ScanTimer)
    /\ WF_vars(which = "sme" /\ ScanTimeout)
    /\ WF_offVars(which = "off" /\ Off!UserStep)
    /\ WF_offVars(which = "off" /\ Off!EventWork)
    /\ WF_offVars(which = "off" /\ Off!SplitStatus)
    /\ WF_offVars(which = "off" /\ Off!CqmTimeout)
    /\ WF_offVars(which = "off" /\ Off!Firmware)

MCSpec == MCInit /\ [][MCNext]_all /\ MCFairness

-----------------------------------------------------------------------------
\* The properties of the station are those of SkwSme: Consistent and HostAgrees.

\* Off-channel work: answers carry the cookie they belong to and come in order, frames go out whole,
\* and driver, cfg80211 and firmware agree on scheduled scan, warnings, channel and survey.
OffchSound == Off!OffchSound

\* A connection attempt and a scan end, even when the firmware reports nothing; frames get their
\* status, warnings are forgotten and a channel switch ends with the carrier on.
StationMoves == []<>(/\ which = "sme" => Attempted /\ scan.rdev = None
                     /\ which = "off" => Off!Ended)
=============================================================================

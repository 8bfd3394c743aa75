---------------------------- MODULE StatusServer ----------------------------
(***************************************************************************)
(* The UDP status stream (UdpControlServer) and what feeds it: for each    *)
(* receiver a signal monitor that reports a hundred times a second whether *)
(* a carrier is there, and the relay block that reports the calls it hears *)
(* and their ends.  The server keeps the last report of each receiver for  *)
(* as long as it runs, over any number of radios opened and closed.        *)
(***************************************************************************)
EXTENDS Integers, Sequences

CONSTANTS
  Calls,            \* what a header may name
  Peers             \* hosts that send datagrams; only Trusted ones are authorized

CONSTANT Trusted

None == "none"
Receivers == {"dmr", "fm"}
Fresh     == 0      \* the age of a report of the last second
OldAge    == 1

ASSUME StatusServerAssumption == None \notin Calls /\ Trusted \subseteq Peers

VARIABLES
  radio,            \* a radio is open
  carrier,          \* receivers of the open radio that hear a carrier
  decoded,          \* a header or tone heard by a receiver, not handled yet
  inCall,           \* receivers whose call or tone the relay block holds for on
  statuses,         \* receive_statuses: the last report of each receiver
  listener,         \* subscription
  server,           \* its thread: "none", "runs", "stopping", "joined"
  packet            \* the last status sent: to whom, and the call it names

statusVars == <<radio, carrier, decoded, inCall, statuses, listener, server, packet>>

Unreported == [receiving |-> FALSE, call |-> None, age |-> OldAge]
NoPacket   == [to |-> None, rx |-> None, call |-> None]

StatusInit ==
  /\ radio = FALSE /\ carrier = {} /\ inCall = {}
  /\ decoded = [r \in Receivers |-> None]
  /\ statuses = [r \in Receivers |-> Unreported]
  /\ listener = None /\ server = "none"
  /\ packet = NoPacket

(***************************************************************************)
(* The radio and the air.                                                  *)
(***************************************************************************)
RadioOpens ==
  /\ ~radio /\ radio' = TRUE
  /\ carrier' \in SUBSET Receivers
  /\ UNCHANGED <<decoded, inCall, statuses, listener, server, packet>>

\* What the receivers had in hand goes with the radio, unreported.
RadioCloses ==
  /\ radio /\ radio' = FALSE
  /\ carrier' = {}
  /\ decoded' = [r \in Receivers |-> None]
  /\ inCall' = {}
  /\ UNCHANGED <<statuses, listener, server, packet>>

CarrierComes(r) ==
  /\ radio /\ r \notin carrier
  /\ carrier' = carrier \cup {r}
  /\ UNCHANGED <<radio, decoded, inCall, statuses, listener, server, packet>>

CarrierGoes(r) ==
  /\ r \in carrier
  /\ carrier' = carrier \ {r}
  /\ UNCHANGED <<radio, decoded, inCall, statuses, listener, server, packet>>

Hears(r, c) ==
  /\ r \in carrier /\ decoded[r] = None
  /\ decoded' = [decoded EXCEPT ![r] = c]
  /\ UNCHANGED <<radio, carrier, inCall, statuses, listener, server, packet>>

(***************************************************************************)
(* observe_receive_status.                                                 *)
(***************************************************************************)
\* A report that knows of the receiver's calls, and one that does not.
Report(on, call) == [receiving |-> on, call |-> call, age |-> 0]
LevelReport(on)  == [receiving |-> on, age |-> 0]

\* A report that does not know of calls keeps the one of the report before it;
\* no call is received without a carrier.
Observed(old, new) ==
  LET call == IF "call" \in DOMAIN new THEN new.call ELSE old.call
  IN  Report(new.receiving, IF new.receiving THEN call ELSE None)

Reported(r, new) == [statuses EXCEPT ![r] = Observed(@, new)]

\* The monitor's report carries the level, not the call.
Monitors(r) ==
  /\ radio
  /\ statuses' = Reported(r, LevelReport(r \in carrier))
  /\ UNCHANGED <<radio, carrier, decoded, inCall, listener, server, packet>>

\* handle_header and set_afm_ctcss_state.  A header that admits a call reports
\* the FM receiver's tone gone.
CallReported(r) ==
  /\ decoded[r] # None
  /\ decoded' = [decoded EXCEPT ![r] = None]
  /\ LET heard == Reported(r, Report(TRUE, decoded[r])) IN
       \/ statuses' = heard /\ inCall' = inCall \cup {r}
       \/ /\ r = "dmr"
          /\ statuses' = [heard EXCEPT !["fm"] = Observed(@, Report(FALSE, None))]
          /\ inCall' = {"dmr"}
  /\ UNCHANGED <<radio, carrier, listener, server, packet>>

\* A terminator, a time-out or the tone's loss.
CallOver(r) ==
  /\ r \in inCall
  /\ statuses' = Reported(r, Report(FALSE, None))
  /\ inCall' = inCall \ {r}
  /\ UNCHANGED <<radio, carrier, decoded, listener, server, packet>>

(***************************************************************************)
(* run.                                                                    *)
(***************************************************************************)
Serving == server = "runs"

\* start_status_query, the only subscription there is: the last one counts.
QueryStarts(p) ==
  /\ Serving /\ p \in Trusted
  /\ listener' = p
  /\ UNCHANGED <<radio, carrier, decoded, inCall, statuses, server, packet>>

\* stop_status_query, of any trusted peer.
QueryStops(p) ==
  /\ Serving /\ p \in Trusted
  /\ listener' = None
  /\ UNCHANGED <<radio, carrier, decoded, inCall, statuses, server, packet>>

\* Mutant: the age of a report is not looked at.
IsCurrentAlways(s) == s.receiving

IsCurrent(s) == s.receiving /\ s.age <= Fresh

\* The call named: of the receivers now receiving, DMR before FM.
Naming == {r \in Receivers : IsCurrent(statuses[r]) /\ statuses[r].call # None}

StatusSent ==
  /\ Serving /\ listener # None
  /\ LET r == CASE "dmr" \in Naming -> "dmr" [] Naming = {"fm"} -> "fm" [] OTHER -> None IN
       packet' = [to |-> listener, rx |-> r,
                  call |-> IF r = None THEN None ELSE statuses[r].call]
  /\ UNCHANGED <<radio, carrier, decoded, inCall, statuses, listener, server>>

\* A second goes by without a report of the receiver.
Ages(r) ==
  /\ statuses[r].age = Fresh
  /\ statuses' = [statuses EXCEPT ![r].age = OldAge]
  /\ UNCHANGED <<radio, carrier, decoded, inCall, listener, server, packet>>

ServerLeaves ==
  /\ server = "stopping"
  /\ server' = "joined"
  /\ UNCHANGED <<radio, carrier, decoded, inCall, statuses, listener, packet>>

Radio ==
  \/ RadioOpens \/ RadioCloses
  \/ \E r \in Receivers :
       CarrierComes(r) \/ CarrierGoes(r) \/ \E c \in Calls : Hears(r, c)

\* Any other datagram is answered and changes nothing here.
Requests == \E p \in Peers : QueryStarts(p) \/ QueryStops(p)

(***************************************************************************)
(* Properties.                                                             *)
(***************************************************************************)
\* While a receiver hears no carrier, or no radio is open, a listener is in the
\* end told of no call on it: neither a late header, nor the kept call of an
\* earlier report, nor a receiver that reports nothing any more can hold a call
\* on the screen.
CallsFade ==
  \A r \in Receivers :
    <>[](Serving /\ listener # None /\ r \notin carrier)
      => <>[](packet.rx # r)
=============================================================================

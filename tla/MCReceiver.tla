----------------------------- MODULE MCReceiver -----------------------------
(* Instances of the receiver: what the air carries, in units of 40 samples. *)
EXTENDS Receiver

Tdma  == {[kind |-> k, loud |-> 33, total |-> 72] : k \in {"header", "voice", "plain"}}
Weak  == {[kind |-> "weak", loud |-> 33, total |-> 72]}
Quiet == {[kind |-> "none", loud |-> 0, total |-> 72]}
Noise == {[kind |-> "none", loud |-> 36, total |-> 36]}

CleanAir  == Tdma \cup Weak \cup Quiet \cup Noise
=============================================================================

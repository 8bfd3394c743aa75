----------------------------- MODULE MCMessages -----------------------------
(* Messages for TLC: every text of up to three, and some of four, of the     *)
(* octets at the bounds of the table of well-formed characters; runs of a    *)
(* letter around the lengths where a message takes another block, ending in  *)
(* characters of one to four octets or in U+0000; and addresses in and out   *)
(* of range for one text.                                                    *)
EXTENDS Messages

Message(format, source, destination, group, text) ==
  [format |-> format, source |-> source, destination |-> destination,
   group |-> group, text |-> text]

ShortSequences ==
  UNION {[1..n -> {0, 65, 128, 159, 160, 191, 192, 194, 224, 237, 248}] : n \in 0..3}

FourOctets == {<<a, b, c, d>> :
  a \in {65, 195, 239, 240, 244, 245}, b \in {65, 128, 143, 144, 191},
  c \in {128, 169, 240}, d \in {65, 191}}

Tails == {<<>>, <<195, 169>>, <<228, 184, 173>>, <<240, 159, 152, 128>>, <<0>>, <<66, 0, 0>>}

Runs == {[i \in 1..n |-> 65] \o tail :
          n \in (1..15) \cup (75..100), tail \in Tails}

Ids == {0, 1, 16777215, 16777216}

AllRequests ==
  {Message(f, 1, 2, TRUE, t) : f \in Formats, t \in ShortSequences \cup FourOctets \cup Runs}
    \cup {Message(f, s, d, g, <<65>>) :
            f \in Formats, s \in Ids, d \in Ids, g \in BOOLEAN}
=============================================================================

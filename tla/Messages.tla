------------------------------ MODULE Messages ------------------------------
(* Short messages (short_message.cpp): a text is built into a header and     *)
(* data blocks, in the defined format or in that of the 828S radios, the     *)
(* blocks cross the air, and the receiver parses, decodes and, for an 828S   *)
(* message whose check sum fails, recovers what it can.  The functions are   *)
(* called by no other code of the repository: the caller that sends them,    *)
(* the air, and the caller that hands over the blocks it heard are external. *)
(* A check sum is the data it was computed over: any other data is told from *)
(* it.                                                                       *)
EXTENDS ShortText, FiniteSetsExt

CONSTANTS
  Requests,   \* the messages asked for
  MaxFaults,  \* what the air does to a message
  MaxHurt     \* longest message, in blocks, that the air hurts

Formats == {"defined", "828S"}

ASSUME RequestsAreMessages ==
  \A r \in Requests :
    /\ r.format \in Formats /\ r.group \in BOOLEAN
    /\ {r.source, r.destination} \subseteq Nat
    /\ \A i \in DOMAIN r.text : r.text[i] \in 0..255

VARIABLES
  phase,    \* "idle", "asked", "refused", "sent", "heard"
  request,  \* the message asked for
  sent,     \* what was built: preamble, header and blocks
  heard,    \* the blocks the receiver has
  faults,   \* what the air did
  outcome   \* what the receiver made of it

vars == <<phase, request, sent, heard, faults, outcome>>

Nothing == [preamble |-> {}, header |-> {}, decoded |-> {}, recovered |-> {}]

Init ==
  /\ phase = "idle" /\ faults = 0 /\ outcome = Nothing
  /\ request = <<>> /\ sent = <<>> /\ heard = <<>>

-----------------------------------------------------------------------------
(* Packing: twelve octets to a block, eight and the check sum in the last.   *)

BlockOctets == 12
LastOctets == 8
SumOctets == 4
Prefix828 == 6
IdMask == 16777216

BlocksFor(n) ==
  1 + (IF n > LastOctets THEN (n - LastOctets + BlockOctets - 1) \div BlockOctets ELSE 0)
Capacity(blocks) == (blocks - 1) * BlockOctets + LastOctets

ValidId(id) == id \in 1..(IdMask - 1)

UserData(r) == Serialized(ToUtf16(r.text), r.format = "defined")

\* Octets to make room for: the check sum counts in the defined format, the
\* prefix and the terminating unit in that of the 828S.
RequiredOctetsNoPrefix(r) == Len(UserData(r)) + SumOctets
RequiredOctets(r) ==
  IF r.format = "defined" THEN Len(UserData(r)) + SumOctets
  ELSE Prefix828 + Len(UserData(r)) + 2

BlockCount(r) == BlocksFor(RequiredOctets(r))
Pad(r) == Capacity(BlockCount(r)) - Len(UserData(r))

Fits(r) ==
  IF r.format = "defined" THEN BlockCount(r) <= 63 /\ Pad(r) <= LastOctets
  ELSE BlockCount(r) <= 15

Buildable(r) ==
  /\ ValidId(r.source) /\ ValidId(r.destination)
  /\ r.text # <<>> /\ IsText(r.text)
  /\ Fits(r)

Data(r) ==
  LET user == UserData(r)
      kept == IF r.format = "defined" THEN user
              ELSE <<(Prefix828 + Len(user) + SumOctets) % 256, 0, 2, 1, 1, 0>> \o user
  IN [k \in 1..Capacity(BlockCount(r)) |-> IF k <= Len(kept) THEN kept[k] ELSE 0]

\* An octet of a check sum, where a block is read as if it were not the last.
SumOctet == 254

DataBlocks(data) ==
  LET count == (Len(data) + SumOctets) \div BlockOctets
      block(i) == SubSeq(data, (i - 1) * BlockOctets + 1, Min({i * BlockOctets, Len(data)}))
  IN [i \in 1..count |->
       IF i < count THEN [octets |-> block(i), sum |-> <<>>]
       ELSE [octets |-> block(i) \o [k \in 1..SumOctets |-> SumOctet], sum |-> data]]

\* The header's octets: 0 and 1 the format and, in the defined one, the number
\* of blocks in two parts; 8 and 9 the format's own.
DefinedHeader(r) ==
  [o0 |-> (IF r.group THEN 128 ELSE 0) + (BlockCount(r) \div 16) * 16 + 13,
   o1 |-> 10 * 16 + (BlockCount(r) % 16),
   destination |-> r.destination % IdMask, source |-> r.source % IdMask,
   o8 |-> (20 * 4 + 1) % 256, o9 |-> Pad(r)]

Header828(r) ==
  [o0 |-> (IF r.group THEN 128 ELSE 0) + 2, o1 |-> 59,
   destination |-> r.destination % IdMask, source |-> r.source % IdMask,
   o8 |-> 128 + BlockCount(r), o9 |-> 0]

Preamble(r) ==
  [o0 |-> IF r.group THEN 189 ELSE 61, o2 |-> IF r.group THEN 192 ELSE 128,
   destination |-> r.destination % IdMask, source |-> r.source % IdMask]

-----------------------------------------------------------------------------
(* The receiver.                                                             *)

ParsedPreamble(p) ==
  LET group == p.o0 = 189 /\ p.o2 = 192
      private == p.o0 = 61 /\ p.o2 = 128
  IN IF (group \/ private) /\ p.destination # 0 /\ p.source # 0
     THEN {[group |-> group, destination |-> p.destination, source |-> p.source]}
     ELSE {}

ParsedHeader(group, blocks, h) ==
  [group |-> group, blocks |-> blocks, destination |-> h.destination,
   source |-> h.source, format |-> h.o8 \div 4, pad |-> h.o9]

ParsedDefined(h) ==
  LET blocks == ((h.o0 \div 16) % 4) * 64 + (h.o1 % 16)
  IN IF h.o0 % 16 = 13 /\ h.o1 \div 16 = 10 /\ blocks # 0 /\ h.o8 % 2 = 1
     THEN {ParsedHeader(h.o0 >= 128, blocks, h)} ELSE {}

Parsed828(h) ==
  LET blocks == h.o8 % 16
  IN IF /\ h.o0 % 16 = 2 /\ h.o1 \in {59, 49, 51}
        /\ h.o8 \div 16 = 8 /\ blocks # 0 /\ h.o9 = 0
        /\ h.destination # 0 /\ h.source # 0
     THEN {ParsedHeader(h.o0 >= 128, blocks, h)} ELSE {}

\* What is read of a block: twelve octets, eight of the last.
ReadOctetsWhole(blocks, i) == blocks[i].octets
ReadOctets(blocks, i) ==
  IF i < Len(blocks) THEN blocks[i].octets ELSE SubSeq(blocks[i].octets, 1, LastOctets)

ReadData(blocks) == FlattenSeq([i \in DOMAIN blocks |-> ReadOctets(blocks, i)])

SumUnchecked(blocks) == TRUE
SumIsRight(blocks) == blocks[Len(blocks)].sum = ReadData(blocks)

DecodedDefined(h, blocks) ==
  IF Len(blocks) = h.blocks /\ h.pad <= LastOctets /\ SumIsRight(blocks)
  THEN LET user == SubSeq(ReadData(blocks), 1, Len(ReadData(blocks)) - h.pad)
       IN IF h.format = 20 THEN FromUtf16(Deserialized(user, TRUE)) ELSE {<<>>}
  ELSE {}

\* The 828S text: behind the prefix, up to the units that are zero.
Text828(data) ==
  LET units == Deserialized(data, FALSE)
      last == {k \in DOMAIN units : 2 * k > Prefix828 /\ units[k] # 0}
  IN IF last = {} THEN {} ELSE FromUtf16(SubSeq(units, Prefix828 \div 2 + 1, Max(last)))

Marked(data) == data[4] = 1 /\ data[5] = 1 /\ data[6] = 0

Decoded828(h, blocks) ==
  LET data == ReadData(blocks)
  IN IF /\ Len(blocks) = h.blocks /\ SumIsRight(blocks)
        /\ Marked(data) /\ data[2] = 0 /\ data[3] = 2
     THEN Text828(data) ELSE {}

\* Recovery asks neither for the number of blocks nor for the check sum.
Recovered828(blocks) ==
  IF Len(blocks) \in 1..15 /\ Marked(ReadData(blocks))
  THEN Text828(ReadData(blocks)) ELSE {}

-----------------------------------------------------------------------------
(* The steps.                                                                *)

Ask(r) ==
  /\ phase = "idle" /\ phase' = "asked" /\ request' = r
  /\ UNCHANGED <<sent, heard, faults, outcome>>

Refuse ==
  /\ phase = "asked" /\ ~Buildable(request)
  /\ phase' = "refused"
  /\ UNCHANGED <<request, sent, heard, faults, outcome>>

Build ==
  /\ phase = "asked" /\ Buildable(request)
  /\ phase' = "sent"
  /\ sent' = [preamble |-> Preamble(request),
              header |-> IF request.format = "defined" THEN DefinedHeader(request)
                         ELSE Header828(request),
              blocks |-> DataBlocks(Data(request))]
  /\ heard' = sent'.blocks
  /\ UNCHANGED <<request, faults, outcome>>

\* The octets the air changes: in the text, in the prefix, before and in the
\* check sum.
HurtOctets == {1, 7, 8, 9}

HurtBlock(block, k) ==
  [octets |-> [block.octets EXCEPT ![k] = 255 - @],
   sum |-> IF k > LastOctets THEN <<>> ELSE block.sum]

\* The air loses, repeats, reorders or changes a block.
Air ==
  /\ phase = "sent" /\ faults < MaxFaults /\ Len(sent.blocks) <= MaxHurt
  /\ \E i \in DOMAIN heard :
       \/ heard' = RemoveAt(heard, i)
       \/ heard' = InsertAt(heard, i, heard[i])
       \/ i < Len(heard) /\ heard' = [heard EXCEPT ![i] = heard[i + 1], ![i + 1] = heard[i]]
       \/ \E k \in HurtOctets : heard' = [heard EXCEPT ![i] = HurtBlock(@, k)]
  /\ faults' = faults + 1
  /\ UNCHANGED <<phase, request, sent, outcome>>

\* The receiver was handed at least one block.
Receive ==
  LET header == IF request.format = "defined" THEN ParsedDefined(sent.header)
                ELSE Parsed828(sent.header)
  IN /\ phase = "sent" /\ heard # <<>>
     /\ phase' = "heard"
     /\ outcome' =
          [preamble |-> IF request.format = "828S" THEN ParsedPreamble(sent.preamble) ELSE {},
           header |-> header,
           decoded |-> UNION {IF request.format = "defined" THEN DecodedDefined(h, heard)
                              ELSE Decoded828(h, heard) : h \in header},
           recovered |-> IF request.format = "828S" THEN Recovered828(heard) ELSE {}]
     /\ UNCHANGED <<request, sent, heard, faults>>

Finish ==
  /\ phase \in {"refused", "heard"} \/ (phase = "sent" /\ heard = <<>>)
  /\ phase' = "idle" /\ faults' = 0 /\ outcome' = Nothing
  /\ request' = <<>> /\ sent' = <<>> /\ heard' = <<>>

Next ==
  \/ (\E r \in Requests : Ask(r))
  \/ Refuse \/ Build \/ Air \/ Receive \/ Finish

Spec == Init /\ [][Next]_vars

-----------------------------------------------------------------------------
(* Properties.                                                               *)

\* Only well-formed text leaves, however the octets of a malformed one fall:
\* overlong forms, surrogates, code points out of range and characters cut
\* short are refused (utf8_to_utf16be), and such a text is refused only for
\* its addresses or its length.
OnlyTextIsSent ==
  /\ phase = "sent" => WellFormed(request.text)
  /\ phase = "refused" /\ WellFormed(request.text) /\ request.text # <<>> =>
       ~ValidId(request.source) \/ ~ValidId(request.destination) \/ ~Fits(request)

\* The longest defined message whose header tells its number of blocks: above
\* it the upper part is read two places too high.
CountedBlocks == 15

\* What an 828S text keeps of itself: the zero units at its end are padding.
WithoutNul(s) == SubSeq(s, 1, Max({0} \cup {k \in DOMAIN s : s[k] # 0}))

Arriving(r) == IF r.format = "828S" THEN WithoutNul(r.text) ELSE r.text

\* A message that was built and not hurt arrives: its addresses, its kind of
\* call and its whole text, whatever its length does to the last block.
UnhurtArrives ==
  phase = "heard" /\ faults = 0 /\ Len(sent.blocks) <= CountedBlocks
    /\ Arriving(request) # <<>> =>
      /\ outcome.decoded = {Arriving(request)}
      /\ \A h \in outcome.header \cup outcome.preamble :
           /\ h.group = request.group
           /\ h.source = request.source /\ h.destination = request.destination

\* Whatever the air lost, repeated, reordered or changed, a decoded text is the
\* one that was sent: the block count and the check sum see to it.
DecodedIsSent ==
  phase = "heard" => outcome.decoded \subseteq {Arriving(request)}

\* Of an 828S message that only lost its last blocks, recovery gives a part of
\* the text from its beginning, never an octet that is not of the text.
RecoveredIsPrefix ==
  phase = "heard" /\ IsPrefix(heard, sent.blocks) =>
    \A text \in outcome.recovered : IsPrefix(text, request.text)
============================================================================

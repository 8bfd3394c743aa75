----------------------------- MODULE ShortText -----------------------------
(* The text of a short message: UTF-8 as the caller gives it, UTF-16 as it   *)
(* is sent (utf8_to_utf16be, decode_utf16be of short_message.cpp).  Octets   *)
(* and 16-bit units are numbers.  The code scans a text from its first octet *)
(* and jumps over each character; here a character is found at each octet    *)
(* that does not continue one, which is the same for every text it accepts.  *)
(* A result that may be refused is a set: empty, or holding the one value.   *)
EXTENDS Integers, Sequences, SequencesExt

Continues(o) == o \in 128..191

\* Octets of the character that starts with o; 0: nothing starts with it.
OctetCount(o) ==
  CASE o \in 0..127   -> 1
    [] o \in 192..223 -> 2
    [] o \in 224..239 -> 3
    [] o \in 240..247 -> 4
    [] OTHER          -> 0

HighSurrogates == 55296..56319
LowSurrogates == 56320..57343

\* The code point that the well-placed octets from i on spell.
CodePoint(s, i) ==
  CASE OctetCount(s[i]) = 1 -> s[i]
    [] OctetCount(s[i]) = 2 -> (s[i] % 32) * 64 + (s[i + 1] % 64)
    [] OctetCount(s[i]) = 3 ->
         (s[i] % 16) * 4096 + (s[i + 1] % 64) * 64 + (s[i + 2] % 64)
    [] OctetCount(s[i]) = 4 ->
         (s[i] % 8) * 262144 + (s[i + 1] % 64) * 4096
           + (s[i + 2] % 64) * 64 + (s[i + 3] % 64)

\* The least code point that needs that many octets.
MinimumUnchecked(count) == 0
Minimum(count) == <<0, 128, 2048, 65536>>[count]

StartsCharacter(s, i) ==
  LET count == OctetCount(s[i])
  IN /\ count > 0 /\ i + count - 1 <= Len(s)
     /\ \A k \in 1..(count - 1) : Continues(s[i + k])
     /\ CodePoint(s, i) \in Minimum(count)..1114111
     /\ CodePoint(s, i) \notin HighSurrogates \cup LowSurrogates
     /\ i + count <= Len(s) => ~Continues(s[i + count])

IsText(s) ==
  /\ s # <<>> => ~Continues(s[1])
  /\ \A i \in DOMAIN s : Continues(s[i]) \/ StartsCharacter(s, i)

UnitsOf(codepoint) ==
  IF codepoint <= 65535 THEN <<codepoint>>
  ELSE <<55296 + (codepoint - 65536) \div 1024, 56320 + ((codepoint - 65536) % 1024)>>

ToUtf16(s) ==
  FlattenSeq([i \in DOMAIN s |->
    IF Continues(s[i]) THEN <<>> ELSE UnitsOf(CodePoint(s, i))])

\* append_utf8_codepoint
OctetsOf(codepoint) ==
  LET tail(shift) == 128 + ((codepoint \div shift) % 64)
  IN CASE codepoint <= 127   -> <<codepoint>>
       [] codepoint \in 128..2047 -> <<192 + codepoint \div 64, tail(1)>>
       [] codepoint \in 2048..65535 ->
            <<224 + codepoint \div 4096, tail(64), tail(1)>>
       [] OTHER ->
            <<240 + codepoint \div 262144, tail(4096), tail(64), tail(1)>>

\* Each high surrogate is followed by a low one, and each low one follows one.
IsUtf16(u) ==
  \A i \in DOMAIN u :
    /\ u[i] \in HighSurrogates => i < Len(u) /\ u[i + 1] \in LowSurrogates
    /\ u[i] \in LowSurrogates => i > 1 /\ u[i - 1] \in HighSurrogates

PairedCodePoint(high, low) == 65536 + (high - 55296) * 1024 + low - 56320

FromUtf16(u) ==
  IF ~IsUtf16(u) THEN {}
  ELSE {FlattenSeq([i \in DOMAIN u |->
          CASE u[i] \in HighSurrogates -> OctetsOf(PairedCodePoint(u[i], u[i + 1]))
            [] u[i] \in LowSurrogates  -> <<>>
            [] OTHER                   -> OctetsOf(u[i])])}

\* The octets of units, the first octet of each the high one (big endian, the
\* defined format) or the low one (little endian, 828S).
Serialized(u, bigEndian) ==
  [k \in 1..(2 * Len(u)) |->
    LET unit == u[(k + 1) \div 2]
    IN IF (k % 2 = 1) = bigEndian THEN unit \div 256 ELSE unit % 256]

Deserialized(o, bigEndian) ==
  [k \in 1..(Len(o) \div 2) |->
    IF bigEndian THEN o[2 * k - 1] * 256 + o[2 * k]
    ELSE o[2 * k] * 256 + o[2 * k - 1]]

\* What is text, independently of the code: the well-formed octet sequences
\* of the Unicode standard (its table of UTF-8 byte ranges).
WellFormedCharacter(c) ==
  CASE Len(c) = 1 -> c[1] \in 0..127
    [] Len(c) = 2 -> c[1] \in 194..223 /\ Continues(c[2])
    [] Len(c) = 3 ->
         /\ c[1] \in 224..239 /\ Continues(c[3])
         /\ c[2] \in (IF c[1] = 224 THEN 160 ELSE 128)..(IF c[1] = 237 THEN 159 ELSE 191)
    [] Len(c) = 4 ->
         /\ c[1] \in 240..244 /\ Continues(c[3]) /\ Continues(c[4])
         /\ c[2] \in (IF c[1] = 240 THEN 144 ELSE 128)..(IF c[1] = 244 THEN 143 ELSE 191)
    [] OTHER -> FALSE

\* split[n]: the first n octets are a sequence of well-formed characters.
WellFormed(s) ==
  LET split[n \in 0..Len(s)] ==
        n = 0 \/ \E k \in 1..4 :
          /\ k <= n /\ WellFormedCharacter(SubSeq(s, n - k + 1, n))
          /\ split[n - k]
  IN split[Len(s)]
============================================================================

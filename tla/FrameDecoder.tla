---------------------------- MODULE FrameDecoder ----------------------------
(***************************************************************************)
(* The frame decoder behind the burst sampler (frame_decoder_impl) and its *)
(* slot assembly (dmr_slot).  The sampler hands it 264 symbols for every   *)
(* burst: the 132 of the burst and as many of padding.  One step decodes   *)
(* one such block: the voice frame due inside it, its sync pattern, its    *)
(* slot type and its payload.                                              *)
(*                                                                         *)
(* The bits of a block are abstracted to its kind; the outcome of a check  *)
(* on damaged bits is a choice.                                            *)
(***************************************************************************)
EXTENDS Integers, Sequences

CONSTANTS
  Colors,          \* colour codes a burst may carry
  SilenceBlocks,   \* blocks without a sync pattern before the silence reset
  StreamCap        \* blocks the symbol buffer holds

NoColor      == 16
BlockSymbols == 264                     \* a burst and its padding
SyncEnd      == 78                      \* symbols up to the end of the sync field
FrameSymbols == 144
Tolerance    == 8
SuperframeFrames == 6

ASSUME DecoderAssumption ==
  Colors \subseteq 0 .. 15 /\ SilenceBlocks \in Nat \ {0} /\ StreamCap \in Nat \ {0}

VARIABLES
  stream,          \* blocks waiting in the symbol buffer
  voice,           \* d_voice_state, d_voice_frame_index, symbols to d_next_frame_symbols
  sinceSync,       \* blocks since the last sync pattern (d_samples_since_sync)
  slot,            \* d_current_slot
  sinceSlot,       \* blocks since d_last_frame_symbols, 0 when it was never set
  color,           \* d_color_code of the slot assembly
  frames           \* frames published by the last block decoded

decoderVars == <<stream, voice, sinceSync, slot, sinceSlot, color, frames>>

NoVoice == [on |-> FALSE, index |-> 0, due |-> 0]

DecoderInit ==
  /\ stream = <<>> /\ voice = NoVoice
  /\ sinceSync = 0 /\ slot = 1 /\ sinceSlot = 0
  /\ color = NoColor
  /\ frames = <<>>

(***************************************************************************)
(* dmr_slot::load_slot.  The 132 symbols it is given end where the frame   *)
(* is due, which is never the end of a burst (see README): what it reads   *)
(* as embedded signalling is noise, which it refuses or takes for any      *)
(* colour code.  The fragments it collects from noise never make the four  *)
(* of a link control that passes decode_embedded_lc, and are left out.     *)
(***************************************************************************)
LoadSlot ==
  \/ UNCHANGED color
  \/ \E c \in Colors : color \in {NoColor, c} /\ color' = c

(***************************************************************************)
(* determine_slot, for the sync patterns that do not name their slot.      *)
(***************************************************************************)
SlotNow ==
  LET symbols == sinceSlot * BlockSymbols IN
  CASE sinceSlot = 0 \/ symbols > 400       -> 1
    [] symbols > 100 /\ symbols < 200       -> 3 - slot
    [] OTHER                                -> slot

(***************************************************************************)
(* check_voice_frame_timing over the symbols of one block.                 *)
(***************************************************************************)
At == voice.due - Tolerance             \* symbol of the block the frame is collected at

FrameDue(to) == voice.on /\ 0 < At /\ At <= to
LastOver     == voice.index + 1 >= SuperframeFrames
Collects(to) == FrameDue(to) /\ ~LastOver

VoiceAfter ==
  CASE ~voice.on               -> voice
    [] ~FrameDue(BlockSymbols) -> [voice EXCEPT !.due = @ - BlockSymbols]
    [] LastOver                -> NoVoice
    [] OTHER                   -> [on |-> TRUE, index |-> voice.index + 1,
                                   due |-> At + 2 * FrameSymbols - BlockSymbols]

Frame(type, lc, data, at) == [type |-> type, lc |-> lc, data |-> data, slot |-> at]

\* collect_voice_frame: the frame published for the one due up to a symbol.
Collected(to) ==
  IF Collects(to) THEN <<Frame("VOICE", FALSE, FALSE, slot)>> ELSE <<>>

ReadsEmbedded(to) ==
  IF Collects(to) THEN LoadSlot ELSE UNCHANGED color

(***************************************************************************)
(* decode_payload and decode_trellis_data: what the checks of a data burst *)
(* make of it.  errors are those of its sync pattern; addressed says that  *)
(* the opcode of a control block is one with two addresses.                *)
(***************************************************************************)
DataTypes == {"HEADER", "TERMINATOR", "CSBK", "DATA_HEADER", "RATE_1_2", "RATE_3_4", "OTHER"}

Payload(type, bptc, check, errors, addressed) ==
  IF ~bptc /\ errors > 1 /\ type \notin {"RATE_3_4", "OTHER"}
  THEN [lc |-> FALSE, data |-> FALSE]
  ELSE [lc   |-> \/ type \in {"HEADER", "TERMINATOR"} /\ check
                 \/ type = "CSBK" /\ addressed,
        data |-> \/ type = "CSBK" /\ bptc /\ check
                 \/ type \in {"DATA_HEADER", "RATE_3_4"} /\ check
                 \/ type = "RATE_1_2"]

\* publish_burst: a burst as the type it was taken for, with what its checks made of it.
Published(type, p) == Frame(type, p.lc, p.data, SlotNow)

(***************************************************************************)
(* One block of symbols.                                                   *)
(***************************************************************************)
NextBlock(kinds) == stream # <<>> /\ Head(stream) \in kinds
Silent == sinceSync >= SilenceBlocks

\* A sync pattern is met: the collecting state runs to the end of the burst.
Synchronised ==
  /\ sinceSync' = 0
  /\ slot' = SlotNow
  /\ sinceSlot' = 1

\* No sync pattern is met; the silence reset comes when that lasts.
Unsynchronised ==
  /\ sinceSync' = IF Silent THEN 0 ELSE sinceSync + 1
  /\ sinceSlot' = IF sinceSlot \in {0, 2} THEN sinceSlot ELSE sinceSlot + 1
  /\ UNCHANGED slot

\* A block without a sync pattern, or one whose sync pattern the silence
\* reset wipes out of the register.
PlainBlock ==
  /\ NextBlock({"plain", "garbage"}) \/ (NextBlock({"header", "voice", "weak"}) /\ Silent)
  /\ voice' = VoiceAfter
  /\ ReadsEmbedded(BlockSymbols)
  /\ frames' = Collected(BlockSymbols)
  /\ Unsynchronised

\* A voice burst with its sync pattern opens a superframe and is published.
VoiceBlock ==
  /\ NextBlock({"voice"}) /\ ~Silent
  /\ voice' = [on |-> TRUE, index |-> 0, due |-> SyncEnd + 2 * FrameSymbols - BlockSymbols]
  /\ ReadsEmbedded(SyncEnd)
  /\ frames' = Append(Collected(SyncEnd), Frame("VOICE_A", FALSE, FALSE, SlotNow))
  /\ Synchronised

\* An intact header passes every check; its colour code is the call's.
HeaderBlock ==
  /\ NextBlock({"header"}) /\ ~Silent
  /\ voice' = VoiceAfter
  /\ color' \in Colors
  /\ frames' = Append(Collected(BlockSymbols),
                      Published("HEADER", Payload("HEADER", TRUE, TRUE, 0, FALSE)))
  /\ Synchronised

\* The frames a data burst whose checks fail may be published as.
Damages == [type : DataTypes, bptc : BOOLEAN, errors : {0, 2}, addressed : BOOLEAN]
Damaged ==
  {Published(d.type, Payload(d.type, d.bptc, FALSE, d.errors, d.addressed)) : d \in Damages}

\* A data burst with damaged bits, or one whose first symbols the silence
\* reset took away: its slot type is lost, or it says anything, but the
\* checks over its payload do not pass.
DamagedBlock ==
  /\ NextBlock({"weak"}) \/ (NextBlock({"header", "weak"}) /\ Silent)
  /\ voice' = VoiceAfter
  /\ ReadsEmbedded(BlockSymbols)
  /\ \/ frames' = Collected(BlockSymbols)
     \/ \E f \in Damaged : frames' = Append(Collected(BlockSymbols), f)
  /\ Synchronised

Decode ==
  /\ PlainBlock \/ VoiceBlock \/ HeaderBlock \/ DamagedBlock
  /\ stream' = Tail(stream)
=============================================================================

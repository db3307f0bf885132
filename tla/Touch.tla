------------------------------- MODULE Touch -------------------------------
(***************************************************************************)
(* The touch input of the direct-framebuffer devices: the kernel reports   *)
(* the fingers of a multi-touch panel frame by frame, leaving out every    *)
(* value that has not changed; the decoder of eh_backend_linuxfb/src/      *)
(* evdev.rs makes one pointer of them, and the queue of EvDev hands its    *)
(* events to the application one at a time.                                *)
(***************************************************************************)
EXTENDS Integers, Sequences, FiniteSetsExt

CONSTANTS
  Reach(_),   \* the places a finger of each slot touches
  Place,      \* positions on the panel, each told from the others
  Contacts,   \* how many contacts the panel reports: the length of slots
  MainSlot,   \* TouchQuirks::main_slot: the number of the panel's first slot
  QueueMax,   \* bound: events waiting in the queue
  MaxDrops,   \* bound: frames lost to an overflow of the kernel's buffer
  None

ASSUME TouchAssumption ==
  /\ Place \subseteq Nat \ {0} /\ Contacts \in Nat \ {0} /\ MainSlot \in Nat
  /\ QueueMax \in Nat /\ MaxDrops \in Nat /\ None \notin Int

VARIABLES
  finger,  \* the kernel: where the finger of each slot is, or None
  told,    \* the kernel: the slot and the positions it last reported
  dec,     \* Decoder
  out,     \* EvDev::queue
  drops    \* frames the kernel dropped

touchVars == <<finger, told, dec, out, drops>>

Slot == MainSlot .. MainSlot + Contacts - 1
Index == 0 .. Contacts - 1

(* What the application may be told: a place, or the corner, which stands *)
(* for positions that were never reported.                                *)
Spot == Place \union {0}

Clamp(i, n) == IF i < 0 THEN 0 ELSE IF i >= n THEN n - 1 ELSE i

MutantSlotIndex(s) == Clamp(s, Contacts)

(* slot_index: the first contact of the panel has the number main_slot. *)
SlotIndex(s) == Clamp(s - MainSlot, Contacts)

Event(kind, p) == [kind |-> kind, at |-> p]

-----------------------------------------------------------------------------
(* Frames of the kernel: per slot that changed, the slot number unless it is *)
(* the current one, the tracking id when a finger lands or lifts, and the    *)
(* position when it differs from the last one reported for the slot.         *)

Report(f, t, s) ==
  [slot |-> IF t.slot = s THEN None ELSE s,
   id   |-> IF (f[s] = None) = (finger[s] = None) THEN None
            ELSE IF f[s] = None THEN -1 ELSE s,
   pos  |-> IF f[s] \in {None, t.at[s]} THEN None ELSE f[s]]

Told(f, t, s) ==
  [slot |-> s, at |-> IF f[s] = None THEN t.at ELSE [t.at EXCEPT ![s] = f[s]]]

-----------------------------------------------------------------------------
(* Decoder::feed and Decoder::flush_syn. *)

(* The first contact wins: a second finger is only remembered. *)
FirstContact(d) ==
  IF d.tracked # None THEN d
  ELSE [d EXCEPT !.tracked = d.slot, !.emitted = FALSE, !.last = None]

FeedAbs(d, code, value) ==
  LET i == SlotIndex(d.slot) IN
  CASE code = "slot" -> [d EXCEPT !.slot = value]
    [] code = "id" -> IF value >= 0 THEN FirstContact([d EXCEPT !.slots[i].on = TRUE])
                      ELSE [d EXCEPT !.slots[i].on = FALSE]
    [] code = "pos" -> [d EXCEPT !.slots[i] = [at |-> value, on |-> @.on \/ @.at # 0]]

(* The values that are reported of a slot, in the order of the kernel. *)
Fed(d, code, value) == IF value = None THEN d ELSE FeedAbs(d, code, value)
FedReport(d, r) == Fed(Fed(Fed(d, "slot", r.slot), "id", r.id), "pos", r.pos)

(* One slot of a frame: what the kernel has told, and the decoder has read. *)
ReadSlot(f, s, r) ==
  IF f[s] = finger[s] THEN r
  ELSE [told |-> Told(f, r.told, s), dec |-> FedReport(r.dec, Report(f, r.told, s))]

(* A frame, slot by slot in the order of their numbers. *)
Frame(f) ==
  LET scan[n \in 0 .. Contacts] ==
        IF n = 0 THEN [told |-> told, dec |-> dec]
        ELSE ReadSlot(f, MainSlot + n - 1, scan[n - 1]) IN
  scan[Contacts]

(* A contact that has lifted gives way to the first one still down. *)
Retarget(d) ==
  LET down == {i \in Index : d.slots[i].on} IN
  [d EXCEPT !.tracked = IF down = {} THEN None ELSE Min(down) + MainSlot]

FlushSyn(d) ==
  LET c == d.slots[SlotIndex(d.tracked)]
      sent == [d EXCEPT !.emitted = TRUE, !.last = c.at] IN
  CASE d.tracked = None -> [dec |-> d, out |-> <<>>]
    [] d.tracked # None /\ ~ c.on ->
         [dec |-> [Retarget(d) EXCEPT !.emitted = FALSE, !.last = None],
          out |-> <<Event("up", c.at)>>]
    [] d.tracked # None /\ c.on /\ ~ d.emitted -> [dec |-> sent, out |-> <<Event("down", c.at)>>]
    [] d.tracked # None /\ c.on /\ d.emitted ->
         [dec |-> sent, out |-> IF d.last = c.at THEN <<>> ELSE <<Event("move", c.at)>>]

NewDecoder ==
  [slot |-> 0, tracked |-> None, slots |-> [i \in Index |-> [at |-> 0, on |-> FALSE]],
   emitted |-> FALSE, last |-> None]

-----------------------------------------------------------------------------
TouchInit ==
  /\ finger = [s \in Slot |-> None]
  /\ told = [slot |-> MainSlot, at |-> [s \in Slot |-> 0]]
  /\ dec = NewDecoder
  /\ out = <<>>
  /\ drops = 0

(* Any fingers of the panel land, move or lift in one frame. *)
Fingers == {f \in [Slot -> Place \union {None}] : \A s \in Slot : f[s] \in Reach(s) \union {None}}

(* Fingers land, move or lift; the frame is read, decoded and queued. *)
Touch(f) ==
  /\ f # finger /\ Len(out) < QueueMax
  /\ \E read \in {Frame(f)} : \E sent \in {FlushSyn(read.dec)} :
       told' = read.told /\ dec' = sent.dec /\ out' = out \o sent.out
  /\ finger' = f
  /\ UNCHANGED drops

(* The kernel's buffer overflows while the application draws: the frame is *)
(* lost; the decoder passes over the SYN_DROPPED that tells it.            *)
Overflow(f) ==
  /\ f # finger /\ out = <<>> /\ drops < MaxDrops
  /\ told' = Frame(f).told /\ finger' = f /\ drops' = drops + 1
  /\ UNCHANGED <<dec, out>>

TouchTypeOK ==
  /\ finger \in [Slot -> Place \union {None}]
  /\ told \in [slot : Slot, at : [Slot -> Spot]]
  /\ dec \in [slot : Slot \union {0}, tracked : Slot \union {0, None},
              slots : [Index -> [at : Spot, on : BOOLEAN]],
              emitted : BOOLEAN, last : Spot \union {None}]
  /\ \A i \in 1 .. Len(out) :
       out[i] \in [kind : {"down", "move", "up", "long"}, at : Spot]
  /\ drops \in 0 .. MaxDrops
=============================================================================

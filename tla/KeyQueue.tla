------------------------------ MODULE KeyQueue ------------------------------
(***************************************************************************)
(* The keyboard queue and its key parser (keyseq/src/queue.rs and lib.rs), *)
(* fed from the serial line and the USB keyboard as kernel/src/syscall.rs  *)
(* feeds it (keyboard_device_byte, take_one, keyboard_owner_changed).      *)
(*                                                                         *)
(* A byte is its class for the parser, with the number of the key press it *)
(* belongs to and its place in that key, which the code never sees: the    *)
(* properties compare what the queue does with what was really typed.      *)
(***************************************************************************)
EXTENDS Naturals, Sequences, SequencesExt

CONSTANTS
  QUEUE_LEN,
  SerialKeys, UsbKeys,   \* the keys there are, as sequences of byte classes
  EscAlone, UsbAlone,    \* esc_alone, usb_alone, in ticks
  MaxKeys                \* bound: key presses in one behaviour

ASSUME QueueAssumption ==
  /\ QUEUE_LEN \in Nat \ {0} /\ MaxKeys \in Nat
  /\ EscAlone \in Nat /\ UsbAlone \in Nat /\ EscAlone < UsbAlone

\* ESC; `[`; `O`; another byte that can end a sequence; a parameter byte of
\* one; a control byte; an interrupt key (a control byte the kernel acts on).
Classes == {"esc", "bra", "oh", "let", "par", "ctl", "int"}
Printable == {"bra", "oh", "let", "par"}

NoKey == 0

VARIABLES
  q,        \* KBD_QUEUE
  serial,   \* bytes waiting on the serial line
  usb,      \* bytes waiting in the USB driver
  typed,    \* keys typed so far
  held,     \* history: the key the owner has read part of
  cut       \* history: keys some byte of which was discarded

vars == <<q, serial, usb, typed, held, cut>>

Byte == [class : Classes, key : 1 .. MaxKeys, place : Nat, last : BOOLEAN]
Queue ==
  [buf : Seq([byte : Byte, starts : BOOLEAN]),
   keys : {"Ground", "Esc", "Csi", "Ss3"}, inside : BOOLEAN, inside_usb : BOOLEAN,
   age : 0 .. UsbAlone + 1,    \* now - fed_at, not told apart past usb_alone
   partial : 0 .. QUEUE_LEN, dropping : BOOLEAN, taken_mid : BOOLEAN]

\* partial counts bytes at the back of the queue, and only of an open key.
TypeOK ==
  /\ q \in Queue
  /\ Len(q.buf) <= QUEUE_LEN /\ q.partial <= Len(q.buf)
  /\ q.inside <=> q.keys # "Ground"
  /\ serial \in Seq(Byte) /\ usb \in Seq(Byte)
  /\ typed \in 0 .. MaxKeys
  /\ held \in 0 .. MaxKeys /\ cut \subseteq 1 .. MaxKeys

Init ==
  /\ q = [buf |-> << >>, keys |-> "Ground", inside |-> FALSE, inside_usb |-> FALSE,
          age |-> 0, partial |-> 0, dropping |-> FALSE, taken_mid |-> FALSE]
  /\ serial = << >> /\ usb = << >>
  /\ typed = 0 /\ held = NoKey /\ cut = {}

----------------------------------------------------------------------------
(***************************************************************************)
(* KeySeq::feed: the state after a byte in state st, and what it was.      *)
(***************************************************************************)
feed(st, c) ==
  CASE c = "esc" -> [to |-> "Esc", fed |-> "Pending"]
    [] st = "Ground" /\ c # "esc" -> [to |-> "Ground", fed |-> "Byte"]
    [] st # "Ground" /\ c \in {"ctl", "int"} -> [to |-> "Ground", fed |-> "Byte"]
    [] st = "Esc" /\ c = "bra" -> [to |-> "Csi", fed |-> "Pending"]
    [] st = "Esc" /\ c = "oh" -> [to |-> "Ss3", fed |-> "Pending"]
    [] st = "Esc" /\ c \in {"let", "par"} -> [to |-> "Ground", fed |-> "Byte"]
    [] st = "Csi" /\ c = "par" -> [to |-> "Csi", fed |-> "Pending"]
    [] st = "Csi" /\ c \in Printable \ {"par"} -> [to |-> "Ground", fed |-> "Sequence"]
    [] st = "Ss3" /\ c \in Printable -> [to |-> "Ground", fed |-> "Sequence"]

(***************************************************************************)
(* KeyQueue's operations, on its record.                                   *)
(***************************************************************************)
\* A mutant: the drop goes on past the end of the key.
end_key_still_dropping(k) ==
  [k EXCEPT !.keys = "Ground", !.inside = FALSE, !.partial = 0,
            !.taken_mid = @ /\ k.buf # << >>]

end_key(k) ==
  [k EXCEPT !.keys = "Ground", !.inside = FALSE, !.partial = 0, !.dropping = FALSE,
            !.taken_mid = @ /\ k.buf # << >>]

Alone(k) == IF k.inside_usb THEN UsbAlone ELSE EscAlone
expire(k) == IF k.inside /\ k.age > Alone(k) THEN end_key(k) ELSE k

Shorter(s, n) == SubSeq(s, 1, Len(s) - n)
Least(a, b) == IF a < b THEN a ELSE b

\* push_byte, by its early returns: the parser's step, then a key that is
\* being dropped, then a full queue, then the append.
Parsed(k, b, from_usb) ==
  LET f == feed(k.keys, b.class)
      abandons == k.inside /\ b.class = "esc"
      starts == ~k.inside \/ abandons IN
  [fed |-> f.fed, abandons |-> abandons, starts |-> starts,
   k |-> [k EXCEPT !.keys = f.to, !.inside = f.fed = "Pending", !.age = 0,
            !.inside_usb = IF starts THEN from_usb ELSE @,
            !.partial = IF f.fed = "Byte" /\ b.class \in Printable THEN 0 ELSE @,
            !.dropping = @ /\ ~abandons /\ f.fed = "Pending"],
   drops |-> k.dropping /\ ~abandons /\ f.fed # "Byte"]

\* A full queue: the part of this key still queued is taken back (none of a
\* key that is being dropped: its partial is 0).
TakenBack(p) ==
  LET back == Least(p.k.partial, Len(p.k.buf)) IN
  [p.k EXCEPT !.buf = Shorter(@, back), !.partial = 0]

\* A mutant: a byte that ends the sequence before it is taken for its rest.
Appended_unmarked(k, b, p) ==
  [k EXCEPT !.buf = Append(@, [byte |-> b, starts |-> p.starts]),
            !.partial = IF p.fed # "Pending" THEN 0 ELSE IF p.abandons THEN 1 ELSE @ + 1]

\* The byte is queued; a byte that ended a cut sequence starts a key.
Appended(k, b, p) ==
  [k EXCEPT !.buf = Append(@, [byte |-> b, starts |-> p.starts \/ p.fed = "Byte"]),
            !.partial = IF p.fed # "Pending" THEN 0 ELSE IF p.abandons THEN 1 ELSE @ + 1]

\* A mutant: a byte that finds no room goes, the front of its key stays.
push_byte_cutting(k, b, from_usb) ==
  LET p == Parsed(expire(k), b, from_usb) IN
  IF p.drops \/ Len(p.k.buf) = QUEUE_LEN THEN p.k ELSE Appended(p.k, b, p)

\* A key being dropped goes on being dropped; a full queue takes back the
\* front of the key the byte belongs to and drops the rest as it comes.
push_byte(k, b, from_usb) ==
  LET p == Parsed(expire(k), b, from_usb) IN
  IF p.drops THEN p.k
  ELSE IF Len(p.k.buf) < QUEUE_LEN THEN Appended(p.k, b, p)
  ELSE LET t == TakenBack(p)
           room == Len(t.buf) < QUEUE_LEN IN
       IF p.fed = "Pending" /\ ~(p.abandons /\ room) THEN [t EXCEPT !.dropping = TRUE]
       ELSE IF p.fed = "Sequence" \/ ~room THEN t
       ELSE Appended(t, b, p)

\* push: the last byte of a USB key ends it whatever the parser makes of it.
push(k, b, from_usb) ==
  LET n == push_byte(k, b, from_usb) IN
  IF from_usb /\ b.last /\ n.inside /\ n.inside_usb THEN end_key(n) ELSE n

\* flush, for an interrupt key and on request.
Emptied(k) == [k EXCEPT !.buf = << >>, !.partial = 0, !.taken_mid = FALSE]

flush_interrupted(k) ==
  [Emptied(k) EXCEPT !.keys = feed(k.keys, "int").to, !.inside = FALSE, !.dropping = FALSE]

flush_requested(k) == [Emptied(k) EXCEPT !.dropping = k.dropping \/ k.inside]

\* The queued bytes up to the next key's start go.
Starts(k) == {i \in 1 .. Len(k.buf) : k.buf[i].starts}
Trimmed(k) ==
  IF Starts(k) = {} THEN << >>
  ELSE LET i == CHOOSE i \in Starts(k) : \A j \in Starts(k) : i <= j IN
       SubSeq(k.buf, i, Len(k.buf))

\* trim_cut_key: the rest of a key the last owner began to read goes, the
\* bytes still to come included.
trim_cut_key(k0) ==
  LET k == expire(k0)
      b == Trimmed(k) IN
  IF ~k.taken_mid THEN k
  ELSE [k EXCEPT !.buf = b, !.dropping = @ \/ (b = << >> /\ k.inside),
                 !.partial = Least(@, Len(b)), !.taken_mid = FALSE]

\* pop: does the reader now hold part of a key?
pop(k) ==
  LET b == Tail(k.buf) IN
  [k EXCEPT !.buf = b, !.partial = Least(@, Len(b)),
            !.taken_mid = IF b # << >> THEN ~b[1].starts ELSE Len(k.buf) <= k.partial]

----------------------------------------------------------------------------
(***************************************************************************)
(* The world around it.                                                    *)
(***************************************************************************)
Bytes(key) ==
  [i \in 1 .. Len(key) |->
     [class |-> key[i], key |-> typed + 1, place |-> i, last |-> i = Len(key)]]
TypeSerial(key) ==
  /\ typed < MaxKeys /\ typed' = typed + 1
  /\ serial' = serial \o Bytes(key)
  /\ UNCHANGED <<q, usb, held, cut>>
TypeUsb(key) ==
  /\ typed < MaxKeys /\ typed' = typed + 1
  /\ usb' = usb \o Bytes(key)
  /\ UNCHANGED <<q, serial, held, cut>>

\* Keys of which bytes are in `before` and no longer in `after`.
KeysOf(buf) == {buf[i].byte.key : i \in 1 .. Len(buf)}
Holds(buf, b) == \E i \in 1 .. Len(buf) : buf[i].byte = b
Discarded(before, after) ==
  {before[i].byte.key : i \in {j \in 1 .. Len(before) : ~Holds(after, before[j].byte)}}

\* take_one on the byte b.
Feed(b, from_usb) ==
  \/ /\ b.class = "int"
     /\ q' = flush_interrupted(q)
     /\ cut' = cut \cup KeysOf(q.buf)
  \/ /\ b.class # "int"
     /\ q' = push(q, b, from_usb)
     /\ cut' = cut \cup Discarded(q.buf, q'.buf)
                   \cup (IF Holds(q'.buf, b) THEN {} ELSE {b.key})

\* keyboard_device_byte: inside a key, the rest of it, from where it began.
\* Otherwise the serial line first, but what is still in the wire's way may
\* come after what the USB keyboard has.
ReadSerial ==
  /\ serial # << >>
  /\ ~(expire(q).inside /\ q.inside_usb /\ usb # << >>)
  /\ Feed(serial[1], FALSE)
  /\ serial' = Tail(serial)
  /\ UNCHANGED <<usb, typed, held>>
ReadUsb ==
  /\ usb # << >>
  /\ ~(expire(q).inside /\ ~q.inside_usb)
  /\ Feed(usb[1], TRUE)
  /\ usb' = Tail(usb)
  /\ UNCHANGED <<serial, typed, held>>

\* A look at the devices that finds nothing still ends a key left alone.
ReadNothing ==
  /\ usb # << >> => expire(q).inside /\ ~q.inside_usb
  /\ q' = expire(q)
  /\ UNCHANGED <<serial, usb, typed, held, cut>>

\* The owner reads a byte.
Pop ==
  /\ q.buf # << >>
  /\ q' = pop(q)
  /\ LET b == q.buf[1].byte IN held' = IF b.last THEN NoKey ELSE b.key
  /\ UNCHANGED <<serial, usb, typed, cut>>

\* fg or a death: the keyboard passes to another task.
OwnerChanges ==
  /\ q' = trim_cut_key(q)
  /\ held' = NoKey
  /\ cut' = cut \cup ({held} \ {NoKey}) \cup Discarded(q.buf, q'.buf)
  /\ UNCHANGED <<serial, usb, typed>>

\* keyboard_flush_input (KBD_MODE's flush): it reads the devices dry first
\* (the Read steps); a serial key may still be on the wire.
FlushRequested ==
  /\ usb # << >> => expire(q).inside /\ ~q.inside_usb
  /\ q' = flush_requested(q)
  /\ cut' = cut \cup KeysOf(q.buf) \cup ({held} \ {NoKey})
  /\ UNCHANGED <<serial, usb, typed, held>>

\* Assumed: the rest of a key that is on its way is read before the parser
\* gives it up; the bytes of a serial key come in one burst, and those of a
\* USB report wait in the driver.
RestIsComing ==
  \/ q.inside_usb /\ usb # << >> /\ usb[1].place > 1
  \/ ~q.inside_usb /\ serial # << >> /\ serial[1].place > 1
Tick ==
  /\ q.inside /\ (RestIsComing => q.age < Alone(q))
  /\ q' = [q EXCEPT !.age = Least(@ + 1, UsbAlone + 1)]
  /\ UNCHANGED <<serial, usb, typed, held, cut>>

Next ==
  \/ \E key \in SerialKeys : TypeSerial(key)
  \/ \E key \in UsbKeys : TypeUsb(key)
  \/ ReadSerial \/ ReadUsb \/ ReadNothing \/ Pop \/ OwnerChanges \/ FlushRequested \/ Tick

Spec == Init /\ [][Next]_vars

----------------------------------------------------------------------------
(***************************************************************************)
(* Properties.                                                             *)
(***************************************************************************)
\* "keeps keys whole": in the queue a byte that does not begin a key follows
\* the byte before it in that key, or is the rest of the key the owner has
\* begun to read; a byte that does not end a key is followed by the next one,
\* or the next one is still to be read from its device.
WholeKeys ==
  \A i \in 1 .. Len(q.buf) :
    LET b == q.buf[i].byte IN
    /\ b.place > 1 =>
         IF i = 1 THEN held = b.key
         ELSE /\ q.buf[i - 1].byte.key = b.key
              /\ q.buf[i - 1].byte.place = b.place - 1
    /\ ~b.last =>
         \/ i < Len(q.buf) /\ q.buf[i + 1].byte.key = b.key
         \/ i = Len(q.buf) /\ b.key \notin cut

\* A byte read is lost only for want of room, or with its key: the front of
\* the key was flushed, dropped, or read by an owner that lost the keyboard.
\* Nothing typed after an interrupt, an Escape or a cut key is taken for a
\* part of it, and a queue with room takes nothing back (push_byte, flush).
OnlyCutKeysAreDropped ==
  [][\A b \in {serial[i] : i \in 1 .. Len(serial) - Len(serial')}
            \cup {usb[i] : i \in 1 .. Len(usb) - Len(usb')} :
       b.class # "int" /\ Len(q.buf) < QUEUE_LEN =>
         /\ Holds(q'.buf, b) \/ b.key \in cut
         /\ IsPrefix(q.buf, q'.buf)]_vars

\* "Complete keys typed ahead stay" (decision E3): a change of owner removes
\* the rest of the key the last owner had begun to read, and nothing else
\* (trim_cut_key).
TypeAheadStays ==
  [][OwnerChanges => q'.buf = SelectSeq(q.buf, LAMBDA e : e.byte.key # held)]_vars
============================================================================

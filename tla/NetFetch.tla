------------------------------ MODULE NetFetch ------------------------------
(***************************************************************************)
(* The requests netd serves by waiting: ping, name lookup and page fetch.  *)
(* Each is a row of stages, and in each stage netd sends a frame and polls *)
(* the card until the answer comes or a deadline passes.  Every frame that  *)
(* is not the answer is thrown away.                                       *)
(*                                                                         *)
(* The network is external: any frame of an exchange may arrive at any     *)
(* time, again, late or not at all.  A page is the sequence 1..PageLen.    *)
(***************************************************************************)
EXTENDS Integers, Sequences

CONSTANTS
  SYN_TRIES, SYN_WAIT_TICKS, Patience,  \* Patience: the other stages' ticks
  RespMax, PageLen, Segs,               \* Segs: data units per segment
  MaxRequests

VARIABLES op, stage, waited, tries, rcv_nxt, resp, fin, answer, made

vars == <<op, stage, waited, tries, rcv_nxt, resp, fin, answer, made>>

Ops == {"ping", "resolve", "fetch"}
Waits == {"arp", "echo", "dns", "hop", "syn", "body"}

Init ==
  /\ op = "none" /\ stage = "idle" /\ answer = "none"
  /\ waited = 0 /\ tries = 0 /\ rcv_nxt = 0 /\ resp = <<>> /\ fin = FALSE
  /\ made = 0

Finish(a) ==
  /\ stage' = "idle" /\ answer' = a
  /\ UNCHANGED <<op, waited, tries, rcv_nxt, resp, fin>>

Enter(s, n) ==
  /\ stage' = s /\ waited' = 0 /\ tries' = n
  /\ UNCHANGED <<op, resp, fin, answer>>

(* Every request begins with an ARP lookup (a bad name is refused before
   anything is waited for); a frame the card refuses ends it. *)
Request ==
  /\ stage = "idle" /\ made < MaxRequests
  /\ made' = made + 1
  /\ \E o \in Ops :
       /\ op' = o
       /\ \/ stage' = "arp" /\ answer' = "none"
          \/ stage' = "idle" /\ answer' = "refused"
  /\ waited' = 0 /\ tries' = 0 /\ rcv_nxt' = 0 /\ resp' = <<>> /\ fin' = FALSE

(***************************************************************************)
(* Answers.  arp_resolve, icmp_echo, resolve_ip, then tcp_get's handshake  *)
(* and body.                                                               *)
(***************************************************************************)
arp_resolve ==
  /\ stage \in {"arp", "hop"}
  /\ UNCHANGED rcv_nxt
  /\ \/ stage = "hop" /\ Enter("syn", 1)
     \/ stage = "arp" /\ op = "ping" /\ Enter("echo", 0)
     \/ stage = "arp" /\ op # "ping" /\ Enter("dns", 0)
     \/ stage = "arp" /\ op # "ping" /\ Finish("refused")

icmp_echo == stage = "echo" /\ Finish("ok")

(* The first frame from the name server's port decides, whatever it says. *)
resolve_ip ==
  /\ stage = "dns"
  /\ \/ op = "resolve" /\ Finish("ok")
     \/ op = "fetch" /\ Enter("hop", 0) /\ UNCHANGED rcv_nxt
     \/ Finish("refused")

(* The request goes out once, with the handshake's last frame. *)
Handshake ==
  /\ stage = "syn"
  /\ \/ Enter("body", 0) /\ rcv_nxt' = 1
     \/ Finish("refused")

InOrder(seg) == seg.data # <<>> /\ seg.seq = rcv_nxt
Takes(seg) ==
  LET room == RespMax - Len(resp)
  IN  SubSeq(seg.data, 1, IF Len(seg.data) <= room THEN Len(seg.data) ELSE room)

(* The page's segments: units of it from seq on, the FIN with the last of
   them or alone after it. *)
Segments ==
  {seg \in {[seq |-> s, data |-> [k \in 1..n |-> s + k - 1], fin |-> f] :
              s \in 1..(PageLen + 1), n \in Segs, f \in BOOLEAN} :
     /\ seg.seq + Len(seg.data) <= PageLen + 1
     /\ seg.fin => seg.seq + Len(seg.data) = PageLen + 1}

Ended(r, f) == IF r # <<>> \/ f THEN "ok" ELSE "timeout"

(* Data counts only in order, a FIN wherever it comes. *)
Next_after(seg) ==
  rcv_nxt + (IF InOrder(seg) THEN Len(seg.data) ELSE 0) + (IF seg.fin THEN 1 ELSE 0)

tcp_get(seg) ==
  LET r == IF InOrder(seg) THEN resp \o Takes(seg) ELSE resp
      over == seg.fin \/ Len(r) >= RespMax
  IN  /\ stage = "body"
      /\ resp' = r
      /\ fin' = seg.fin
      /\ rcv_nxt' = Next_after(seg)
      /\ waited' = IF InOrder(seg) THEN 0 ELSE waited
      /\ stage' = IF over THEN "idle" ELSE "body"
      /\ answer' = IF over THEN Ended(r, seg.fin) ELSE "none"
      /\ UNCHANGED <<op, tries>>

Reset == stage = "body" /\ Finish(Ended(resp, FALSE))

Answered ==
  /\ \/ arp_resolve \/ icmp_echo \/ resolve_ip \/ Handshake \/ Reset
     \/ \E seg \in Segments : tcp_get(seg)
  /\ UNCHANGED made

(***************************************************************************)
(* The clock.  A tick is noticed in every polling loop, and a deadline     *)
(* passed ends the stage, except that a SYN is sent SYN_TRIES times.       *)
(***************************************************************************)
Limit == IF stage = "syn" THEN SYN_WAIT_TICKS ELSE Patience
PastDeadline == waited >= Limit

TimedOut ==
  IF stage = "syn" /\ tries < SYN_TRIES THEN Enter("syn", tries + 1) /\ UNCHANGED rcv_nxt
  ELSE Finish(IF stage = "body" THEN Ended(resp, fin) ELSE "timeout")

Tick ==
  /\ stage \in Waits
  /\ IF PastDeadline THEN TimedOut
     ELSE waited' = waited + 1 /\ UNCHANGED <<op, stage, tries, rcv_nxt, resp, fin, answer>>
  /\ UNCHANGED made

Next == Request \/ Answered \/ Tick
Spec == Init /\ [][Next]_vars
FairSpec == Spec /\ WF_vars(Tick)

(* What a fetch hands back is the beginning of the page, never a later part
   of it or more than its buffer; and when the page's end came in its turn,
   all of the page that fits. *)
FetchIntact ==
  /\ Len(resp) <= PageLen /\ Len(resp) <= RespMax
  /\ \A k \in 1..Len(resp) : resp[k] = k
  /\ fin /\ rcv_nxt = PageLen + 2 => Len(resp) \in {PageLen, RespMax}

(* Every such request is answered: the deadlines pass, and data that puts
   one off is data of a finite page. *)
FetchEnds == stage # "idle" ~> stage = "idle"
=============================================================================

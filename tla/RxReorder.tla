------------------------------ MODULE RxReorder ------------------------------
(* The receiving side of a block acknowledgement session: the peer's window,*)
(* the driver's watch over the sequence numbers (rx_h_check_sn), the queue  *)
(* to mac80211's tasklet and mac80211's reorder buffer.                     *)
EXTENDS Integers, Sequences

CONSTANTS Mod,      \* IEEE80211_SN_MODULO, scaled
          Buf,      \* the session's buffer size
          MaxIrq    \* frames between ieee80211_rx_irqsafe and the tasklet

ASSUME ReorderAssumption == /\ Mod \in Nat /\ Buf \in Nat \ {0} /\ MaxIrq \in Nat \ {0}
                            /\ Mod % 2 = 0 /\ 6 * Buf <= Mod

VARIABLES nxt,      \* the peer: its next sequence number,
          again,    \* what it may send once more,
          gap,      \* how many it lost in a row (Buf + 1: out of reach)
          sess,     \* i_sta->rx_ba_session[tid]
          open,     \* mac80211 has the session
          head,     \* tid_agg_rx->head_seq_num
          stored,   \* tid_agg_rx->reorder_buf
          irq,      \* frames passed to mac80211 and not seen by its tasklet
          drops     \* new frames dropped in a row as out of date, since the last silence
rxVars == <<nxt, again, gap, sess, open, head, stored, irq, drops>>

Sn == 0 .. Mod - 1
Half == Mod \div 2
Diff(a, b) == (a - b) % Mod
Less(a, b) == Diff(a, b) > Half

RxInit == /\ nxt = 0 /\ again = {} /\ gap = 0
          /\ sess = [started |-> FALSE, sn |-> 0]
          /\ open = FALSE /\ head = 0 /\ stored = {} /\ irq = <<>> /\ drops = 0

-----------------------------------------------------------------------------
(* The driver *)

\* nrc_mac_ampdu_action: the record is made even when the session is rejected. The
\* peer asks when what it sent before is done with.
RxStart(reject) == /\ ~open /\ irq = <<>> /\ again = {}
                   /\ sess' = [started |-> TRUE, sn |-> nxt]
                   /\ open' = ~reject /\ head' = nxt /\ stored' = {} /\ drops' = 0
                   /\ UNCHANGED <<nxt, again, gap, irq>>
RxStop == /\ open' = FALSE /\ stored' = {} /\ drops' = 0
          /\ sess' = [sess EXCEPT !.started = FALSE]
          /\ UNCHANGED <<nxt, again, gap, head, irq>>

\* Mutants: a reordering within the window counts; so does no step back at all.
InvertedAny(sn) == sess.started /\ Less(sn, sess.sn)
InvertedNever(sn) == sess.started /\ Less(sn, sess.sn) /\ Diff(sn, sess.sn) <= Buf

\* The numbers went back by less than half the circle, and by more than a window.
Inverted(sn) == /\ sess.started /\ Less(sn, sess.sn)
                /\ Diff(sn, sess.sn) <= Mod - Buf

\* A frame through nrc_mac_rx: on an inversion mac80211 is told to start anew at
\* this frame (ieee80211_mark_rx_ba_filtered_frames), before it is passed on.
CheckSn(sn) == IF sess.started THEN [sess EXCEPT !.sn = sn] ELSE sess
Arrive(sn, new) ==
    /\ Len(irq) < MaxIrq
    /\ irq' = Append(irq, [sn |-> sn, new |-> new])
    /\ sess' = CheckSn(sn)
    /\ IF Inverted(sn) /\ open THEN head' = sn /\ stored' = {}
       ELSE UNCHANGED <<head, stored>>
    /\ UNCHANGED <<open, drops>>

-----------------------------------------------------------------------------
(* mac80211: ieee80211_sta_manage_reorder_buf in the tasklet, and its timer *)

\* Released from h on as far as there is no hole.
Run(h, st) ==
    LET n == CHOOSE i \in 0 .. Buf : /\ (h + i) % Mod \notin st
                                    /\ \A j \in 0 .. i - 1 : (h + j) % Mod \in st
    IN [head |-> (h + n) % Mod, stored |-> st \ {(h + j) % Mod : j \in 0 .. n - 1}]

Slid(sn) == IF Less(sn, (head + Buf) % Mod) THEN head ELSE (sn - Buf + 1) % Mod
Kept(h) == {s \in stored : ~Less(s, h)}
Take(r) == head' = r.head /\ stored' = r.stored

Tasklet ==
    /\ irq # <<>> /\ irq' = Tail(irq)
    /\ LET f == Head(irq) IN
       IF open /\ Less(f.sn, head)
       THEN /\ drops' = IF f.new THEN drops + 1 ELSE drops
            /\ UNCHANGED <<head, stored>>
       ELSE /\ drops' = IF f.new THEN 0 ELSE drops
            /\ IF open THEN LET h == Slid(f.sn) IN Take(Run(h, Kept(h) \cup {f.sn}))
               ELSE UNCHANGED <<head, stored>>
    /\ UNCHANGED <<nxt, again, gap, sess, open>>

\* 100 ms after a hole: what waits behind it is released.
First == CHOOSE s \in stored : \A t \in stored : Diff(s, head) <= Diff(t, head)
Timeout == /\ stored # {} /\ Take(Run(First, stored))
           /\ UNCHANGED <<nxt, again, gap, sess, open, irq, drops>>

-----------------------------------------------------------------------------
(* The peer *)

\* The window: nothing new beyond what may still be sent again.
Room == \A s \in again : Diff(nxt, s) < Buf
Next1 == nxt' = (nxt + 1) % Mod

Fresh == /\ Room /\ Arrive(nxt, TRUE) /\ Next1 /\ gap' = 0
         /\ again' \in {again, again \cup {nxt}}       \* acknowledged, or not
Lost == /\ Room /\ Next1 /\ again' = again \cup {nxt}
        /\ gap < Buf /\ gap' = gap + 1
        /\ UNCHANGED <<sess, open, head, stored, irq, drops>>
Retry(s) == /\ s \in again /\ Arrive(s, FALSE)
            /\ again' \in {again, again \ {s}} /\ UNCHANGED nxt /\ gap' = 0
GiveUp(s) == /\ s \in again /\ again' = again \ {s}
             /\ UNCHANGED <<nxt, gap, sess, open, head, stored, irq, drops>>

\* The peer is out of reach while it sends n frames and gives them up. That lasts
\* longer than the tasklet and the timer take.
Away(n) == /\ irq = <<>> /\ stored = {} /\ gap <= Buf /\ drops = 0
           /\ nxt' = (nxt + n) % Mod /\ again' = {} /\ gap' = Buf + 1
           /\ UNCHANGED <<sess, open, head, stored, irq, drops>>

=============================================================================

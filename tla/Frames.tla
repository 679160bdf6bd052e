------------------------------- MODULE Frames --------------------------------
(* The frames between a station and its access point: who encrypts them     *)
(* (Keys), and the order they are received in (RxReorder). The sessions of  *)
(* a station end with its pairwise key.                                     *)
EXTENDS Keys, RxReorder

CONSTANT Secured        \* numbers used on a network with keys; an open one goes round

ASSUME SecuredAssumption == Secured \in Nat /\ Secured < Mod - Buf

VARIABLE net
vars == <<keyVars, rxVars, net>>

\* Without keys it does not matter who would encrypt.
Init == /\ KeysInit /\ RxInit
        /\ net \in {"open", "secured"} /\ (net = "open" => sw_enc = "sw" /\ ~caps.hwsec)

\* A station whose frames mac80211 takes: it has a key, or needs none.
Heard == net = "open" \/ \E k \in InUse : Kind(k) = "pair"
More == net = "open" \/ nxt < Secured

\* Removing a pairwise key, mac80211 ends the sessions first.
EndSessions(k) == IF Kind(k) = "pair" /\ open THEN RxStop ELSE UNCHANGED rxVars
KeyStep == /\ net = "secured" /\ UNCHANGED net
           /\ \/ /\ \/ Target \/ Returns \/ AddMesh
                    \/ \E k \in Keys : SetKey(k)
                 /\ UNCHANGED rxVars
              \/ \E k \in Keys : DisableKey(k) /\ EndSessions(k)

RxStep == /\ UNCHANGED <<keyVars, net>>
          /\ \/ Tasklet \/ Timeout \/ RxStop
             \/ Heard /\ \E r \in BOOLEAN : RxStart(r)
             \/ Heard /\ More /\ (Fresh \/ Lost)
             \/ \E s \in again : (Heard /\ Retry(s)) \/ GiveUp(s)
             \/ net = "open" /\ \E n \in Sn \ {0} : Away(n)

Next == KeyStep \/ RxStep
Spec == Init /\ [][Next]_vars

-----------------------------------------------------------------------------
(* Properties *)

\* Each protected frame is encrypted once, by mac80211 or by the target, and
\* decrypted once: whatever the target refused, whatever answer got lost, and
\* whichever keys were recorded before. (Of the frames received under a key that
\* the target was asked for in vain nothing is said: they are taken for decrypted.)
\* The exception: a mesh interface was added while the target had keys (late).
CryptOnce == late \/ \A k \in InUse :
    /\ HostEncrypts(k) # TargetEncrypts(k)
    /\ mac[k] # "fallback" => (Flagged(k) <=> TargetDecrypts(k))

\* A peer that comes back after any number of frames sent in vain is heard again
\* after fewer frames than two windows hold, not after half the circle.
DropsBounded == drops < 2 * Buf

\* mac80211's buffer is set back only after such a silence: neither losses within
\* the window nor frames sent again, late or twice, are taken for it.
OnlyAfterAway == gap > Buf \/ \A s \in again \cup {nxt} : ~Inverted(s)

=============================================================================

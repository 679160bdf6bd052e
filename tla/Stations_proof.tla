---------------------------- MODULE Stations_proof ----------------------------
(* The proofs about a station and its access point: frames and keys (Frames), *)
(* then sessions and idle timers (Peers).                                     *)
(* Every frame is encrypted and decrypted once (Frames!CryptOnce), for every  *)
(* set of keys and ciphers and whatever the target answers. mac80211's        *)
(* reorder buffer is set back only after a silence (OnlyAfterAway), and then  *)
(* drops fewer new frames than two windows hold (DropsBounded), for every     *)
(* window of at most a sixth of the circle of sequence numbers. Driver,       *)
(* mac80211 and target stay in step about aggregation (Peers!InStep), and a   *)
(* station that sends its keep-alives is kept (KeptAlive).                    *)
EXTENDS Frames, Peers, WellFoundedInduction, TLAPS

Answers == {None, "ok", "refused", "dead", "none"}
Calls == [cmd : {"set", "disable"}, key : Keys, answer : Answers]

KeyTypes == /\ sw_enc \in Encs /\ caps \in [hwsec : BOOLEAN, hybrid : BOOLEAN]
            /\ rec \in [{"pair", "group"} -> Keys \cup {None}]
            /\ call \in {None} \cup Calls
            /\ mac \in [Keys -> Views] /\ tgt \subseteq Keys /\ late \in BOOLEAN

\* What mac80211 has uploaded, the target has, and a key was recorded.
Uploaded == \A k \in Keys : mac[k] = "hw" => k \in tgt /\ rec[Kind(k)] # None

\* The target has only keys that it was asked for, and no key that is declined;
\* mac80211 keeps to itself only keys that are.
Divided == /\ \A k \in tgt : ~Declines(k)
           /\ \A k \in Keys : mac[k] = "sw" => Declines(k)
           /\ caps.hybrid => rec["group"] = None

\* A key that is being set replaces no key in use.
Asked == call # None =>
    /\ mac[call.key] \in {"asked", "tainted"}
    /\ call.cmd = "set" =>
         /\ ~Declines(call.key) /\ rec[Kind(call.key)] # None
         /\ Kind(call.key) = "pair" => \A j \in InUse : Kind(j) # "pair"
         /\ call.answer = "ok" => call.key \in tgt

IInv == KeyTypes /\ Uploaded /\ Divided /\ Asked

-----------------------------------------------------------------------------
\* A call is no stand-in for "none in progress": the two are told apart.
LEMMA CallIsSome ==
    ASSUME NEW c \in {"set", "disable"}, NEW k \in Keys, NEW a \in Answers
    PROVE  [cmd |-> c, key |-> k, answer |-> a] # None
  BY KeysAssumption DEF Answers

\* A key that is not declined is a pairwise or a group key.
LEMMA NotSigning ==
    ASSUME NEW k \in Keys, ~Declines(k)
    PROVE  Kind(k) \in {"pair", "group"}
  BY KeysAssumption DEF Declines

LEMMA Initially == Init => IInv
  <1> SUFFICES ASSUME Init PROVE IInv
    OBVIOUS
  <1>1. KeyTypes
    <2>1. caps \in [hwsec : BOOLEAN, hybrid : BOOLEAN]
      BY DEF Init, KeysInit, CapsOf
    <2>2. late \in BOOLEAN
      BY Zenon DEF Init, KeysInit
    <2> QED BY <2>1, <2>2 DEF Init, KeysInit, KeyTypes, Views
  <1>2. Uploaded /\ Divided /\ Asked
    BY DEF Init, KeysInit, Uploaded, Divided, Asked
  <1> QED BY <1>1, <1>2 DEF IInv

\* The steps one by one.
LEMMA SetKeyKeeps ==
    ASSUME IInv, NEW k \in Keys, SetKey(k)
    PROVE  IInv'
  <1> USE DEF SetKey, Becomes, Declines
  <1>1. mac \in [Keys -> Views] /\ rec \in [{"pair", "group"} -> Keys \cup {None}]
    BY DEF IInv, KeyTypes
  <1>2. CASE Declines(k)
    <2>1. mac' = [mac EXCEPT ![k] = "sw"] /\ UNCHANGED <<sw_enc, caps, rec, call, tgt, late>>
      BY <1>2
    <2>2. \A j \in Keys : mac'[j] = IF j = k THEN "sw" ELSE mac[j]
      BY <1>1, <2>1
    <2>3. call = None /\ mac[k] = "absent"
      OBVIOUS
    <2>4. KeyTypes'
      BY <2>1 DEF IInv, KeyTypes, Views
    <2>5. Uploaded' /\ Divided' /\ Asked'
      BY <1>2, <2>1, <2>2, <2>3 DEF IInv, Uploaded, Divided, Asked
    <2> QED BY <2>4, <2>5 DEF IInv
  <1>3. CASE ~Declines(k)
    <2>1. /\ rec' = [rec EXCEPT ![Kind(k)] = k] /\ mac' = [mac EXCEPT ![k] = "asked"]
          /\ call' = [cmd |-> "set", key |-> k, answer |-> None]
          /\ UNCHANGED <<sw_enc, caps, tgt, late>>
      BY <1>3
    <2>2. Kind(k) \in {"pair", "group"} /\ k # None
      BY <1>3, NotSigning, KeysAssumption
    <2>3. \A j \in Keys : mac'[j] = IF j = k THEN "asked" ELSE mac[j]
      BY <1>1, <2>1
    <2>4. \A d \in {"pair", "group"} : rec'[d] = IF d = Kind(k) THEN k ELSE rec[d]
      BY <1>1, <2>1
    <2>5. call' \in Calls /\ call'.cmd = "set" /\ call'.key = k /\ call'.answer = None
      BY <2>1 DEF Calls, Answers
    <2>6. KeyTypes'
      BY <1>1, <2>1, <2>2, <2>5 DEF IInv, KeyTypes, Views
    <2>7. Uploaded'
      BY <2>1, <2>2, <2>3, <2>4, KeysAssumption DEF IInv, Uploaded
    <2>8. Divided'
      BY <1>3, <2>1, <2>2, <2>3, <2>4 DEF IInv, Divided
    <2>9. Asked'
      <3>1. \A j \in InUse' : j \in InUse
        BY <2>3 DEF InUse
      <3>2. Kind(k) = "pair" => \A j \in InUse' : Kind(j) # "pair"
        BY <3>1
      <3>3. ~Declines(k)'
        BY <1>3, <2>1
      <3>4. None # "ok"
        BY KeysAssumption
      <3> QED BY <2>2, <2>3, <2>4, <2>5, <3>2, <3>3, <3>4 DEF Asked
    <2> QED BY <2>6, <2>7, <2>8, <2>9 DEF IInv
  <1> QED BY <1>2, <1>3

LEMMA DisableKeyKeeps ==
    ASSUME IInv, NEW k \in Keys, DisableKey(k)
    PROVE  IInv'
  <1> DEFINE v == IF mac[k] # "hw" \/ Declines(k) THEN "absent" ELSE "tainted"
  <1>1. mac \in [Keys -> Views]
    BY DEF IInv, KeyTypes
  <1>2. call = None /\ mac' = [mac EXCEPT ![k] = v] /\ UNCHANGED <<sw_enc, caps, rec, tgt, late>>
    BY DEF DisableKey, Becomes
  <1>3. \A j \in Keys : mac'[j] = IF j = k THEN v ELSE mac[j]
    BY <1>1, <1>2
  <1>4. call' = None \/ (v = "tainted" /\ call' \in Calls /\ call'.key = k /\ call'.cmd = "disable")
    BY <1>2 DEF DisableKey, Calls, Answers
  <1>5. KeyTypes'
    BY <1>1, <1>2, <1>4 DEF IInv, KeyTypes, Views
  <1>6. Uploaded' /\ Divided'
    BY <1>2, <1>3 DEF IInv, Uploaded, Divided, Declines
  <1>7. Asked'
    BY <1>3, <1>4 DEF Asked
  <1> QED BY <1>5, <1>6, <1>7 DEF IInv

LEMMA TargetKeeps ==
    ASSUME IInv, Target
    PROVE  IInv'
  <1>1. call \in Calls /\ call # None /\ UNCHANGED <<sw_enc, caps, rec, mac, late>>
    BY DEF IInv, KeyTypes, Target
  <1>2. PICK a \in {"ok", "refused", "dead", "none"} :
            /\ call' = [call EXCEPT !.answer = a]
            /\ a = "ok" => call.cmd = "disable" \/ Known(call.key)
            /\ \/ a # "ok" /\ UNCHANGED tgt
               \/ /\ call.cmd = "disable" /\ tgt' = tgt \ {call.key}
               \/ /\ call.cmd = "set" /\ tgt' = Installed(call.key)
    BY <1>1 DEF Target, Calls
  <1>3. call' \in Calls /\ call'.cmd = call.cmd /\ call'.key = call.key /\ call'.answer = a
    BY <1>1, <1>2 DEF Calls, Answers
  <1>4. call.key \in Keys /\ call.cmd \in {"set", "disable"}
    BY <1>1 DEF Calls
  <1>5. \/ UNCHANGED tgt /\ a # "ok"
        \/ call.cmd = "disable" /\ tgt' = tgt \ {call.key}
        \/ call.cmd = "set" /\ tgt' = Installed(call.key)
    BY <1>2
  <1>6. KeyTypes'
    BY <1>1, <1>3, <1>4, <1>5 DEF IInv, KeyTypes, Installed
  <1>7. Uploaded'
    <2> SUFFICES ASSUME NEW k \in Keys, mac[k] = "hw"
                 PROVE  k \in tgt' /\ rec[Kind(k)] # None
      BY <1>1 DEF Uploaded
    <2>1. k \in tgt /\ rec[Kind(k)] # None /\ k # call.key
      BY <1>1 DEF IInv, Uploaded, Asked
    <2>2. CASE call.cmd = "set" /\ tgt' = Installed(call.key)
      <3>1. k \in InUse
        BY DEF InUse
      <3>2. Kind(k) \in {"pair", "group", "mgmt"} /\ Kind(k) # "mgmt"
        BY <2>1, KeysAssumption DEF IInv, Divided, Declines
      <3>3. Kind(call.key) \in {"pair", "group"}
        BY <1>1, <1>4, <2>2, NotSigning DEF IInv, Asked
      <3>4. Kind(k) = "group" \/ Kind(call.key) = "group"
        BY <1>1, <2>2, <3>1, <3>2, <3>3 DEF IInv, Asked
      <3> QED BY <2>1, <2>2, <3>4 DEF Installed
    <2> QED BY <1>5, <2>1, <2>2
  <1>8. Divided'
    BY <1>1, <1>4, <1>5 DEF IInv, Divided, Installed, Declines, Asked
  <1>9. Asked'
    <2>1. call.cmd = "set" /\ a = "ok" => call.key \in tgt'
      BY <1>5 DEF Installed
    <2>2. InUse' = InUse
      BY <1>1 DEF InUse
    <2> QED BY <1>1, <1>3, <2>1, <2>2 DEF IInv, Asked, Declines
  <1> QED BY <1>6, <1>7, <1>8, <1>9 DEF IInv

LEMMA ReturnsKeeps ==
    ASSUME IInv, Returns
    PROVE  IInv'
  <1> DEFINE v == IF call.cmd = "set" THEN Answered(call.answer) ELSE "absent"
  <1>1. /\ call \in Calls /\ call # None /\ call.answer # None /\ call' = None
        /\ mac' = [mac EXCEPT ![call.key] = v] /\ UNCHANGED <<sw_enc, caps, rec, tgt, late>>
    BY DEF IInv, KeyTypes, Returns, Becomes
  <1>2. call.key \in Keys /\ mac \in [Keys -> Views]
    BY <1>1 DEF IInv, KeyTypes, Calls
  <1>3. \A j \in Keys : mac'[j] = IF j = call.key THEN v ELSE mac[j]
    BY <1>1, <1>2
  <1>4. v \in {"hw", "absent", "fallback"} /\ (v = "hw" => call.cmd = "set" /\ call.answer = "ok")
    BY DEF Answered
  <1>5. KeyTypes'
    BY <1>1, <1>2, <1>4 DEF IInv, KeyTypes, Views
  <1>6. Uploaded'
    BY <1>1, <1>3, <1>4 DEF IInv, Uploaded, Asked
  <1>7. Divided'
    BY <1>1, <1>3, <1>4 DEF IInv, Divided, Declines
  <1>8. Asked'
    BY <1>1 DEF Asked
  <1> QED BY <1>5, <1>6, <1>7, <1>8 DEF IInv

LEMMA AddMeshKeeps ==
    ASSUME ~late', IInv, AddMesh
    PROVE  IInv'
  <1>1. /\ sw_enc' = "sw" /\ tgt = {} /\ call = None
        /\ late' \in BOOLEAN /\ UNCHANGED <<caps, rec, call, mac, tgt>>
    BY DEF AddMesh
  <1> QED BY <1>1 DEF IInv, KeyTypes, Encs, Uploaded, Divided, Asked, Declines

LEMMA StepKeeps ==
    ASSUME ~late', IInv, [Next]_vars
    PROVE  IInv'
  <1>1. CASE UNCHANGED keyVars
    BY <1>1 DEF keyVars, IInv, KeyTypes, Uploaded, Divided, Asked, Declines, InUse
  <1>2. CASE KeyStep
    <2>1. CASE \E k \in Keys : SetKey(k)
      BY <2>1, SetKeyKeeps
    <2>2. CASE \E k \in Keys : DisableKey(k)
      BY <2>2, DisableKeyKeeps
    <2>3. CASE Target \/ Returns \/ AddMesh
      BY <2>3, TargetKeeps, ReturnsKeeps, AddMeshKeeps
    <2> QED BY <1>2, <2>1, <2>2, <2>3 DEF KeyStep
  <1>3. CASE RxStep
    BY <1>1, <1>3 DEF RxStep
  <1>4. CASE UNCHANGED vars
    BY <1>1, <1>4 DEF vars
  <1> QED BY <1>2, <1>3, <1>4 DEF Next

\* A mesh interface that was added too late stays so.
LEMMA LateStays ==
    ASSUME [Next]_vars, ~late'
    PROVE  ~late
  <1>1. late' = late \/ AddMesh
    BY DEF Next, KeyStep, RxStep, SetKey, DisableKey, Target, Returns, keyVars, vars
  <1> QED BY <1>1 DEF AddMesh

\* The types need nothing else.
LEMMA TypesKeep ==
    ASSUME KeyTypes, [Next]_vars
    PROVE  KeyTypes'
  <1>1. ASSUME NEW k \in Keys, SetKey(k) PROVE KeyTypes'
    <2>1. call' = call \/ call' = [cmd |-> "set", key |-> k, answer |-> None]
      BY <1>1 DEF SetKey
    <2>2. rec' = rec \/ (Kind(k) \in {"pair", "group"} /\ rec' = [rec EXCEPT ![Kind(k)] = k])
      BY <1>1, NotSigning DEF SetKey
    <2>3. \E v \in Views : mac' = [mac EXCEPT ![k] = v]
      BY <1>1 DEF SetKey, Becomes, Views
    <2>4. call' \in {None} \cup Calls
      BY <2>1 DEF KeyTypes, Calls, Answers
    <2> QED BY <1>1, <2>2, <2>3, <2>4 DEF SetKey, KeyTypes
  <1>2. ASSUME NEW k \in Keys, DisableKey(k) PROVE KeyTypes'
    <2>1. call' = call \/ call' = [cmd |-> "disable", key |-> k, answer |-> None]
      BY <1>2 DEF DisableKey
    <2>2. \E v \in Views : mac' = [mac EXCEPT ![k] = v]
      BY <1>2 DEF DisableKey, Becomes, Views
    <2>3. call' \in {None} \cup Calls
      BY <2>1 DEF KeyTypes, Calls, Answers
    <2> QED BY <1>2, <2>2, <2>3 DEF DisableKey, KeyTypes
  <1>3. ASSUME Target PROVE KeyTypes'
    <2>1. call \in Calls /\ UNCHANGED <<sw_enc, caps, rec, mac, late>>
      BY <1>3 DEF Target, KeyTypes
    <2>2. PICK a \in {"ok", "refused", "dead", "none"} : call' = [call EXCEPT !.answer = a]
      BY <1>3 DEF Target
    <2>3. call' \in Calls
      BY <2>1, <2>2 DEF Calls, Answers
    <2>4. tgt' \subseteq tgt \cup {call.key}
      BY <1>3 DEF Target, Installed
    <2> QED BY <2>1, <2>3, <2>4 DEF KeyTypes, Calls
  <1>4. ASSUME Returns PROVE KeyTypes'
    <2>1. \E k \in Keys, v \in Views : mac' = [mac EXCEPT ![k] = v]
      BY <1>4 DEF Returns, Becomes, Answered, KeyTypes, Calls, Views
    <2> QED BY <1>4, <2>1 DEF Returns, KeyTypes
  <1>5. ASSUME AddMesh PROVE KeyTypes'
    BY <1>5 DEF AddMesh, KeyTypes, Encs
  <1>6. ASSUME UNCHANGED keyVars PROVE KeyTypes'
    BY <1>6 DEF keyVars, KeyTypes
  <1> QED BY <1>1, <1>2, <1>3, <1>4, <1>5, <1>6 DEF Next, KeyStep, RxStep, vars

\* The key variables of the driver, of mac80211 and of the target.
THEOREM SpecKeyTypes == Spec => []KeyTypes
  <1>1. Init => KeyTypes
    BY Initially DEF IInv
  <1> QED BY <1>1, TypesKeep, PTL DEF Spec

\* The invariant decides who has the key.
LEMMA Decided == (~late => IInv) => CryptOnce
  <1> SUFFICES ASSUME ~late, IInv, NEW k \in InUse
               PROVE  /\ HostEncrypts(k) # TargetEncrypts(k)
                      /\ mac[k] # "fallback" => (Flagged(k) <=> TargetDecrypts(k))
    BY DEF CryptOnce
  <1>1. k \in Keys /\ mac[k] \in {"hw", "sw", "fallback"}
    BY DEF InUse
  <1>2. CASE mac[k] = "hw"
    <2>1. k \in tgt /\ ~Declines(k) /\ rec[Kind(k)] # None
      BY <1>1, <1>2 DEF IInv, Uploaded, Divided
    <2>2. Flagged(k)
      BY <2>1 DEF Flagged, Declines
    <2> QED BY <1>2, <2>1, <2>2 DEF HostEncrypts, TargetEncrypts, TargetDecrypts
  <1>3. CASE mac[k] = "sw"
    <2>1. Declines(k) /\ k \notin tgt
      BY <1>1, <1>3 DEF IInv, Divided
    <2>2. ~Flagged(k)
      BY <2>1 DEF Flagged, Declines, IInv, Divided
    <2> QED BY <1>3, <2>1, <2>2 DEF HostEncrypts, TargetEncrypts, TargetDecrypts
  <1>4. CASE mac[k] = "fallback"
    BY <1>4 DEF HostEncrypts, TargetEncrypts
  <1> QED BY <1>1, <1>2, <1>3, <1>4

\* Each protected frame is encrypted once and decrypted once, until a mesh
\* interface is added while the target has keys.
THEOREM SpecCryptOnce == Spec => []CryptOnce
  <1> DEFINE Inv == ~late => IInv
  <1>1. Init => Inv
    BY Initially
  <1>2. Inv /\ [Next]_vars => Inv'
    BY StepKeeps, LateStays
  <1>3. Inv => CryptOnce
    BY Decided
  <1> QED BY <1>1, <1>2, <1>3, PTL DEF Spec

-----------------------------------------------------------------------------
(* Numbers on a circle.                                                      *)

LEMMA Quotient ==
    ASSUME NEW n \in Nat \ {0}, NEW a \in Int
    PROVE  \E q \in Int, r \in 0 .. n - 1 : r = a % n /\ a = n * q + r
  <1>1. a = n * (a \div n) + (a % n) /\ a \div n \in Int /\ a % n \in 0 .. n - 1
    OBVIOUS
  <1> QED BY <1>1

\* The rest of a division by n is the only one.
LEMMA OneRest ==
    ASSUME NEW n \in Nat \ {0}, NEW q \in Int, NEW r \in 0 .. n - 1,
           NEW p \in Int, NEW s \in 0 .. n - 1, n * q + r = n * p + s
    PROVE  r = s
  <1>1. n * (q - p) = s - r
    OBVIOUS
  <1>2. q - p >= 1 => n * (q - p) >= n
    OBVIOUS
  <1>3. q - p <= -1 => n * (q - p) <= -n
    OBVIOUS
  <1>4. q - p = 0 => n * (q - p) = 0
    OBVIOUS
  <1> QED BY <1>1, <1>2, <1>3, <1>4

LEMMA Rest ==
    ASSUME NEW n \in Nat \ {0}, NEW r \in 0 .. n - 1, NEW a \in Int, \E q \in Int : a = n * q + r
    PROVE  a % n = r
  <1>1. \E p \in Int, s \in 0 .. n - 1 : s = a % n /\ a = n * p + s
    BY Quotient, Zenon
  <1> QED BY <1>1, OneRest, Zenon

LEMMA Shifted ==
    ASSUME NEW n \in Nat \ {0}, NEW a \in Int, NEW k \in Int
    PROVE  ((a % n) + k) % n = (a + k) % n
  <1>1. PICK q \in Int, r \in 0 .. n - 1 : r = a % n /\ a = n * q + r
    BY Quotient, Zenon
  <1>2. PICK p \in Int, s \in 0 .. n - 1 : s = (r + k) % n /\ r + k = n * p + s
    <2>1. r + k \in Int
      OBVIOUS
    <2> QED BY <2>1, Quotient, Zenon
  <1>3. a + k = n * (q + p) + s
    <2>1. a = n * q + r /\ r + k = n * p + s
      BY <1>1, <1>2
    <2>2. n * (q + p) = n * q + n * p
      OBVIOUS
    <2> QED BY <2>1, <2>2
  <1>4. (a + k) % n = s
    <2>1. q + p \in Int /\ a + k \in Int
      OBVIOUS
    <2> QED BY <1>3, <2>1, Rest
  <1> QED BY <1>1, <1>2, <1>4, Zenon

LEMMA Apart ==
    ASSUME NEW n \in Nat \ {0}, NEW a \in Int, NEW b \in Int
    PROVE  ((a % n) - (b % n)) % n = (a - b) % n
  <1>1. PICK p \in Int, s \in 0 .. n - 1 : s = b % n /\ b = n * p + s
    BY Quotient, Zenon
  <1>2. PICK r \in 0 .. n - 1 : r = a % n
    BY Quotient, Zenon
  <1>3. (r - s) % n = (a - s) % n
    <2>1. ((a % n) + (-s)) % n = (a + (-s)) % n
      <3>1. -s \in Int
        OBVIOUS
      <3> QED BY <3>1, Shifted, Zenon
    <2>2. r + (-s) = r - s /\ a + (-s) = a - s
      OBVIOUS
    <2> QED BY <1>2, <2>1, <2>2, Zenon
  <1>4. PICK t \in Int, u \in 0 .. n - 1 : u = (a - s) % n /\ a - s = n * t + u
    <2>1. a - s \in Int
      OBVIOUS
    <2> QED BY <2>1, Quotient, Zenon
  <1>5. a - b = n * (t - p) + u
    <2>1. b = n * p + s /\ a - s = n * t + u
      BY <1>1, <1>4
    <2>2. n * (t - p) = n * t - n * p
      OBVIOUS
    <2> QED BY <2>1, <2>2
  <1>6. (a - b) % n = u
    <2>1. t - p \in Int /\ a - b \in Int
      OBVIOUS
    <2> QED BY <1>5, <2>1, Rest
  <1> QED BY <1>1, <1>2, <1>3, <1>4, <1>6, Zenon

LEMMA Circle ==
    /\ \A a \in Int : a % Mod \in Sn
    /\ \A a, k \in Int : ((a % Mod) + k) % Mod = (a + k) % Mod
    /\ \A a, b \in Int : Diff(a % Mod, b % Mod) = (a - b) % Mod
    /\ \A k \in 0 .. Mod - 1 : k % Mod = k
    /\ \A k \in -Mod .. -1 : k % Mod = k + Mod
    /\ Half \in Nat /\ 2 * Half = Mod
  <1>1. Mod \in Nat \ {0}
    BY ReorderAssumption
  <1>2. \A a \in Int : a % Mod \in Sn
    BY <1>1, Quotient DEF Sn
  <1>3. \A a, k \in Int : ((a % Mod) + k) % Mod = (a + k) % Mod
    BY <1>1, Shifted
  <1>4. \A a, b \in Int : Diff(a % Mod, b % Mod) = (a - b) % Mod
    BY <1>1, Apart DEF Diff
  <1>5. ASSUME NEW k \in 0 .. Mod - 1
        PROVE  k % Mod = k
    BY <1>1, Rest, k = Mod * 0 + k
  <1>6. ASSUME NEW k \in -Mod .. -1
        PROVE  k % Mod = k + Mod
    <2>1. k = Mod * (-1) + (k + Mod) /\ k + Mod \in 0 .. Mod - 1 /\ -1 \in Int /\ k \in Int
      BY <1>1
    <2> QED BY <1>1, <2>1, Rest
  <1>7. Half \in Nat /\ 2 * Half = Mod
    BY ReorderAssumption DEF Half
  <1> QED BY <1>2, <1>3, <1>4, <1>5, <1>6, <1>7

\* The distance of two numbers on the circle, from that of two that they stand for.
LEMMA Distance ==
    ASSUME NEW a \in Int, NEW b \in Int
    PROVE  /\ a - b \in 0 .. Mod - 1 => Diff(a % Mod, b % Mod) = a - b
           /\ a - b \in -Mod .. -1 => Diff(a % Mod, b % Mod) = a - b + Mod
  <1>1. Diff(a % Mod, b % Mod) = (a - b) % Mod
    BY Circle, Zenon
  <1>2. /\ a - b \in 0 .. Mod - 1 => (a - b) % Mod = a - b
        /\ a - b \in -Mod .. -1 => (a - b) % Mod = a - b + Mod
    BY Circle, Zenon
  <1> QED BY <1>1, <1>2, Zenon

\* From the distances of a third.
LEMMA Between ==
    ASSUME NEW n \in Sn, NEW a \in Sn, NEW b \in Sn
    PROVE  /\ Diff(n, a) \in Sn
           /\ Diff(n, a) <= Diff(n, b) => Diff(a, b) = Diff(n, b) - Diff(n, a)
           /\ Diff(n, a) > Diff(n, b) => Diff(a, b) = Diff(n, b) - Diff(n, a) + Mod
           /\ Diff(n, a) + 1 < Mod => Diff((n + 1) % Mod, a) = Diff(n, a) + 1
           /\ Diff(n, n) = 0 /\ (Diff(n, a) = 0 => n = a)
  <1> DEFINE x == n - a
             y == n - b
  <1>1. Mod \in Nat \ {0} /\ n \in Int /\ a \in Int /\ b \in Int /\ x \in Int /\ y \in Int
    BY ReorderAssumption DEF Sn
  <1>2. Diff(n, a) = x % Mod /\ Diff(n, b) = y % Mod /\ Diff(n, n) = 0 % Mod
    <2>1. n - n = 0
      BY <1>1
    <2> QED BY <2>1, Zenon DEF Diff
  <1>3. Diff(n, a) \in Sn /\ Diff(n, b) \in Sn
    <2>1. \A k \in Int : k % Mod \in Sn
      BY Circle, Zenon
    <2>2. x % Mod \in Sn /\ y % Mod \in Sn
      BY <1>1, <2>1, Zenon
    <2> QED BY <1>2, <2>2, Zenon
  <1>4. Diff(a, b) = Diff(Diff(n, b), Diff(n, a))
    <2>1. Diff(y % Mod, x % Mod) = (y - x) % Mod
      BY <1>1, Circle, Zenon
    <2>2. y - x = a - b /\ a - b \in Int
      BY <1>1
    <2>3. Diff(a, b) = (a - b) % Mod
      BY DEF Diff
    <2> QED BY <1>2, <2>1, <2>2, <2>3, Zenon
  <1>5. /\ Diff(n, b) % Mod = Diff(n, b) /\ Diff(n, a) % Mod = Diff(n, a) /\ a % Mod = a
        /\ 0 % Mod = 0
    <2>1. Diff(n, b) \in 0 .. Mod - 1 /\ Diff(n, a) \in 0 .. Mod - 1 /\ a \in 0 .. Mod - 1
          /\ 0 \in 0 .. Mod - 1
      BY <1>1, <1>3 DEF Sn
    <2> QED BY <2>1, Circle, Zenon
  <1>6. Diff((n + 1) % Mod, a % Mod) = (x + 1) % Mod /\ (x + 1) % Mod = ((x % Mod) + 1) % Mod
    <2>1. n + 1 \in Int /\ (n + 1) - a = x + 1 /\ 1 \in Int
      BY <1>1
    <2>2. Diff((n + 1) % Mod, a % Mod) = ((n + 1) - a) % Mod
      BY <1>1, <2>1, Circle, Zenon
    <2>3. ((x % Mod) + 1) % Mod = (x + 1) % Mod
      BY <1>1, <2>1, Circle, Zenon
    <2> QED BY <2>1, <2>2, <2>3, Zenon
  <1> HIDE DEF x, y
  <1>7. ASSUME Diff(n, a) = 0 PROVE n = a
    <2>1. CASE n >= a
      <3>1. n - a \in 0 .. Mod - 1
        BY <1>1, <2>1 DEF Sn
      <3>2. (n - a) % Mod = n - a
        BY <3>1, Circle, Zenon
      <3> QED BY <1>1, <1>7, <3>2 DEF Diff
    <2>2. CASE n < a
      <3>1. n - a \in -Mod .. -1 /\ n - a + Mod # 0
        BY <1>1, <2>2 DEF Sn
      <3>2. (n - a) % Mod = n - a + Mod
        BY <3>1, Circle, Zenon
      <3> QED BY <1>7, <3>1, <3>2, Zenon DEF Diff
    <2> QED BY <1>1, <2>1, <2>2
  <1>8. Diff(n, a) + 1 < Mod => Diff((n + 1) % Mod, a) = Diff(n, a) + 1
    <2> SUFFICES ASSUME Diff(n, a) + 1 < Mod PROVE Diff((n + 1) % Mod, a) = Diff(n, a) + 1
      OBVIOUS
    <2>1. Diff(n, a) + 1 \in 0 .. Mod - 1
      BY <1>1, <1>3 DEF Sn
    <2>2. (Diff(n, a) + 1) % Mod = Diff(n, a) + 1
      BY <2>1, Circle, Zenon
    <2> QED BY <1>2, <1>5, <1>6, <2>2, Zenon
  <1>9. /\ Diff(n, a) <= Diff(n, b) => Diff(a, b) = Diff(n, b) - Diff(n, a)
        /\ Diff(n, a) > Diff(n, b) => Diff(a, b) = Diff(n, b) - Diff(n, a) + Mod
    <2> DEFINE d == Diff(n, a)
               e == Diff(n, b)
    <2>1. d \in 0 .. Mod - 1 /\ e \in 0 .. Mod - 1 /\ d % Mod = d /\ e % Mod = e /\ Diff(a, b) = Diff(e, d)
      BY <1>3, <1>4, <1>5 DEF Sn
    <2> HIDE DEF d, e
    <2>2. /\ e - d \in 0 .. Mod - 1 => Diff(e, d) = e - d
          /\ e - d \in -Mod .. -1 => Diff(e, d) = e - d + Mod
      BY <2>1, Distance
    <2>3. /\ d <= e => Diff(e, d) = e - d
          /\ d > e => Diff(e, d) = e - d + Mod
      BY <1>1, <2>1, <2>2
    <2> QED BY <2>1, <2>3 DEF d, e
  <1> QED BY <1>2, <1>3, <1>5, <1>7, <1>8, <1>9

LEMMA Around ==
    ASSUME NEW n \in Sn, NEW k \in Int
    PROVE  (n + k) % Mod \in Sn
  <1>1. n + k \in Int
    BY ReorderAssumption DEF Sn
  <1>2. \A i \in Int : i % Mod \in Sn
    BY Circle, Zenon
  <1> QED BY <1>1, <1>2, Zenon

-----------------------------------------------------------------------------
(* mac80211's buffer is set back only after a silence (Frames!OnlyAfterAway).  *)
(* The peer sends again only what is less than a window behind; the driver's   *)
(* record of the last number is no further behind than a window and the losses *)
(* in a row, and when it is the next number, nothing is left to send again.    *)

Numbers == /\ nxt \in Sn /\ again \subseteq Sn /\ gap \in 0 .. Buf + 1
           /\ sess \in [started : BOOLEAN, sn : Sn]
Behind == /\ \A s \in again : Diff(nxt, s) \in 1 .. Buf
          /\ sess.started /\ gap <= Buf =>
                /\ Diff(nxt, sess.sn) <= Buf + gap
                /\ nxt = sess.sn => again = {}
OInv == Numbers /\ Behind

LEMMA OInitially == RxInit => OInv
  <1> SUFFICES ASSUME RxInit PROVE OInv
    OBVIOUS
  <1>1. 0 \in Sn /\ 0 \in 0 .. Buf + 1
    BY ReorderAssumption DEF Sn
  <1> QED BY <1>1 DEF RxInit, OInv, Numbers, Behind

\* A frame of that number has arrived.
LEMMA Recorded ==
    ASSUME OInv, NEW n \in Sn, sess' = CheckSn(n)
    PROVE  /\ sess' \in [started : BOOLEAN, sn : Sn]
           /\ sess'.started = sess.started /\ (sess.started => sess'.sn = n)
  <1>1. sess \in [started : BOOLEAN, sn : Sn]
    BY DEF OInv, Numbers
  <1> QED BY <1>1 DEF CheckSn

LEMMA FreshOrders ==
    ASSUME OInv, Fresh
    PROVE  OInv'
  <1> USE ReorderAssumption
  <1>1. /\ \A s \in again : Diff(nxt, s) \in 1 .. Buf - 1
        /\ nxt' = (nxt + 1) % Mod /\ gap' = 0 /\ sess' = CheckSn(nxt)
        /\ again' \in {again, again \cup {nxt}} /\ nxt \in Sn /\ again \subseteq Sn
    <2>1. \A s \in again : Diff(nxt, s) < Buf /\ Diff(nxt, s) \in 1 .. Buf
      BY DEF Fresh, Room, OInv, Behind
    <2> QED BY <2>1 DEF Fresh, Next1, Arrive, OInv, Numbers
  <1>2. nxt' \in Sn
    BY <1>1, Around
  <1>3. sess' \in [started : BOOLEAN, sn : Sn] /\ (sess'.started => sess'.sn = nxt)
    BY <1>1, Recorded
  <1>4. \A s \in again' : Diff(nxt', s) \in 1 .. Buf
    <2> SUFFICES ASSUME NEW s \in again' PROVE Diff(nxt', s) \in 1 .. Buf
      OBVIOUS
    <2>1. s \in Sn /\ Diff(nxt, s) \in 0 .. Buf - 1
      BY <1>1, Between
    <2>2. Diff(nxt', s) = Diff(nxt, s) + 1
      BY <1>1, <2>1, Between
    <2> QED BY <2>1, <2>2
  <1>5. Diff(nxt', nxt) = 1 /\ nxt' # nxt
    BY <1>1, <1>2, Between
  <1>6. Behind'
    BY <1>1, <1>3, <1>4, <1>5 DEF Behind
  <1> QED BY <1>1, <1>2, <1>3, <1>6 DEF OInv, Numbers

LEMMA LostOrders ==
    ASSUME OInv, Lost
    PROVE  OInv'
  <1> USE ReorderAssumption
  <1>1. /\ \A s \in again : Diff(nxt, s) \in 1 .. Buf - 1
        /\ nxt' = (nxt + 1) % Mod /\ gap' = gap + 1 /\ gap \in 0 .. Buf - 1
        /\ again' = again \cup {nxt} /\ nxt \in Sn /\ again \subseteq Sn
        /\ UNCHANGED sess /\ sess \in [started : BOOLEAN, sn : Sn]
    <2>1. \A s \in again : Diff(nxt, s) < Buf /\ Diff(nxt, s) \in 1 .. Buf
      BY DEF Lost, Room, OInv, Behind
    <2> QED BY <2>1 DEF Lost, Next1, OInv, Numbers
  <1>2. nxt' \in Sn
    BY <1>1, Around
  <1>3. \A s \in again' : Diff(nxt', s) \in 1 .. Buf
    <2> SUFFICES ASSUME NEW s \in again' PROVE Diff(nxt', s) \in 1 .. Buf
      OBVIOUS
    <2>1. s \in Sn /\ Diff(nxt, s) \in 0 .. Buf - 1
      BY <1>1, Between
    <2>2. Diff(nxt', s) = Diff(nxt, s) + 1
      BY <1>1, <2>1, Between
    <2> QED BY <2>1, <2>2
  <1>4. ASSUME sess.started
        PROVE  Diff(nxt', sess.sn) <= Buf + gap' /\ nxt' # sess.sn
    <2>1. sess.sn \in Sn /\ Diff(nxt, sess.sn) <= Buf + gap /\ Diff(nxt, sess.sn) \in Sn
      BY <1>1, <1>4, Between DEF OInv, Behind
    <2>2. Diff(nxt, sess.sn) + 1 < Mod
      BY <1>1, <2>1 DEF Sn
    <2>3. Diff(nxt', sess.sn) = Diff(nxt, sess.sn) + 1
      BY <1>1, <2>1, <2>2, Between
    <2>4. Diff(nxt', sess.sn) # 0
      BY <2>1, <2>3 DEF Sn
    <2>5. Diff(nxt', nxt') = 0
      BY <1>2, Between
    <2>6. nxt' # sess.sn
      BY <2>4, <2>5, Zenon
    <2> QED BY <1>1, <2>1, <2>3, <2>6 DEF Sn
  <1>5. Behind'
    BY <1>1, <1>3, <1>4 DEF Behind
  <1> QED BY <1>1, <1>2, <1>5 DEF OInv, Numbers

LEMMA RetryOrders ==
    ASSUME OInv, NEW s \in again, Retry(s)
    PROVE  OInv'
  <1> USE ReorderAssumption
  <1>1. /\ gap' = 0 /\ sess' = CheckSn(s) /\ again' \subseteq again /\ UNCHANGED nxt /\ s \in Sn
        /\ nxt \in Sn /\ again \subseteq Sn
    BY DEF Retry, Arrive, OInv, Numbers
  <1>2. sess' \in [started : BOOLEAN, sn : Sn] /\ (sess'.started => sess'.sn = s)
    BY <1>1, Recorded
  <1>3. Diff(nxt, s) \in 1 .. Buf /\ nxt # s
    BY <1>1, Between DEF OInv, Behind
  <1>4. Behind'
    BY <1>1, <1>2, <1>3 DEF OInv, Behind
  <1> QED BY <1>1, <1>2, <1>4 DEF OInv, Numbers

LEMMA OthersOrder ==
    ASSUME OInv, \/ (\E r \in BOOLEAN : RxStart(r)) \/ RxStop \/ Tasklet \/ Timeout
                 \/ (\E s \in again : GiveUp(s)) \/ (\E n \in Sn \ {0} : Away(n)) \/ UNCHANGED rxVars
    PROVE  OInv'
  <1> USE ReorderAssumption
  <1>1. CASE \E r \in BOOLEAN : RxStart(r)
    <2>1. /\ again = {} /\ sess' = [started |-> TRUE, sn |-> nxt] /\ UNCHANGED <<nxt, again, gap>>
      BY <1>1 DEF RxStart
    <2>2. nxt \in Sn /\ Diff(nxt, nxt) = 0 /\ gap \in 0 .. Buf + 1
      BY Between DEF OInv, Numbers
    <2> QED BY <2>1, <2>2 DEF OInv, Numbers, Behind
  <1>2. CASE RxStop
    <2>1. sess' = [sess EXCEPT !.started = FALSE] /\ UNCHANGED <<nxt, again, gap>>
      BY <1>2 DEF RxStop
    <2> QED BY <2>1 DEF OInv, Numbers, Behind
  <1>3. CASE Tasklet \/ Timeout \/ UNCHANGED rxVars
    <2>1. UNCHANGED <<nxt, again, gap, sess>>
      BY <1>3 DEF Tasklet, Timeout, rxVars
    <2> QED BY <2>1 DEF OInv, Numbers, Behind
  <1>4. CASE \E s \in again : GiveUp(s)
    <2>1. again' \subseteq again /\ UNCHANGED <<nxt, gap, sess>>
      BY <1>4 DEF GiveUp
    <2> QED BY <2>1 DEF OInv, Numbers, Behind
  <1>5. CASE \E n \in Sn \ {0} : Away(n)
    <2>1. again' = {} /\ gap' = Buf + 1 /\ UNCHANGED sess /\ \E n \in Sn : nxt' = (nxt + n) % Mod
      BY <1>5 DEF Away
    <2>2. nxt' \in Sn
      <3>1. nxt \in Sn /\ \A n \in Sn : n \in Int
        BY DEF OInv, Numbers, Sn
      <3> QED BY <2>1, <3>1, Around
    <2> QED BY <2>1, <2>2 DEF OInv, Numbers, Behind
  <1> QED BY <1>1, <1>2, <1>3, <1>4, <1>5

\* What a step of the frames is to the receiving side.
LEMMA RxSteps ==
    ASSUME [Next]_vars
    PROVE  \/ (\E r \in BOOLEAN : RxStart(r)) \/ RxStop \/ Tasklet \/ Timeout \/ UNCHANGED rxVars
           \/ Fresh \/ Lost \/ (\E s \in again : Retry(s) \/ GiveUp(s)) \/ \E n \in Sn \ {0} : Away(n)
  BY Zenon DEF Next, KeyStep, RxStep, EndSessions, vars, rxVars

LEMMA StepOrders == OInv /\ [Next]_vars => OInv'
  BY RxSteps, FreshOrders, LostOrders, RetryOrders, OthersOrder

\* Neither losses within the window nor frames sent again, late or twice, are
\* taken for a silence.
LEMMA OrderedIsForward ==
    ASSUME OInv
    PROVE  OnlyAfterAway
  <1> USE ReorderAssumption
  <1> SUFFICES ASSUME gap <= Buf, NEW s \in again \cup {nxt}, Inverted(s)
               PROVE  FALSE
    BY DEF OnlyAfterAway, OInv, Numbers
  <1> DEFINE d == Diff(nxt, sess.sn)
             e == Diff(nxt, s)
             f == Diff(s, sess.sn)
  <1>1. /\ sess.started /\ f > Half /\ f <= Mod - Buf /\ nxt \in Sn /\ s \in Sn /\ sess.sn \in Sn
        /\ gap \in 0 .. Buf + 1
    BY DEF OInv, Numbers, Inverted, Less
  <1>2. d \in Sn /\ e \in 0 .. Buf /\ d <= Buf + gap /\ (nxt = sess.sn => s = nxt)
    BY <1>1, Between DEF OInv, Behind
  <1>3. (e <= d => f = d - e) /\ (e > d => f = d - e + Mod) /\ (d = 0 => nxt = sess.sn)
    BY <1>1, Between
  <1>4. (s = nxt => e = 0) /\ Half \in Nat /\ 2 * Half = Mod
    BY <1>1, Between, Circle
  <1> HIDE DEF d, e, f
  <1> QED BY <1>1, <1>2, <1>3, <1>4 DEF Sn

\* mac80211's buffer is set back (rx_h_check_sn) only after the peer was out of
\* reach, whatever is lost, sent again and reordered within the window, for every
\* window of at most a sixth of the circle.
THEOREM SpecOnlyAfterAway == Spec => []OnlyAfterAway
  <1>1. Init => OInv
    BY OInitially DEF Init
  <1> QED BY <1>1, StepOrders, OrderedIsForward, PTL DEF Spec

-----------------------------------------------------------------------------
(* What mac80211's tasklet releases.                                         *)

LEMMA NatOrdered ==
    \E R : IsWellFoundedOn(R, Nat) /\ \A k, m \in Nat : k < m => <<k, m>> \in R
  <1>1. \A k, m \in Nat : k < m => <<k, m>> \in OpToRel(<, Nat)
    BY DEF OpToRel
  <1> QED BY <1>1, NatLessThanWellFounded, Zenon

LEMMA Minimal ==
    ASSUME NEW R, IsWellFoundedOn(R, Nat), NEW S, S \subseteq Nat, S # {}
    PROVE  \E m \in S : \A k \in S : ~ (<<k, m>> \in R)
  BY WFMin, Zenon

LEMMA Least ==
    ASSUME NEW S, S \subseteq Nat, S # {}
    PROVE  \E m \in S : \A k \in S : m <= k
  <1>1. PICK R : IsWellFoundedOn(R, Nat) /\ \A k, m \in Nat : k < m => <<k, m>> \in R
    BY NatOrdered
  <1>2. \E m \in S : \A k \in S : ~ (<<k, m>> \in R)
    BY <1>1, Minimal
  <1>3. \A k, m \in Nat : ~ (k < m) => m <= k
    OBVIOUS
  <1> QED BY <1>1, <1>2, <1>3, Zenon

\* A number is reached from another by its distance.
LEMMA Reached ==
    ASSUME NEW h \in Int, NEW s \in Sn
    PROVE  /\ Diff(s, h % Mod) \in Sn
           /\ s = (h + Diff(s, h % Mod)) % Mod
           /\ ((h % Mod) + Diff(s, h % Mod)) % Mod = s
  <1>1. Mod \in Nat \ {0} /\ s \in Int /\ \A k \in Sn : k \in Int
    BY ReorderAssumption DEF Sn
  <1>2. /\ \A i \in Int : i % Mod \in Sn
        /\ \A i, k \in Int : ((i % Mod) + k) % Mod = (i + k) % Mod
    BY Circle, Zenon
  <1>3. s % Mod = s
    BY Circle, Zenon DEF Sn
  <1>4. Diff(s, h % Mod) = (s - h) % Mod
    <2>1. Diff(s % Mod, h % Mod) = (s - h) % Mod
      BY <1>1, Circle, Zenon
    <2> QED BY <1>3, <2>1, Zenon
  <1>5. s - h \in Int /\ (s - h) + h = s
    BY <1>1
  <1>6. (((s - h) % Mod) + h) % Mod = s
    BY <1>2, <1>3, <1>5, Zenon
  <1>7. Diff(s, h % Mod) \in Sn
    BY <1>2, <1>4, <1>5, Zenon
  <1>8. Diff(s, h % Mod) + h = h + Diff(s, h % Mod)
    <2>1. \A k \in Sn : k + h = h + k
      BY <1>1
    <2> QED BY <1>7, <2>1, Zenon
  <1>9. s = (h + Diff(s, h % Mod)) % Mod
    BY <1>4, <1>6, <1>8, Zenon
  <1> QED BY <1>1, <1>2, <1>7, <1>9, Zenon

\* The buffer from h on holds numbers before t, and the last of them.
Holds(h, t, st) ==
    /\ h <= t /\ t <= h + Buf
    /\ \A s \in st : Diff(s, h % Mod) < t - h
    /\ t = h \/ (t - 1) % Mod \in st

LEMMA Released ==
    ASSUME NEW h \in Int, NEW t \in Int, NEW st \in SUBSET Sn, Holds(h, t, st)
    PROVE  \E n \in Nat :
              /\ Run(h % Mod, st).head = (h + n) % Mod /\ h + n <= t
              /\ Run(h % Mod, st).stored \in SUBSET Sn
              /\ Holds(h + n, t, Run(h % Mod, st).stored)
              /\ (h + n) % Mod \notin Run(h % Mod, st).stored
  <1> USE ReorderAssumption
  <1> DEFINE g == h % Mod
             P(i) == (g + i) % Mod \notin st /\ \A j \in 0 .. i - 1 : (g + j) % Mod \in st
  <1>1. h <= t /\ t <= h + Buf /\ Buf < Mod /\ Buf \in Nat /\ Mod \in Nat
    BY DEF Holds
  <1>2. \A k \in Int : (g + k) % Mod = (h + k) % Mod
    BY Circle, Zenon
  <1>3. \A i, j \in 0 .. Buf : i >= j => Diff((h + i) % Mod, (h + j) % Mod) = i - j
    <2> SUFFICES ASSUME NEW i \in 0 .. Buf, NEW j \in 0 .. Buf, i >= j
                 PROVE  Diff((h + i) % Mod, (h + j) % Mod) = i - j
      OBVIOUS
    <2>1. h + i \in Int /\ h + j \in Int /\ (h + i) - (h + j) = i - j /\ i - j \in 0 .. Mod - 1
      BY <1>1
    <2> QED BY <2>1, Distance, Zenon
  <1>4. t - h \in 0 .. Buf /\ (g + (t - h)) % Mod \notin st
    <2>1. t - h \in 0 .. Buf /\ 0 \in 0 .. Buf /\ t - h \in Int /\ h + 0 = h /\ (t - h) - 0 = t - h
      BY <1>1
    <2>2. Diff((h + (t - h)) % Mod, g) = t - h
      <3>1. Diff((h + (t - h)) % Mod, (h + 0) % Mod) = (t - h) - 0
        <4>1. t - h >= 0
          BY <1>1
        <4> QED BY <1>3, <2>1, <4>1, Zenon
      <3> QED BY <2>1, <3>1, Zenon
    <2>3. (h + (t - h)) % Mod \notin st
      BY <2>1, <2>2 DEF Holds
    <2> QED BY <1>2, <2>1, <2>3
  <1>5. \E i \in 0 .. Buf : P(i)
    <2> DEFINE S == {i \in 0 .. Buf : (g + i) % Mod \notin st}
    <2>1. S \subseteq Nat /\ S # {}
      <3>1. 0 .. Buf \subseteq Nat
        BY <1>1
      <3> QED BY <1>4, <3>1, Zenon
    <2>2. PICK m \in S : \A k \in S : m <= k
      BY <2>1, Least
    <2>3. \A j \in 0 .. m - 1 : j \in 0 .. Buf /\ ~ (m <= j)
      BY <2>2
    <2>4. P(m)
      BY <2>2, <2>3
    <2> QED BY <2>2, <2>4
  <1> DEFINE n == CHOOSE i \in 0 .. Buf : P(i)
  <1>6. n \in 0 .. Buf /\ P(n)
    BY <1>5, Zenon
  <1>7. Run(g, st) = [head |-> (g + n) % Mod, stored |-> st \ {(g + j) % Mod : j \in 0 .. n - 1}]
    BY Zenon DEF Run
  <1> HIDE DEF n
  <1>8. n <= t - h
    <2>1. ~ (t - h \in 0 .. n - 1)
      BY <1>4, <1>6
    <2> QED BY <1>1, <1>4, <1>6, <2>1
  <1> DEFINE out == Run(g, st).stored
  <1>9. out = st \ {(g + j) % Mod : j \in 0 .. n - 1} /\ Run(g, st).head = (h + n) % Mod
    <2>1. n \in Int
      BY <1>6
    <2>2. (g + n) % Mod = (h + n) % Mod
      BY <1>2, <2>1, Zenon
    <2>3. Run(g, st).stored = st \ {(g + j) % Mod : j \in 0 .. n - 1} /\ Run(g, st).head = (g + n) % Mod
      <3> DEFINE a == (g + n) % Mod
                 b == st \ {(g + j) % Mod : j \in 0 .. n - 1}
      <3>1. Run(g, st) = [head |-> a, stored |-> b]
        BY <1>7
      <3> HIDE DEF a, b
      <3>2. Run(g, st).stored = b /\ Run(g, st).head = a
        BY <3>1
      <3> QED BY <3>2, Zenon DEF a, b
    <2> QED BY <2>2, <2>3, Zenon
  <1> HIDE DEF P, out
  <1>10. ASSUME NEW s \in out
         PROVE  Diff(s, (h + n) % Mod) < t - (h + n)
    <2> DEFINE d == Diff(s, g)
    <2>1. s \in st /\ s \in Sn /\ s \notin {(g + j) % Mod : j \in 0 .. n - 1}
      BY <1>9
    <2>2. d \in Sn /\ s = (h + d) % Mod /\ (g + d) % Mod = s /\ d < t - h
      BY <2>1, Reached, Zenon DEF Holds
    <2>3. ~ (d \in 0 .. n - 1)
      BY <2>1, <2>2
    <2>4. d \in 0 .. Buf /\ d >= n
      BY <1>1, <1>6, <2>2, <2>3 DEF Sn
    <2>5. Diff(s, (h + n) % Mod) = d - n
      BY <1>3, <1>6, <2>2, <2>4
    <2> HIDE DEF d
    <2> QED BY <1>6, <2>2, <2>4, <2>5
  <1>11. t = h + n \/ (t - 1) % Mod \in out
    <2> SUFFICES ASSUME t # h + n PROVE (t - 1) % Mod \in out
      OBVIOUS
    <2>1. t # h /\ n <= t - 1 - h /\ t - 1 - h \in 0 .. Buf
      BY <1>1, <1>6, <1>8
    <2>2. (t - 1) % Mod \in st
      BY <2>1 DEF Holds
    <2>3. ASSUME NEW j \in 0 .. n - 1, (t - 1) % Mod = (g + j) % Mod
          PROVE  FALSE
      <3>1. j \in 0 .. Buf /\ j \in Int /\ t - 1 - h >= j /\ (t - 1 - h) - j # 0 /\ h + (t - 1 - h) = t - 1
        BY <1>1, <1>6, <2>1
      <3>2. Diff((t - 1) % Mod, (h + j) % Mod) = (t - 1 - h) - j
        BY <1>3, <2>1, <3>1, Zenon
      <3>3. Diff((h + j) % Mod, (h + j) % Mod) = j - j /\ j - j = 0
        BY <1>3, <3>1
      <3> QED BY <1>2, <2>3, <3>1, <3>2, <3>3, Zenon
    <2> QED BY <1>9, <2>2, <2>3
  <1>12. Holds(h + n, t, out)
    BY <1>1, <1>6, <1>8, <1>10, <1>11 DEF Holds
  <1>13. (h + n) % Mod \notin out
    <2>1. n \in Int /\ (g + n) % Mod \notin st
      BY <1>6 DEF P
    <2> QED BY <1>2, <1>9, <2>1, Zenon
  <1>14. n \in Nat /\ h + n <= t
    BY <1>6, <1>8
  <1>15. out \in SUBSET Sn
    BY <1>9
  <1> QED BY <1>9, <1>12, <1>13, <1>14, <1>15, Zenon DEF out

\* Less as mac80211 has it (ieee80211_sn_less), of numbers less than half the circle apart.
LEMMA Compared ==
    ASSUME NEW a \in Int, NEW b \in Int, a - b > -Half, a - b <= Half
    PROVE  Less(a % Mod, b % Mod) <=> a < b
  <1>1. Half \in Nat /\ 2 * Half = Mod /\ Mod > 0 /\ Mod \in Nat
    BY Circle, ReorderAssumption
  <1>2. CASE a >= b
    <2>1. a - b \in 0 .. Mod - 1
      BY <1>1, <1>2
    <2>2. Diff(a % Mod, b % Mod) = a - b
      BY <2>1, Distance, Zenon
    <2> QED BY <1>1, <1>2, <2>2 DEF Less
  <1>3. CASE a < b
    <2>1. a - b \in -Mod .. -1
      BY <1>1, <1>3
    <2>2. Diff(a % Mod, b % Mod) = a - b + Mod
      BY <2>1, Distance, Zenon
    <2> QED BY <1>1, <1>3, <2>2 DEF Less
  <1> QED BY <1>2, <1>3

\* The buffer may begin anywhere before its first number.
LEMMA Skipped ==
    ASSUME NEW h \in Int, NEW t \in Int, NEW st \in SUBSET Sn, Holds(h, t, st),
           NEW k \in Nat, \A s \in st : Diff(s, h % Mod) >= k, st # {}
    PROVE  Holds(h + k, t, st)
  <1> USE ReorderAssumption
  <1>1. h <= t /\ t <= h + Buf /\ Buf < Mod /\ Buf \in Nat /\ Mod \in Nat
    BY DEF Holds
  <1>2. ASSUME NEW s \in st
        PROVE  Diff(s, (h + k) % Mod) < t - (h + k) /\ h + k < t /\ t # h
    <2> DEFINE d == Diff(s, h % Mod)
    <2>1. d \in Sn /\ s = (h + d) % Mod /\ d < t - h /\ d >= k
      BY Reached, Zenon DEF Holds
    <2> HIDE DEF d
    <2>2. h + d \in Int /\ h + k \in Int /\ (h + d) - (h + k) = d - k /\ d - k \in 0 .. Mod - 1
      BY <1>1, <2>1 DEF Sn
    <2>3. Diff((h + d) % Mod, (h + k) % Mod) = d - k
      BY <2>2, Distance, Zenon
    <2> QED BY <1>1, <2>1, <2>2, <2>3
  <1> QED BY <1>1, <1>2 DEF Holds

Later(a, b) == IF a >= b THEN a ELSE b

\* A number from h on, and less than half the circle beyond it, is taken.
LEMMA Taken ==
    ASSUME NEW h \in Int, head = h % Mod, NEW t \in Int, stored \in SUBSET Sn, Holds(h, t, stored),
           head \notin stored, NEW u \in Int, u >= h, u - h <= Half
    PROVE  \E k \in Int :
              /\ k >= h /\ k >= u - Buf + 1 /\ k <= Later(t, u + 1)
              /\ Slid(u % Mod) = k % Mod
              /\ Kept(k % Mod) \cup {u % Mod} \in SUBSET Sn
              /\ Holds(k, Later(t, u + 1), Kept(k % Mod) \cup {u % Mod})
  <1> USE ReorderAssumption
  <1> DEFINE k == IF u < h + Buf THEN h ELSE u - Buf + 1
             v == Later(t, u + 1)
  <1>1. /\ h <= t /\ t <= h + Buf /\ 6 * Buf <= Mod /\ Buf \in Nat \ {0} /\ Mod \in Nat
        /\ 2 * Half = Mod /\ Half \in Nat
    BY Circle DEF Holds
  <1>2. /\ k \in Int /\ k >= h /\ k >= u - Buf + 1 /\ k <= u /\ v \in Int /\ v >= t /\ v >= u + 1
        /\ v <= k + Buf /\ k - h <= Half - Buf + 1 /\ v \in {t, u + 1} /\ (v # u + 1 => t > u + 1)
    BY <1>1 DEF Later
  <1>3. Slid(u % Mod) = k % Mod
    <2>1. (head + Buf) % Mod = (h + Buf) % Mod
      <3>1. Buf \in Int
        BY <1>1
      <3> QED BY <3>1, Circle, Zenon
    <2>2. h + Buf \in Int /\ u - (h + Buf) > -Half /\ u - (h + Buf) <= Half
      BY <1>1
    <2>3. Less(u % Mod, (h + Buf) % Mod) <=> u < h + Buf
      BY <2>2, Compared
    <2>4. ((u % Mod) - Buf + 1) % Mod = (u - Buf + 1) % Mod
      <3>1. ((u % Mod) + (1 - Buf)) % Mod = (u + (1 - Buf)) % Mod
        <4>1. 1 - Buf \in Int
          BY <1>1
        <4> QED BY <4>1, Circle, Zenon
      <3>2. \A x \in Int : x - Buf + 1 = x + (1 - Buf)
        BY <1>1
      <3>3. u % Mod \in Int
        <4>1. u % Mod \in Sn
          BY Circle, Zenon
        <4> QED BY <1>1, <4>1 DEF Sn
      <3> QED BY <3>1, <3>2, <3>3, Zenon
    <2> QED BY <2>1, <2>3, <2>4, Zenon DEF Slid
  <1> HIDE DEF k, v
  <1>4. Kept(k % Mod) \cup {u % Mod} \in SUBSET Sn
    <2>1. u % Mod \in Sn
      BY Circle, Zenon
    <2> QED BY <2>1 DEF Kept
  <1>5. ASSUME NEW s \in Kept(k % Mod)
        PROVE  Diff(s, k % Mod) < v - k
    <2> DEFINE d == Diff(s, h % Mod)
    <2>1. s \in stored /\ s \in Sn /\ ~Less(s, k % Mod)
      BY DEF Kept
    <2>2. d \in Sn /\ s = (h + d) % Mod /\ d < t - h
      BY <2>1, Reached, Zenon DEF Holds
    <2>3. d # 0
      <3>1. (h + 0) % Mod = head
        <4>1. h + 0 = h
          OBVIOUS
        <4> QED BY <4>1
      <3> QED BY <2>1, <2>2, <3>1, Zenon
    <2> HIDE DEF d
    <2>4. d \in Nat /\ h + d \in Int /\ (h + d) - k > -Half /\ (h + d) - k <= Half
      BY <1>1, <1>2, <2>2, <2>3 DEF Sn
    <2>5. ~(h + d < k)
      BY <1>2, <2>1, <2>2, <2>4, Compared, Zenon
    <2>6. (h + d) - k \in 0 .. Mod - 1
      BY <1>1, <1>2, <2>4, <2>5
    <2>7. Diff((h + d) % Mod, k % Mod) = (h + d) - k
      BY <1>2, <2>4, <2>6, Distance, Zenon
    <2> QED BY <1>1, <1>2, <2>2, <2>4, <2>7
  <1>6. Diff(u % Mod, k % Mod) < v - k
    <2>1. u - k \in 0 .. Mod - 1
      BY <1>1, <1>2
    <2>2. Diff(u % Mod, k % Mod) = u - k
      BY <1>2, <2>1, Distance, Zenon
    <2> QED BY <1>1, <1>2, <2>2
  <1>7. v = k \/ (v - 1) % Mod \in Kept(k % Mod) \cup {u % Mod}
    <2>1. CASE v = u + 1
      <3>1. v - 1 = u
        BY <1>2, <2>1
      <3> QED BY <3>1, Zenon
    <2>2. CASE v # u + 1
      <3>1. v = t /\ t > u + 1 /\ t # h /\ t - 1 \in Int
        BY <1>2, <2>2
      <3>2. (t - 1) % Mod \in stored
        BY <3>1 DEF Holds
      <3>3. (t - 1) - k > -Half /\ (t - 1) - k <= Half /\ ~(t - 1 < k)
        BY <1>1, <1>2, <3>1
      <3>4. ~Less((t - 1) % Mod, k % Mod)
        BY <1>2, <3>1, <3>3, Compared, Zenon
      <3> QED BY <3>1, <3>2, <3>4, Zenon DEF Kept
    <2> QED BY <2>1, <2>2
  <1>8. Holds(k, v, Kept(k % Mod) \cup {u % Mod})
    BY <1>1, <1>2, <1>5, <1>6, <1>7 DEF Holds
  <1>9. k <= v
    BY <1>1, <1>2
  <1> QED BY <1>2, <1>3, <1>4, <1>8, <1>9, Zenon DEF v

-----------------------------------------------------------------------------
(* New frames dropped in a row (Frames!DropsBounded).  The numbers on the      *)
(* circle stand for integers: n the next number, h the head of the buffer, t   *)
(* the end of what it holds, l the last number that arrived, u those that wait *)
(* for the tasklet.  The peer was back at b when mac80211 expected e: the new  *)
(* frames from b on, and before e, may be dropped, and no others.              *)

Frame == [sn : Sn, new : BOOLEAN]
Received == /\ drops \in Nat /\ irq \in Seq(Frame) /\ stored \in SUBSET Sn /\ head \in Sn
            /\ open \in BOOLEAN

\* The buffer is ahead of the peer: a new frame was dropped, or is going to be.
Stale(h, u) == drops > 0 \/ \E j \in 1 .. Len(u) : irq[j].new /\ u[j] < h

Placed(n, h, l, u) ==
    /\ n % Mod = nxt /\ h % Mod = head /\ l % Mod = sess.sn
    /\ Len(u) = Len(irq) /\ \A j \in 1 .. Len(u) : u[j] % Mod = irq[j].sn
Buffered(h, t) == Holds(h, t, stored) /\ head \notin stored
Front(n, h, t, e, u) == /\ t > e \/ (t = e /\ h = e)
                        /\ t <= n \/ (t = e /\ Stale(h, u))
InRow(n, b, e) == e - b < 2 * Buf /\ (drops = 0 \/ drops <= e - b) /\ drops <= n - b
Latest(n, h, t, l, u) ==
    /\ l <= n /\ n <= l + Buf + gap /\ (t <= l + Buf \/ Stale(h, u))
    /\ irq = <<>> => l < t \/ l <= h
    /\ irq # <<>> => u[Len(u)] = l
ToResend(n, b) == \A s \in again : Diff(nxt, s) <= n - b
ToCome(n, t, b, e, u) ==
    \A j \in 1 .. Len(u) :
        /\ b <= u[j] /\ u[j] < n /\ (t <= u[j] + Buf \/ t = e)
        /\ irq[j].new => drops <= u[j] - b /\ (u[j] < e \/ u[j] >= t)
Lined(u) == \A j \in 1 .. Len(u) : \A i \in 1 .. j - 1 :
                u[i] < u[j] + Buf /\ (irq[j].new => u[i] < u[j])
Near(h, u) == /\ \A j \in 1 .. Len(u) - 1 : u[j + 1] <= u[j] + 2 * Buf
              /\ u # <<>> => u[1] - h <= Half

Synced(n, h, t, l, b, e, u) ==
    /\ Placed(n, h, l, u) /\ Buffered(h, t) /\ Front(n, h, t, e, u) /\ InRow(n, b, e)
    /\ Latest(n, h, t, l, u) /\ ToResend(n, b) /\ ToCome(n, t, b, e, u) /\ Lined(u) /\ Near(h, u)

InSync == \E n, h, t, l, b, e \in Int, u \in Seq(Int) : Synced(n, h, t, l, b, e, u)

\* The peer is out of reach: all is at rest, the buffer close to the last number.
Adrift == /\ irq = <<>> /\ stored = {} /\ drops = 0 /\ again = {}
          /\ open => Diff(head, sess.sn) <= Buf

DInv == /\ Received /\ (open => sess.started) /\ (~open => drops = 0 /\ stored = {})
        /\ gap > Buf => Adrift
        /\ open /\ gap <= Buf => InSync

LEMMA DInitially == RxInit => DInv
  <1> SUFFICES ASSUME RxInit PROVE DInv
    OBVIOUS
  <1>1. 0 \in Sn /\ ~(0 > Buf) /\ <<>> \in Seq(Frame)
    BY ReorderAssumption DEF Sn
  <1> QED BY <1>1 DEF RxInit, DInv, Received

\* v is s with x behind it.
Put(s, x, v, S) ==
    /\ v \in Seq(S) /\ Len(s) \in Nat /\ Len(v) = Len(s) + 1 /\ v # <<>>
    /\ (\A j \in 1 .. Len(s) : v[j] = s[j] /\ s[j] \in S) /\ v[Len(s) + 1] = x

LEMMA Appended ==
    ASSUME NEW S, NEW s \in Seq(S), NEW x \in S
    PROVE  Put(s, x, Append(s, x), S)
  BY DEF Put

LEMMA Empty ==
    ASSUME NEW S, NEW s \in Seq(S)
    PROVE  s = <<>> <=> Len(s) = 0
  OBVIOUS

\* v is s without its first.
Left(s, v, S) ==
    /\ v \in Seq(S) /\ Len(s) \in Nat \ {0} /\ Len(v) = Len(s) - 1 /\ (v = <<>> <=> Len(s) = 1)
    /\ (\A j \in 1 .. Len(v) : v[j] = s[j + 1] /\ j + 1 \in 1 .. Len(s))
    /\ (\A j \in 1 .. Len(s) : s[j] \in S) /\ Head(s) = s[1]

LEMMA Shortened ==
    ASSUME NEW S, NEW s \in Seq(S), s # <<>>
    PROVE  Left(s, Tail(s), S)
  <1>1. Len(s) \in Nat \ {0} /\ (\A j \in 1 .. Len(s) : s[j] \in S) /\ Head(s) = s[1]
    OBVIOUS
  <1>2. /\ Tail(s) \in Seq(S) /\ Len(Tail(s)) = Len(s) - 1
        /\ \A j \in 1 .. Len(Tail(s)) : Tail(s)[j] = s[j + 1] /\ j + 1 \in 1 .. Len(s)
    BY <1>1
  <1>3. Tail(s) = <<>> <=> Len(s) = 1
    <2>1. Tail(s) = <<>> <=> Len(Tail(s)) = 0
      BY <1>2, Empty
    <2>2. Len(s) - 1 = 0 <=> Len(s) = 1
      BY <1>1
    <2> QED BY <1>2, <2>1, <2>2, Zenon
  <1> QED BY <1>1, <1>2, <1>3, Zenon DEF Left

\* A frame arrives: the next number, or one less than a window behind it, in sequence.
LEMMA ArrivesInSync ==
    ASSUME NEW n \in Int, NEW h \in Int, NEW t \in Int, NEW l \in Int, NEW b \in Int, NEW e \in Int,
           NEW u \in Seq(Int), Synced(n, h, t, l, b, e, u), Received, OInv, gap <= Buf,
           NEW x \in Int, NEW new \in BOOLEAN, NEW k \in Int, NEW v, v = Append(u, x),
           irq' = Append(irq, [sn |-> x % Mod, new |-> new]), sess'.sn = x % Mod, gap' = 0,
           UNCHANGED <<head, stored, drops>>, nxt' = k % Mod,
           IF new THEN x = n /\ k = n + 1 ELSE b <= x /\ x < n /\ n <= x + Buf /\ k = n,
           ToResend(k, b)'
    PROVE  v \in Seq(Int) /\ Synced(k, h, t, x, b, e, v)'
  <1> USE ReorderAssumption
  <1> DEFINE f == [sn |-> x % Mod, new |-> new]
             m == Len(u)
  <1>1. f \in Frame /\ f.sn = x % Mod /\ f.new = new
    <2>1. x % Mod \in Sn
      BY Circle, Zenon
    <2> QED BY <2>1 DEF Frame
  <1>2. Len(u) = Len(irq) /\ irq \in Seq(Frame)
    BY DEF Synced, Placed, Received
  <1> HIDE DEF f
  <1>3. /\ v \in Seq(Int) /\ irq' \in Seq(Frame) /\ m \in Nat
        /\ Len(v) = m + 1 /\ Len(irq') = m + 1 /\ irq' # <<>> /\ v # <<>>
        /\ \A j \in 1 .. m : v[j] = u[j] /\ u[j] \in Int /\ irq'[j] = irq[j]
        /\ v[m + 1] = x /\ irq'[m + 1] = f
    <2>1. irq' = Append(irq, f)
      BY DEF f
    <2> HIDE DEF m
    <2>2. Put(u, x, v, Int) /\ Put(irq, f, irq', Frame)
      BY <1>1, <1>2, <2>1, Appended, Zenon
    <2> QED BY <1>2, <2>2, Zenon DEF m, Put
  <1> HIDE DEF m
  <1>4. Buf \in Nat \ {0} /\ 6 * Buf <= Mod /\ 2 * Half = Mod /\ gap \in 0 .. Buf /\ drops \in Nat
    BY Circle DEF OInv, Numbers, Received
  <1>5. n \in Int /\ k \in Int /\ k >= n /\ k <= x + Buf /\ x < k /\ b <= x /\ (new => x = n) /\ x <= n
        /\ n <= x + Buf
    BY <1>4 DEF Synced, InRow
  <1>6. Stale(h, u) => Stale(h, v)'
    BY <1>3, SMTT(30) DEF Stale, m
  <1>7. (new /\ x < h) => Stale(h, v)'
    <2> SUFFICES ASSUME new, x < h PROVE Stale(h, v)'
      OBVIOUS
    <2>1. m + 1 \in 1 .. Len(v) /\ irq'[m + 1].new /\ v[m + 1] < h
      BY <1>1, <1>3
    <2> QED BY <2>1 DEF Stale
  <1>8. Placed(k, h, x, v)'
    <2>1. ASSUME NEW j \in 1 .. Len(v) PROVE v[j] % Mod = irq'[j].sn
      <3>1. CASE j \in 1 .. m
        BY <1>3, <3>1, Zenon DEF Synced, Placed, m
      <3>2. CASE j = m + 1
        BY <1>1, <1>3, <3>2, Zenon
      <3> QED BY <1>3, <3>1, <3>2
    <2> QED BY <1>3, <2>1 DEF Synced, Placed
  <1>9. Buffered(h, t)'
    BY DEF Synced, Buffered, Holds
  <1>10. Front(k, h, t, e, v)'
    BY <1>5, <1>6 DEF Synced, Front
  <1>11. InRow(k, b, e)'
    BY <1>4, <1>5 DEF Synced, InRow
  <1>12. Latest(k, h, t, x, v)'
    <2>1. t <= x + Buf \/ Stale(h, v)'
      BY <1>4, <1>5, <1>6 DEF Synced, Front
    <2> QED BY <1>3, <1>4, <1>5, <2>1, SMTT(30) DEF Latest
  <1>13. ToCome(k, t, b, e, v)'
    <2> SUFFICES ASSUME NEW j \in 1 .. Len(v)
                 PROVE  /\ b <= v[j] /\ v[j] < k /\ (t <= v[j] + Buf \/ t = e)
                        /\ irq'[j].new => drops <= v[j] - b /\ (v[j] < e \/ v[j] >= t)
      BY DEF ToCome
    <2>1. CASE j \in 1 .. m
      <3>1. /\ b <= u[j] /\ u[j] < n /\ (t <= u[j] + Buf \/ t = e)
            /\ irq[j].new => drops <= u[j] - b /\ (u[j] < e \/ u[j] >= t)
        BY <2>1 DEF Synced, ToCome, m
      <3> QED BY <1>3, <1>5, <2>1, <3>1, SMTT(30)
    <2>2. CASE j = m + 1
      <3>1. v[j] = x /\ irq'[j].new = new
        BY <1>1, <1>3, <2>2
      <3>2. t <= n \/ (t = e /\ t > n)
        BY DEF Synced, Front
      <3>3. drops <= n - b
        BY DEF Synced, InRow
      <3>4. /\ b <= x /\ x < k /\ (t <= x + Buf \/ t = e)
            /\ new => drops <= x - b /\ (x < e \/ x >= t)
        BY <1>4, <1>5, <3>2, <3>3
      <3> QED BY <3>1, <3>4, Zenon
    <2> QED BY <1>3, <2>1, <2>2
  <1>14. Lined(v)'
    <2> SUFFICES ASSUME NEW j \in 1 .. Len(v), NEW i \in 1 .. j - 1
                 PROVE  v[i] < v[j] + Buf /\ (irq'[j].new => v[i] < v[j])
      BY DEF Lined
    <2>1. CASE j \in 1 .. m
      <3>1. u[i] < u[j] + Buf /\ (irq[j].new => u[i] < u[j]) /\ i \in 1 .. m
        BY <1>3, <2>1, SMTT(30) DEF Synced, Lined, m
      <3> QED BY <1>3, <2>1, <3>1
    <2>2. CASE j = m + 1
      <3>1. v[j] = x /\ irq'[j].new = new /\ i \in 1 .. m
        <4>1. f.new = new /\ irq'[m + 1] = f /\ v[m + 1] = x
          BY <1>1, <1>3
        <4>2. i \in 1 .. m
          BY <1>3, <2>2
        <4> QED BY <2>2, <4>1, <4>2, Zenon
      <3>2. v[i] = u[i] /\ u[i] < n /\ u[i] \in Int
        BY <1>3, <3>1 DEF Synced, ToCome, m
      <3>3. u[i] < x + Buf /\ (new => u[i] < x)
        <4>1. Buf \in Int /\ n <= x + Buf /\ (new => x = n)
          BY <1>4, <1>5
        <4> QED BY <3>2, <4>1, SMTT(30)
      <3> QED BY <3>1, <3>2, <3>3, Zenon
    <2>3. j \in 1 .. m \/ j = m + 1
      BY <1>3
    <2> QED BY <2>1, <2>2, <2>3, Zenon
  <1>15. Near(h, v)'
    <2>1. n <= l + 2 * Buf
      BY <1>4 DEF Synced, Latest
    <2>2. ASSUME NEW j \in 1 .. Len(v) - 1 PROVE v[j + 1] <= v[j] + 2 * Buf
      <3>1. CASE j \in 1 .. m - 1
        <4>1. u[j + 1] <= u[j] + 2 * Buf /\ j + 1 \in 1 .. m /\ j \in 1 .. m
          BY <1>3, <3>1 DEF Synced, Near, m
        <4> QED BY <1>3, <4>1
      <3>2. CASE j = m
        <4>1. irq # <<>> /\ m \in 1 .. m
          BY <1>2, <1>3, <3>2 DEF m
        <4>2. u[m] = l
          BY <4>1 DEF Synced, Latest, m
        <4>3. v[j] = l /\ v[j + 1] = x
          BY <1>3, <3>2, <4>1, <4>2, Zenon
        <4>4. x <= l + 2 * Buf
          BY <1>4, <1>5, <2>1
        <4> QED BY <4>3, <4>4, Zenon
      <3> QED BY <1>3, <3>1, <3>2, SMTT(30)
    <2>3. v[1] - h <= Half
      <3>1. CASE m = 0
        <4>1. irq = <<>>
          BY <1>2, <3>1, Empty DEF m
        <4>2. (l < t \/ l <= h) /\ t <= h + Buf
          BY <4>1 DEF Synced, Latest, Buffered, Holds
        <4>3. v[1] = x
          <5>1. 0 + 1 = 1
            OBVIOUS
          <5> QED BY <1>3, <3>1, <5>1, Zenon
        <4>4. x - h <= Half
          <5>1. 3 * Buf <= Half /\ Buf \in Int /\ Half \in Int /\ x <= n
            BY <1>4, <1>5, Circle
          <5> QED BY <2>1, <4>2, <5>1
        <4> QED BY <4>3, <4>4, Zenon
      <3>2. CASE m # 0
        <4>1. u # <<>> /\ 1 \in 1 .. m
          BY <1>3, <3>2 DEF m
        <4>2. u[1] - h <= Half
          BY <4>1 DEF Synced, Near
        <4> QED BY <1>3, <4>1, <4>2
      <3> QED BY <3>1, <3>2
    <2> QED BY <2>2, <2>3 DEF Near
  <1> QED BY <1>3, <1>8, <1>9, <1>10, <1>11, <1>12, <1>13, <1>14, <1>15 DEF Synced

\* The number as far behind another as it is.
LEMMA Back ==
    ASSUME NEW n \in Int, NEW s \in Sn
    PROVE  s = (n - Diff(n % Mod, s)) % Mod
  <1> DEFINE d == Diff(n % Mod, s)
  <1>1. s \in Int /\ s % Mod = s /\ n % Mod \in Sn /\ \A k \in Sn : k \in Int
    <2>1. n % Mod \in Sn
      BY Circle, Zenon
    <2>2. \A k \in Sn : k \in Int
      BY ReorderAssumption DEF Sn
    <2>3. s % Mod = s
      BY Circle, Zenon DEF Sn
    <2> QED BY <2>1, <2>2, <2>3, Zenon
  <1>2. d \in Sn /\ n % Mod = (s + d) % Mod
    <2>1. Diff(n % Mod, s % Mod) \in Sn /\ n % Mod = (s + Diff(n % Mod, s % Mod)) % Mod
      BY <1>1, Reached, Zenon
    <2> QED BY <1>1, <2>1, Zenon
  <1> HIDE DEF d
  <1>3. d \in Int /\ -d \in Int /\ s + d \in Int /\ (s + d) + (-d) = s /\ n + (-d) = n - d
    <2>1. d \in Int
      BY <1>1, <1>2
    <2> QED BY <1>1, <2>1
  <1>4. ((n % Mod) + (-d)) % Mod = (n + (-d)) % Mod
    BY <1>3, Circle, Zenon
  <1>5. (((s + d) % Mod) + (-d)) % Mod = ((s + d) + (-d)) % Mod
    BY <1>3, Circle, Zenon
  <1> QED BY <1>1, <1>2, <1>3, <1>4, <1>5, Zenon DEF d

\* What arrives.
LEMMA Arrived ==
    ASSUME Received, OInv, NEW s \in Sn, NEW w \in BOOLEAN, Arrive(s, w)
    PROVE  /\ Received' /\ irq' = Append(irq, [sn |-> s, new |-> w]) /\ UNCHANGED <<open, drops>>
           /\ sess'.started = sess.started /\ (sess.started => sess'.sn = s)
           /\ Inverted(s) /\ open => head' = s /\ stored' = {}
           /\ ~Inverted(s) \/ ~open => UNCHANGED <<head, stored>>
  <1>1. /\ irq' = Append(irq, [sn |-> s, new |-> w]) /\ UNCHANGED <<open, drops>> /\ sess' = CheckSn(s)
        /\ Inverted(s) /\ open => head' = s /\ stored' = {}
        /\ ~Inverted(s) \/ ~open => UNCHANGED <<head, stored>>
    BY DEF Arrive
  <1>2. sess'.started = sess.started /\ (sess.started => sess'.sn = s)
    BY <1>1, Recorded
  <1>3. [sn |-> s, new |-> w] \in Frame
    BY DEF Frame
  <1>4. irq' \in Seq(Frame)
    BY <1>1, <1>3 DEF Received
  <1> QED BY <1>1, <1>2, <1>4 DEF Received

LEMMA FreshInSync ==
    ASSUME DInv, OInv, open, gap <= Buf, Fresh
    PROVE  InSync'
  <1> USE ReorderAssumption
  <1>1. PICK n \in Int, h \in Int, t \in Int, l \in Int, b \in Int, e \in Int, u \in Seq(Int) :
            Synced(n, h, t, l, b, e, u)
    BY DEF DInv, InSync
  <1>2. /\ Received /\ sess.started /\ nxt = n % Mod /\ nxt \in Sn /\ gap' = 0 /\ nxt' = (nxt + 1) % Mod
        /\ Arrive(nxt, TRUE) /\ again \subseteq Sn /\ again' \subseteq again \cup {nxt}
        /\ \A s \in again : Diff(nxt, s) < Buf /\ Diff(nxt, s) <= n - b
    BY <1>1 DEF DInv, OInv, Numbers, Fresh, Next1, Room, Synced, Placed, ToResend
  <1>3. ~Inverted(nxt)
    BY OrderedIsForward DEF OnlyAfterAway, OInv, Numbers
  <1>4. /\ irq' = Append(irq, [sn |-> n % Mod, new |-> TRUE]) /\ UNCHANGED <<open, drops, head, stored>>
        /\ sess'.sn = n % Mod
    BY <1>2, <1>3, Arrived, Zenon
  <1>5. nxt' = (n + 1) % Mod
    <2>1. 1 \in Int
      OBVIOUS
    <2> QED BY <1>2, <2>1, Circle, Zenon
  <1>6. n - b >= 0
    BY <1>1, <1>2 DEF Synced, InRow, Received
  <1>7. ToResend(n + 1, b)'
    <2> SUFFICES ASSUME NEW s \in again' PROVE Diff(nxt', s) <= n + 1 - b
      BY DEF ToResend
    <2>1. s \in Sn /\ (s = nxt \/ (Diff(nxt, s) < Buf /\ Diff(nxt, s) <= n - b))
      BY <1>2
    <2>2. /\ Diff(nxt, s) \in Sn /\ Diff(nxt, nxt) = 0
          /\ Diff(nxt, s) + 1 < Mod => Diff((nxt + 1) % Mod, s) = Diff(nxt, s) + 1
      BY <1>2, <2>1, Between, Zenon
    <2>3. Diff(nxt, s) \in Nat /\ Diff(nxt, s) + 1 < Mod /\ Diff(nxt, s) <= n - b
      BY <1>6, <2>1, <2>2 DEF Sn
    <2>4. Diff(nxt', s) = Diff(nxt, s) + 1
      BY <1>2, <2>2, <2>3, Zenon
    <2> QED BY <2>3, <2>4
  <1>8. Append(u, n) \in Seq(Int) /\ Synced(n + 1, h, t, n, b, e, Append(u, n))'
    <2>1. n + 1 \in Int /\ TRUE \in BOOLEAN
      OBVIOUS
    <2> QED BY <1>1, <1>2, <1>4, <1>5, <1>7, <2>1, ArrivesInSync, Zenon
  <1>9. n + 1 \in Int
    OBVIOUS
  <1> QED BY <1>8, <1>9, Zenon DEF InSync

LEMMA RetryInSync ==
    ASSUME DInv, OInv, open, gap <= Buf, NEW s \in again, Retry(s)
    PROVE  InSync'
  <1> USE ReorderAssumption
  <1>1. PICK n \in Int, h \in Int, t \in Int, l \in Int, b \in Int, e \in Int, u \in Seq(Int) :
            Synced(n, h, t, l, b, e, u)
    BY DEF DInv, InSync
  <1>2. /\ Received /\ sess.started /\ nxt = n % Mod /\ s \in Sn /\ gap' = 0 /\ UNCHANGED nxt
        /\ Arrive(s, FALSE) /\ again' \subseteq again
        /\ \A r \in again : Diff(nxt, r) \in 1 .. Buf /\ Diff(nxt, r) <= n - b
    BY <1>1 DEF DInv, OInv, Numbers, Behind, Retry, Synced, Placed, ToResend
  <1>3. ~Inverted(s)
    BY OrderedIsForward DEF OnlyAfterAway, OInv, Numbers
  <1>4. PICK x \in Int : b <= x /\ x < n /\ n <= x + Buf /\ s = x % Mod
    <2>1. Diff(nxt, s) \in 1 .. Buf /\ Diff(nxt, s) <= n - b
      BY <1>2
    <2>2. s = (n - Diff(nxt, s)) % Mod
      BY <1>2, Back, Zenon
    <2>3. \A d \in 1 .. Buf : d <= n - b =>
              n - d \in Int /\ b <= n - d /\ n - d < n /\ n <= n - d + Buf
      OBVIOUS
    <2> QED BY <2>1, <2>2, <2>3, Zenon
  <1>6. /\ irq' = Append(irq, [sn |-> s, new |-> FALSE]) /\ UNCHANGED <<open, drops, head, stored>>
        /\ sess'.sn = s
    BY <1>2, <1>3, Arrived, Zenon
  <1>7. ToResend(n, b)'
    BY <1>2 DEF ToResend
  <1>8. Append(u, x) \in Seq(Int) /\ Synced(n, h, t, x, b, e, Append(u, x))'
    BY <1>1, <1>2, <1>4, <1>6, <1>7, ArrivesInSync, Zenon
  <1> QED BY <1>4, <1>8, Zenon DEF InSync

\* A frame is lost, or given up.
LEMMA LostInSync ==
    ASSUME DInv, OInv, open, gap <= Buf, Lost
    PROVE  InSync'
  <1> USE ReorderAssumption
  <1>1. PICK n \in Int, h \in Int, t \in Int, l \in Int, b \in Int, e \in Int, u \in Seq(Int) :
            Synced(n, h, t, l, b, e, u)
    BY DEF DInv, InSync
  <1>2. /\ Received /\ nxt = n % Mod /\ nxt \in Sn /\ gap' = gap + 1 /\ nxt' = (nxt + 1) % Mod
        /\ again \subseteq Sn /\ again' \subseteq again \cup {nxt} /\ gap \in Nat
        /\ UNCHANGED <<sess, open, head, stored, irq, drops>>
        /\ \A s \in again : Diff(nxt, s) < Buf /\ Diff(nxt, s) <= n - b
    <2>1. Received /\ nxt \in Sn /\ again \subseteq Sn /\ gap \in Nat
      BY DEF DInv, OInv, Numbers
    <2>2. nxt = n % Mod /\ \A s \in again : Diff(nxt, s) <= n - b
      BY <1>1 DEF Synced, Placed, ToResend
    <2>3. /\ gap' = gap + 1 /\ nxt' = (nxt + 1) % Mod /\ again' = again \cup {nxt}
          /\ UNCHANGED <<sess, open, head, stored, irq, drops>>
          /\ \A s \in again : Diff(nxt, s) < Buf
      BY DEF Lost, Next1, Room
    <2> QED BY <2>1, <2>2, <2>3
  <1>3. nxt' = (n + 1) % Mod
    <2>1. 1 \in Int
      OBVIOUS
    <2> QED BY <1>2, <2>1, Circle, Zenon
  <1>4. n - b >= 0 /\ drops \in Nat
    BY <1>1, <1>2 DEF Synced, InRow, Received
  <1>5. ToResend(n + 1, b)'
    <2> SUFFICES ASSUME NEW s \in again' PROVE Diff(nxt', s) <= n + 1 - b
      BY DEF ToResend
    <2>1. s \in Sn /\ (s = nxt \/ (Diff(nxt, s) < Buf /\ Diff(nxt, s) <= n - b))
      BY <1>2
    <2>2. /\ Diff(nxt, s) \in Sn /\ Diff(nxt, nxt) = 0
          /\ Diff(nxt, s) + 1 < Mod => Diff((nxt + 1) % Mod, s) = Diff(nxt, s) + 1
      BY <1>2, <2>1, Between, Zenon
    <2>3. Diff(nxt, s) \in Nat /\ Diff(nxt, s) + 1 < Mod /\ Diff(nxt, s) <= n - b
      BY <1>4, <2>1, <2>2 DEF Sn
    <2>4. Diff(nxt', s) = Diff(nxt, s) + 1
      BY <1>2, <2>2, <2>3, Zenon
    <2> QED BY <2>3, <2>4
  <1>6. Placed(n + 1, h, l, u)'
    BY <1>1, <1>2, <1>3, Zenon DEF Synced, Placed
  <1>7. Buffered(h, t)' /\ Lined(u)' /\ Near(h, u)' /\ (Stale(h, u) <=> Stale(h, u)')
    BY <1>1, <1>2 DEF Synced, Buffered, Holds, Lined, Near, Stale
  <1>8. Front(n + 1, h, t, e, u)' /\ InRow(n + 1, b, e)' /\ Latest(n + 1, h, t, l, u)'
    BY <1>1, <1>2, <1>4, <1>7 DEF Synced, Front, InRow, Latest
  <1>9. ToCome(n + 1, t, b, e, u)'
    <2>1. \A j \in 1 .. Len(u) : u[j] \in Int
      OBVIOUS
    <2> QED BY <1>1, <1>2, <2>1 DEF Synced, ToCome
  <1>10. Synced(n + 1, h, t, l, b, e, u)'
    BY <1>5, <1>6, <1>7, <1>8, <1>9 DEF Synced
  <1>11. n + 1 \in Int
    OBVIOUS
  <1> QED BY <1>10, <1>11, Zenon DEF InSync

LEMMA GiveUpInSync ==
    ASSUME DInv, open, gap <= Buf, NEW s \in again, GiveUp(s)
    PROVE  InSync'
  <1>1. PICK n \in Int, h \in Int, t \in Int, l \in Int, b \in Int, e \in Int, u \in Seq(Int) :
            Synced(n, h, t, l, b, e, u)
    BY DEF DInv, InSync
  <1>2. /\ UNCHANGED <<nxt, gap, sess, open, head, stored, irq, drops>> /\ again' \subseteq again
    BY DEF GiveUp
  <1>3. Synced(n, h, t, l, b, e, u)'
    BY <1>1, <1>2 DEF Synced, Placed, Buffered, Holds, Front, InRow, Latest, ToResend, ToCome, Lined,
                      Near, Stale
  <1> QED BY <1>3, Zenon DEF InSync

\* After a hole, what waits behind it is released.
LEMMA TimeoutInSync ==
    ASSUME DInv, open, gap <= Buf, Timeout
    PROVE  InSync' /\ stored' \in SUBSET Sn /\ head' \in Sn
  <1> USE ReorderAssumption
  <1>1. PICK n \in Int, h \in Int, t \in Int, l \in Int, b \in Int, e \in Int, u \in Seq(Int) :
            Synced(n, h, t, l, b, e, u)
    BY DEF DInv, InSync
  <1>2. /\ Received /\ head = h % Mod /\ stored # {} /\ stored \in SUBSET Sn /\ Holds(h, t, stored)
        /\ head' = Run(First, stored).head /\ stored' = Run(First, stored).stored
        /\ UNCHANGED <<nxt, again, gap, sess, open, irq, drops>>
    BY <1>1 DEF DInv, Received, Synced, Placed, Buffered, Timeout, Take
  <1>3. \A s \in stored : Diff(s, head) \in Nat
    <2>1. Sn \subseteq Nat
      BY DEF Sn
    <2> QED BY <1>2, <2>1, Reached
  <1>4. \E s \in stored : \A r \in stored : Diff(s, head) <= Diff(r, head)
    <2> DEFINE D == {Diff(s, head) : s \in stored}
    <2>1. D \subseteq Nat /\ D # {}
      BY <1>2, <1>3
    <2>2. PICK d \in D : \A k \in D : d <= k
      BY <2>1, Least
    <2> QED BY <2>2
  <1>5. First \in stored /\ \A r \in stored : Diff(First, head) <= Diff(r, head)
    BY <1>4, Zenon DEF First
  <1>6. PICK k \in Nat : First = (h + k) % Mod /\ k = Diff(First, head) /\ k < t - h
    <2>1. First \in Sn /\ Diff(First, head) \in Nat /\ Diff(First, head) < t - h
      BY <1>2, <1>3, <1>5 DEF Holds
    <2>2. First = (h + Diff(First, h % Mod)) % Mod
      BY <2>1, Reached, Zenon
    <2> QED BY <1>2, <2>1, <2>2, Zenon
  <1>7. Holds(h + k, t, stored)
    <2>1. \A s \in stored : Diff(s, h % Mod) >= k
      BY <1>2, <1>3, <1>5, <1>6
    <2> QED BY <1>2, <2>1, Skipped
  <1>8. PICK j \in Nat : /\ head' = ((h + k) + j) % Mod /\ (h + k) + j <= t /\ stored' \in SUBSET Sn
                         /\ Holds((h + k) + j, t, stored') /\ head' \notin stored'
    <2>1. h + k \in Int
      OBVIOUS
    <2>2. \E j \in Nat :
              /\ Run((h + k) % Mod, stored).head = ((h + k) + j) % Mod /\ (h + k) + j <= t
              /\ Run((h + k) % Mod, stored).stored \in SUBSET Sn
              /\ Holds((h + k) + j, t, Run((h + k) % Mod, stored).stored)
              /\ ((h + k) + j) % Mod \notin Run((h + k) % Mod, stored).stored
      BY <1>2, <1>7, <2>1, Released, Zenon
    <2> QED BY <1>2, <1>6, <2>2, Zenon
  <1> DEFINE g == (h + k) + j
  <1>9. g \in Int /\ h <= g /\ g <= t /\ h < t
    <2>1. k < t - h /\ (h + k) + j <= t
      BY <1>6, <1>8
    <2> QED BY <2>1
  <1>10. head' = g % Mod /\ Holds(g, t, stored') /\ head' \notin stored'
    BY <1>8
  <1> HIDE DEF g
  <1>11. t > e /\ t <= n
    BY <1>1, <1>9 DEF Synced, Front
  <1>12. Stale(h, u) => Stale(g, u)'
    <2>1. \A i \in 1 .. Len(u) : u[i] \in Int
      OBVIOUS
    <2> QED BY <1>2, <1>9, <2>1 DEF Stale
  <1>13. Placed(n, g, l, u)'
    BY <1>1, <1>2, <1>10, Zenon DEF Synced, Placed
  <1>14. Buffered(g, t)'
    BY <1>10 DEF Buffered, Holds
  <1>15. Front(n, g, t, e, u)' /\ InRow(n, b, e)'
    BY <1>1, <1>2, <1>11 DEF Synced, Front, InRow
  <1>16. Latest(n, g, t, l, u)'
    BY <1>1, <1>2, <1>9, <1>12 DEF Synced, Latest
  <1>17. ToResend(n, b)' /\ ToCome(n, t, b, e, u)' /\ Lined(u)'
    BY <1>1, <1>2 DEF Synced, ToResend, ToCome, Lined
  <1>18. Near(g, u)'
    <2>1. u # <<>> => u[1] \in Int
      OBVIOUS
    <2>2. Half \in Int
      BY Circle
    <2> QED BY <1>1, <1>2, <1>9, <2>1, <2>2 DEF Synced, Near
  <1>19. Synced(n, g, t, l, b, e, u)'
    BY <1>13, <1>14, <1>15, <1>16, <1>17, <1>18 DEF Synced
  <1>20. head' \in Sn
    BY <1>9, <1>10, Circle, Zenon
  <1> QED BY <1>8, <1>9, <1>19, <1>20, Zenon DEF InSync

\* The first that waits is close to the buffer: mac80211 compares the two rightly.
LEMMA Waiting ==
    ASSUME NEW n \in Int, NEW h \in Int, NEW t \in Int, NEW l \in Int, NEW b \in Int, NEW e \in Int,
           NEW u \in Seq(Int), Synced(n, h, t, l, b, e, u), Received, irq # <<>>
    PROVE  /\ Left(u, Tail(u), Int) /\ Left(irq, Tail(irq), Frame)
           /\ Head(irq) \in Frame /\ Head(irq) = irq[1] /\ Head(irq).sn = u[1] % Mod /\ u[1] \in Int
           /\ b <= u[1] /\ u[1] < n /\ u[1] - h <= Half
           /\ Less(Head(irq).sn, head) <=> u[1] < h
  <1> USE ReorderAssumption
  <1>1. Len(u) = Len(irq) /\ irq \in Seq(Frame) /\ u # <<>>
    <2>1. Len(u) = Len(irq) /\ irq \in Seq(Frame)
      BY DEF Synced, Placed, Received
    <2> QED BY <2>1, Empty
  <1>2. Left(u, Tail(u), Int) /\ Left(irq, Tail(irq), Frame)
    BY <1>1, Shortened, Zenon
  <1>3. 1 \in 1 .. Len(u)
    BY <1>2 DEF Left
  <1>4. Head(irq) \in Frame /\ Head(irq) = irq[1] /\ Head(irq).sn = u[1] % Mod /\ u[1] \in Int
    BY <1>1, <1>2, <1>3, Zenon DEF Left, Synced, Placed
  <1>5. b <= u[1] /\ u[1] < n /\ (t <= u[1] + Buf \/ t = e) /\ u[1] - h <= Half
    BY <1>1, <1>3 DEF Synced, ToCome, Near
  <1>6. u[1] - h > -Half
    <2>1. 3 * Buf <= Half /\ Half \in Int /\ Buf \in Nat \ {0}
      BY Circle
    <2>2. h <= t /\ (t = e => h = e) /\ e - b < 2 * Buf
      BY DEF Synced, Buffered, Holds, Front, InRow
    <2> QED BY <1>4, <1>5, <2>1, <2>2, SMTT(30)
  <1>7. Less(u[1] % Mod, h % Mod) <=> u[1] < h
    BY <1>4, <1>5, <1>6, Compared
  <1>8. head = h % Mod
    BY DEF Synced, Placed
  <1> QED BY <1>2, <1>4, <1>5, <1>7, <1>8, Zenon

\* v is those of u that wait behind the first.
Follow(u, v, l) ==
    /\ v \in Seq(Int) /\ irq' \in Seq(Frame) /\ Len(u) \in Nat \ {0} /\ Len(v) = Len(u) - 1
    /\ Len(irq') = Len(u) - 1 /\ (irq' = <<>> <=> Len(u) = 1)
    /\ \A j \in 1 .. Len(u) - 1 : /\ v[j] = u[j + 1] /\ irq'[j] = irq[j + 1]
                                 /\ j + 1 \in 1 .. Len(u) /\ u[j + 1] \in Int
                                 /\ v[j] % Mod = irq'[j].sn
    /\ Lined(v)' /\ (irq' # <<>> => v[Len(v)] = l)
    /\ \A j \in 1 .. Len(v) - 1 : v[j + 1] <= v[j] + 2 * Buf
    /\ v # <<>> => v[1] <= u[1] + 2 * Buf /\ v[1] \in Int

LEMMA Following ==
    ASSUME NEW n \in Int, NEW h \in Int, NEW t \in Int, NEW l \in Int, NEW b \in Int, NEW e \in Int,
           NEW u \in Seq(Int), Synced(n, h, t, l, b, e, u), Received, irq # <<>>,
           irq' = Tail(irq), NEW v, v = Tail(u)
    PROVE  Follow(u, v, l)
  <1> USE ReorderAssumption
  <1> DEFINE m == Len(u)
  <1>1. /\ v \in Seq(Int) /\ irq' \in Seq(Frame) /\ m \in Nat \ {0} /\ Len(v) = m - 1
        /\ Len(irq') = m - 1 /\ Len(irq) = m /\ (v = <<>> <=> m = 1) /\ (irq' = <<>> <=> m = 1)
        /\ \A j \in 1 .. m - 1 : v[j] = u[j + 1] /\ irq'[j] = irq[j + 1] /\ j + 1 \in 1 .. m
        /\ \A j \in 1 .. m : u[j] \in Int
    <2>1. Left(u, v, Int) /\ Left(irq, irq', Frame) /\ Len(irq) = Len(u)
      BY Waiting, Zenon DEF Synced, Placed
    <2> QED BY <2>1, Zenon DEF Left
  <1> HIDE DEF m
  <1>2. \A j \in 1 .. m - 1 : v[j] % Mod = irq'[j].sn
    BY <1>1, Zenon DEF Synced, Placed, m
  <1>3. Lined(v)'
    <2> SUFFICES ASSUME NEW j \in 1 .. m - 1, NEW i \in 1 .. j - 1
                 PROVE  v[i] < v[j] + Buf /\ (irq'[j].new => v[i] < v[j])
      BY <1>1 DEF Lined
    <2>1. i \in 1 .. m - 1 /\ j + 1 \in 1 .. m /\ i + 1 \in 1 .. (j + 1) - 1
      BY <1>1
    <2>2. v[j] = u[j + 1] /\ irq'[j] = irq[j + 1] /\ v[i] = u[i + 1]
      BY <1>1, <2>1
    <2> QED BY <2>1, <2>2 DEF Synced, Lined, m
  <1>4. irq' # <<>> => v[Len(v)] = l
    <2> SUFFICES ASSUME irq' # <<>> PROVE v[Len(v)] = l
      OBVIOUS
    <2>1. m - 1 \in 1 .. m - 1 /\ (m - 1) + 1 = m
      BY <1>1
    <2>2. v[m - 1] = u[m]
      BY <1>1, <2>1, Zenon
    <2>3. u[m] = l
      BY DEF Synced, Latest, m
    <2> QED BY <1>1, <2>2, <2>3, Zenon
  <1>5. \A j \in 1 .. Len(v) - 1 : v[j + 1] <= v[j] + 2 * Buf
    <2> SUFFICES ASSUME NEW j \in 1 .. m - 2 PROVE v[j + 1] <= v[j] + 2 * Buf
      BY <1>1
    <2>1. j \in 1 .. m - 1 /\ j + 1 \in 1 .. m - 1
      BY <1>1
    <2>2. v[j] = u[j + 1] /\ v[j + 1] = u[(j + 1) + 1]
      BY <1>1, <2>1
    <2> QED BY <2>1, <2>2 DEF Synced, Near, m
  <1>6. v # <<>> => v[1] <= u[1] + 2 * Buf /\ v[1] \in Int
    <2> SUFFICES ASSUME v # <<>> PROVE v[1] <= u[1] + 2 * Buf /\ v[1] \in Int
      OBVIOUS
    <2>1. 1 \in 1 .. m - 1
      BY <1>1
    <2> QED BY <1>1, <2>1 DEF Synced, Near, m
  <1>7. \A j \in 1 .. m - 1 : /\ v[j] = u[j + 1] /\ irq'[j] = irq[j + 1]
                              /\ j + 1 \in 1 .. m /\ u[j + 1] \in Int /\ v[j] % Mod = irq'[j].sn
    BY <1>1, <1>2, Zenon
  <1> QED BY <1>1, <1>3, <1>4, <1>5, <1>6, <1>7, Zenon DEF m, Follow

\* It is out of date, and dropped.
LEMMA DroppedInSync ==
    ASSUME NEW n \in Int, NEW h \in Int, NEW t \in Int, NEW l \in Int, NEW b \in Int, NEW e \in Int,
           NEW u \in Seq(Int), Synced(n, h, t, l, b, e, u), Received, OInv, irq # <<>>, u[1] < h,
           irq' = Tail(irq), drops' = IF irq[1].new THEN drops + 1 ELSE drops,
           UNCHANGED <<nxt, again, gap, sess, head, stored>>
    PROVE  Synced(n, h, t, l, b, e, Tail(u))'
  <1> USE ReorderAssumption
  <1> DEFINE v == Tail(u)
             m == Len(u)
             a == u[1]
  <1>0. Follow(u, v, l)
    BY Following, Zenon
  <1> HIDE DEF v
  <1>1. /\ v \in Seq(Int) /\ m \in Nat \ {0} /\ Len(v) = m - 1 /\ Len(irq') = m - 1
        /\ (irq' = <<>> <=> m = 1) /\ Lined(v)' /\ (irq' # <<>> => v[Len(v)] = l)
        /\ \A j \in 1 .. m - 1 : /\ v[j] = u[j + 1] /\ irq'[j] = irq[j + 1]
                                /\ j + 1 \in 1 .. m /\ u[j + 1] \in Int
        /\ \A j \in 1 .. Len(v) - 1 : v[j + 1] <= v[j] + 2 * Buf
        /\ v # <<>> => v[1] <= a + 2 * Buf /\ v[1] \in Int
    BY <1>0, Zenon DEF Follow
  <1>2. a \in Int /\ b <= a /\ a < n /\ a < h /\ 1 \in 1 .. m
    <2>1. a \in Int /\ b <= a /\ a < n /\ a < h
      BY Waiting, Zenon
    <2> QED BY <1>1, <2>1
  <1> HIDE DEF m, a
  <1>3. Buf \in Nat \ {0} /\ drops \in Nat /\ irq[1].new \in BOOLEAN
    <2>1. irq[1] \in Frame
      BY Waiting, Zenon
    <2> QED BY <2>1 DEF Received, Frame
  <1>4. /\ irq[1].new => drops' = drops + 1 /\ drops <= a - b /\ a < e
        /\ ~irq[1].new => drops' = drops
    <2>1. irq[1].new => drops <= a - b /\ (a < e \/ a >= t)
      BY <1>2 DEF Synced, ToCome, a, m
    <2>2. a < t
      <3>1. h <= t
        BY DEF Synced, Buffered, Holds
      <3> QED BY <1>2, <3>1
    <2>3. irq[1].new => a < e
      BY <1>2, <2>1, <2>2
    <2> QED BY <2>1, <2>3
  <1>5. Stale(h, u) => Stale(h, v)'
    <2> SUFFICES ASSUME drops = 0, NEW j \in 1 .. m, irq[j].new, u[j] < h PROVE Stale(h, v)'
      <3>1. drops > 0 => Stale(h, v)'
        BY <1>3, <1>4 DEF Stale
      <3>2. drops > 0 \/ drops = 0
        BY <1>3
      <3> QED BY <3>1, <3>2, Zenon DEF Stale, m
    <2>1. CASE j = 1
      BY <1>3, <1>4, <2>1 DEF Stale
    <2>2. CASE j # 1
      <3>1. j - 1 \in 1 .. m - 1 /\ (j - 1) + 1 = j
        BY <1>1, <2>2
      <3>2. irq'[j - 1] = irq[j] /\ v[j - 1] = u[j]
        BY <1>1, <3>1
      <3> QED BY <1>1, <3>1, <3>2 DEF Stale
    <2> QED BY <2>1, <2>2
  <1>6. Placed(n, h, l, v)'
    BY <1>0, <1>1, Zenon DEF Follow, Synced, Placed, m
  <1>7. Buffered(h, t)' /\ ToResend(n, b)'
    BY DEF Synced, Buffered, Holds, ToResend
  <1>8. Front(n, h, t, e, v)'
    BY <1>5 DEF Synced, Front
  <1>9. InRow(n, b, e)'
    BY <1>2, <1>3, <1>4 DEF Synced, InRow
  <1>10. Latest(n, h, t, l, v)'
    <2>1. irq' = <<>> => l <= h
      <3>1. u[m] = l
        BY DEF Synced, Latest, m
      <3>2. m = 1 => l = a
        BY <3>1, Zenon DEF a
      <3> QED BY <1>1, <1>2, <3>2
    <2> QED BY <1>1, <1>5, <2>1 DEF Synced, Latest
  <1>11. ToCome(n, t, b, e, v)'
    <2> SUFFICES ASSUME NEW j \in 1 .. m - 1
                 PROVE  /\ b <= v[j] /\ v[j] < n /\ (t <= v[j] + Buf \/ t = e)
                        /\ irq'[j].new => drops' <= v[j] - b /\ (v[j] < e \/ v[j] >= t)
      BY <1>1 DEF ToCome
    <2>1. v[j] = u[j + 1] /\ irq'[j] = irq[j + 1] /\ j + 1 \in 1 .. m /\ u[j + 1] \in Int
      BY <1>1
    <2>2. /\ b <= u[j + 1] /\ u[j + 1] < n /\ (t <= u[j + 1] + Buf \/ t = e)
          /\ irq[j + 1].new => drops <= u[j + 1] - b /\ (u[j + 1] < e \/ u[j + 1] >= t)
      BY <2>1 DEF Synced, ToCome, m
    <2>3. irq[j + 1].new => a < u[j + 1]
      <3>1. 1 \in 1 .. (j + 1) - 1
        BY <1>1
      <3> QED BY <2>1, <3>1 DEF Synced, Lined, m, a
    <2>4. irq[j + 1].new => drops' <= u[j + 1] - b
      <3>1. CASE irq[1].new
        BY <1>2, <1>3, <1>4, <2>1, <2>3, <3>1, SMTT(30)
      <3>2. CASE ~irq[1].new
        BY <1>4, <2>2, <3>2
      <3> QED BY <3>1, <3>2
    <2> QED BY <2>1, <2>2, <2>4, Zenon
  <1>12. Near(h, v)'
    <2>1. 3 * Buf <= Half /\ Half \in Int
      BY Circle
    <2>2. v # <<>> => v[1] - h <= Half
      BY <1>1, <1>2, <1>3, <2>1
    <2> QED BY <1>1, <2>2 DEF Near
  <1>13. Synced(n, h, t, l, b, e, v)'
    BY <1>1, <1>6, <1>7, <1>8, <1>9, <1>10, <1>11, <1>12 DEF Synced
  <1> QED BY <1>13 DEF v

\* It is taken, and what is in sequence released: the buffer ends where it did, or behind it.
LEMMA TakenInSync ==
    ASSUME NEW n \in Int, NEW h \in Int, NEW t \in Int, NEW l \in Int, NEW b \in Int, NEW e \in Int,
           NEW u \in Seq(Int), Synced(n, h, t, l, b, e, u), Received, OInv, irq # <<>>, u[1] >= h,
           irq' = Tail(irq), drops' = IF irq[1].new THEN 0 ELSE drops,
           UNCHANGED <<nxt, again, gap, sess>>,
           NEW g \in Int, g >= h, g >= u[1] - Buf + 1, head' = g % Mod, head' \notin stored',
           Holds(g, Later(t, u[1] + 1), stored')
    PROVE  Synced(n, g, Later(t, u[1] + 1), l, b, e, Tail(u))'
  <1> USE ReorderAssumption
  <1> DEFINE v == Tail(u)
             m == Len(u)
             a == u[1]
             w == Later(t, a + 1)
  <1>0. Follow(u, v, l)
    BY Following, Zenon
  <1> HIDE DEF v
  <1>1. /\ v \in Seq(Int) /\ m \in Nat \ {0} /\ Len(v) = m - 1 /\ Len(irq') = m - 1
        /\ (irq' = <<>> <=> m = 1) /\ Lined(v)' /\ (irq' # <<>> => v[Len(v)] = l)
        /\ \A j \in 1 .. m - 1 : /\ v[j] = u[j + 1] /\ irq'[j] = irq[j + 1]
                                /\ j + 1 \in 1 .. m /\ u[j + 1] \in Int
        /\ \A j \in 1 .. Len(v) - 1 : v[j + 1] <= v[j] + 2 * Buf
        /\ v # <<>> => v[1] <= a + 2 * Buf /\ v[1] \in Int
    BY <1>0, Zenon DEF Follow
  <1>2. a \in Int /\ b <= a /\ a < n /\ 1 \in 1 .. m /\ m \in 1 .. m
    <2>1. a \in Int /\ b <= a /\ a < n
      BY Waiting, Zenon
    <2> QED BY <1>1, <2>1
  <1>3. Buf \in Nat \ {0} /\ drops \in Nat /\ drops' \in {0, drops}
    BY DEF Received
  <1>4. t > e \/ (t = e /\ t <= a)
    BY DEF Synced, Front
  <1>5. w \in Int /\ w >= t /\ w >= a + 1 /\ w \in {t, a + 1}
    BY <1>2, SMTT(30) DEF Later
  <1>6. g \in Int /\ g >= h /\ g >= a - Buf + 1 /\ head' = g % Mod /\ head' \notin stored' /\ Holds(g, w, stored')
    OBVIOUS
  <1> HIDE DEF m, a, w
  <1>7. w > e /\ w <= n
    <2>1. t <= n \/ t = e
      BY DEF Synced, Front
    <2> QED BY <1>2, <1>4, <1>5, <2>1, SMTT(30)
  <1>8. \A j \in 2 .. m : a < u[j] + Buf /\ (irq[j].new => a < u[j])
    <2>1. \A j \in 2 .. m : j \in 1 .. m /\ 1 \in 1 .. j - 1
      BY <1>1
    <2> QED BY <2>1 DEF Synced, Lined, m, a
  <1>9. \A j \in 1 .. m : w <= u[j] + Buf
    <2> SUFFICES ASSUME NEW j \in 1 .. m PROVE w <= u[j] + Buf
      OBVIOUS
    <2>1. u[j] \in Int /\ (t <= u[j] + Buf \/ t = e)
      <3>1. u[j] \in Int
        BY DEF m
      <3>2. t <= u[j] + Buf \/ t = e
        BY DEF Synced, ToCome, m
      <3> QED BY <3>1, <3>2
    <2>2. a < u[j] + Buf
      <3>1. CASE j = 1
        BY <1>2, <1>3, <3>1 DEF a
      <3>2. CASE j # 1
        <4>1. j \in 2 .. m
          BY <1>1, <3>2
        <4> QED BY <1>8, <4>1
      <3> QED BY <3>1, <3>2
    <2>3. t <= u[j] + Buf
      BY <1>2, <1>3, <1>4, <2>1, <2>2, SMTT(30)
    <2>4. a + 1 <= u[j] + Buf
      BY <1>2, <1>3, <2>1, <2>2, SMTT(30)
    <2> QED BY <1>5, <2>3, <2>4
  <1>10. u[m] = l
    BY DEF Synced, Latest, m
  <1>11. Placed(n, g, l, v)'
    BY <1>0, <1>1, <1>6, Zenon DEF Follow, Synced, Placed, m
  <1>12. Buffered(g, w)' /\ ToResend(n, b)'
    BY <1>6 DEF Synced, Buffered, Holds, ToResend
  <1>13. Front(n, g, w, e, v)'
    BY <1>7 DEF Front
  <1>14. InRow(n, b, e)'
    BY <1>2, <1>3 DEF Synced, InRow
  <1>15. Latest(n, g, w, l, v)'
    <2>1. w <= l + Buf
      BY <1>2, <1>9, <1>10
    <2>2. m = 1 => l = a
      BY <1>10, Zenon DEF a
    <2>3. irq' = <<>> => l < w
      BY <1>1, <1>2, <1>5, <2>2
    <2> QED BY <1>1, <2>1, <2>3 DEF Synced, Latest
  <1>16. ToCome(n, w, b, e, v)'
    <2> SUFFICES ASSUME NEW j \in 1 .. m - 1
                 PROVE  /\ b <= v[j] /\ v[j] < n /\ (w <= v[j] + Buf \/ w = e)
                        /\ irq'[j].new => drops' <= v[j] - b /\ (v[j] < e \/ v[j] >= w)
      BY <1>1 DEF ToCome
    <2>1. v[j] = u[j + 1] /\ irq'[j] = irq[j + 1] /\ j + 1 \in 1 .. m /\ u[j + 1] \in Int
      BY <1>1
    <2>2. j + 1 \in 2 .. m
      BY <1>1
    <2> DEFINE x == u[j + 1]
               new == irq[j + 1].new
    <2>3. b <= x /\ x < n /\ (new => drops <= x - b /\ (x < e \/ x >= t))
      BY <2>1 DEF Synced, ToCome, m
    <2>4. w <= x + Buf /\ (new => a < x)
      BY <1>8, <1>9, <2>1, <2>2
    <2>5. x \in Int
      BY <2>1
    <2> HIDE DEF x, new
    <2>6. new => drops' <= x - b
      BY <1>3, <2>3, <2>5
    <2>7. new => x < e \/ x >= w
      BY <1>2, <1>5, <2>3, <2>4, <2>5
    <2> QED BY <2>1, <2>3, <2>4, <2>6, <2>7, Zenon DEF x, new
  <1>17. Near(g, v)'
    <2>1. 3 * Buf <= Half /\ Half \in Int
      BY Circle
    <2>2. v # <<>> => v[1] - g <= Half
      BY <1>1, <1>2, <1>3, <1>6, <2>1, SMTT(30)
    <2> QED BY <1>1, <2>2 DEF Near
  <1>18. Synced(n, g, w, l, b, e, v)'
    BY <1>1, <1>11, <1>12, <1>13, <1>14, <1>15, <1>16, <1>17 DEF Synced
  <1> QED BY <1>18 DEF v, w, a

LEMMA TaskletInSync ==
    ASSUME DInv, OInv, open, gap <= Buf, Tasklet
    PROVE  InSync' /\ Received'
  <1> USE ReorderAssumption
  <1>1. PICK n \in Int, h \in Int, t \in Int, l \in Int, b \in Int, e \in Int, u \in Seq(Int) :
            Synced(n, h, t, l, b, e, u)
    BY DEF DInv, InSync
  <1>2. /\ Received /\ irq # <<>> /\ irq' = Tail(irq) /\ UNCHANGED <<nxt, again, gap, sess, open>>
        /\ head = h % Mod /\ Holds(h, t, stored) /\ head \notin stored /\ stored \in SUBSET Sn
    BY <1>1 DEF DInv, Tasklet, Received, Synced, Placed, Buffered
  <1>3. /\ Left(u, Tail(u), Int) /\ Left(irq, Tail(irq), Frame)
        /\ Head(irq) \in Frame /\ Head(irq) = irq[1] /\ Head(irq).sn = u[1] % Mod /\ u[1] \in Int
        /\ b <= u[1] /\ u[1] < n /\ u[1] - h <= Half
        /\ Less(Head(irq).sn, head) <=> u[1] < h
    BY <1>1, <1>2, Waiting, Zenon
  <1>4. Tail(u) \in Seq(Int) /\ irq' \in Seq(Frame)
    BY <1>2, <1>3, Zenon DEF Left
  <1>5. drops \in Nat /\ head \in Sn
    BY <1>2 DEF Received
  <1>6. CASE u[1] < h
    <2>1. UNCHANGED <<head, stored>> /\ drops' = IF irq[1].new THEN drops + 1 ELSE drops
      BY <1>3, <1>6, Zenon DEF Tasklet
    <2>2. Synced(n, h, t, l, b, e, Tail(u))'
      BY <1>1, <1>2, <1>6, <2>1, DroppedInSync, Zenon
    <2>3. InSync'
      BY <1>4, <2>2, Zenon DEF InSync
    <2> QED BY <1>2, <1>4, <1>5, <2>1, <2>3 DEF Received
  <1>7. CASE u[1] >= h
    <2>1. /\ drops' = IF irq[1].new THEN 0 ELSE drops
          /\ Take(Run(Slid(Head(irq).sn), Kept(Slid(Head(irq).sn)) \cup {Head(irq).sn}))
      <3>1. ~(u[1] < h)
        BY <1>3, <1>7
      <3> QED BY <1>3, <3>1, Zenon DEF Tasklet
    <2> DEFINE w == Later(t, u[1] + 1)
    <2>2. PICK k \in Int :
              /\ k >= h /\ k >= u[1] - Buf + 1 /\ k <= w
              /\ Slid(u[1] % Mod) = k % Mod
              /\ Kept(k % Mod) \cup {u[1] % Mod} \in SUBSET Sn
              /\ Holds(k, w, Kept(k % Mod) \cup {u[1] % Mod})
      BY <1>2, <1>3, <1>7, Taken, Zenon
    <2>3. w \in Int
      BY <1>3 DEF Later
    <2> HIDE DEF w
    <2> DEFINE st == Kept(k % Mod) \cup {u[1] % Mod}
    <2>4. st \in SUBSET Sn /\ Holds(k, w, st) /\ head' = Run(k % Mod, st).head
          /\ stored' = Run(k % Mod, st).stored
      BY <1>3, <2>1, <2>2, Zenon DEF Take
    <2> HIDE DEF st
    <2>5. PICK j \in Nat : /\ Run(k % Mod, st).head = (k + j) % Mod /\ k + j <= w
                           /\ Run(k % Mod, st).stored \in SUBSET Sn
                           /\ Holds(k + j, w, Run(k % Mod, st).stored)
                           /\ (k + j) % Mod \notin Run(k % Mod, st).stored
      BY <2>3, <2>4, Released, Zenon
    <2> DEFINE g == k + j
    <2>6. g \in Int /\ g >= h /\ g >= u[1] - Buf + 1
      <3>1. k >= h /\ k >= u[1] - Buf + 1
        BY <2>2
      <3> QED BY <1>3, <3>1
    <2>7. head' = g % Mod /\ head' \notin stored' /\ Holds(g, w, stored') /\ stored' \in SUBSET Sn
      BY <2>4, <2>5, Zenon
    <2> HIDE DEF g
    <2>8. Synced(n, g, w, l, b, e, Tail(u))'
      BY <1>1, <1>2, <1>7, <2>1, <2>6, <2>7, TakenInSync, Zenon DEF w
    <2>9. InSync'
      BY <1>4, <2>3, <2>6, <2>8, Zenon DEF InSync
    <2>10. head' \in Sn /\ drops' \in Nat
      <3>1. head' \in Sn
        BY <2>6, <2>7, Circle, Zenon
      <3> QED BY <1>5, <2>1, <3>1
    <2> QED BY <1>2, <1>4, <2>7, <2>9, <2>10 DEF Received
  <1> QED BY <1>3, <1>6, <1>7

\* The first frame after a silence, or after the session began: the buffer begins
\* at h, at most two windows ahead of the peer and half the circle behind it.
LEMMA Resumed ==
    ASSUME NEW n \in Int, NEW h \in Int, h - n < 2 * Buf, n - h <= Half,
           n % Mod = nxt, head' = h % Mod, stored' = {}, drops' = 0, gap' = 0,
           sess'.sn = nxt, irq' = <<[sn |-> nxt, new |-> TRUE]>>,
           nxt' = (nxt + 1) % Mod, again' \subseteq {nxt}, nxt \in Sn
    PROVE  InSync'
  <1> USE ReorderAssumption
  <1> DEFINE f == [sn |-> nxt, new |-> TRUE]
             u == <<n>>
  <1>1. /\ irq'[1] = f /\ Len(irq') = 1 /\ irq' # <<>> /\ f.sn = nxt /\ f.new
        /\ Len(u) = 1 /\ u[1] = n /\ u \in Seq(Int) /\ u # <<>>
    BY DEF f
  <1> HIDE DEF u, f
  <1>2. nxt' = (n + 1) % Mod
    <2>1. 1 \in Int
      OBVIOUS
    <2>2. ((n % Mod) + 1) % Mod = (n + 1) % Mod
      BY <2>1, Circle, Zenon
    <2> QED BY <2>2
  <1>3. Buf \in Nat \ {0} /\ \A j \in 1 .. Len(u) : j = 1
    BY <1>1
  <1>4. Placed(n + 1, h, n, u)'
    BY <1>1, <1>2, <1>3, Zenon DEF Placed
  <1>5. Buffered(h, h)'
    BY DEF Buffered, Holds
  <1>6. n < h => Stale(h, u)'
    <2> SUFFICES ASSUME n < h PROVE \E j \in 1 .. 1 : irq'[j].new /\ u[j] < h
      BY <1>1, Zenon DEF Stale
    <2>1. irq'[1].new /\ u[1] < h
      BY <1>1, Zenon
    <2> QED BY <2>1
  <1>7. Front(n + 1, h, h, h, u)'
    BY <1>6 DEF Front
  <1>8. InRow(n + 1, n, h)'
    BY DEF InRow
  <1>9. Latest(n + 1, h, h, n, u)'
    <2>1. h <= n + Buf \/ Stale(h, u)'
      BY <1>3, <1>6
    <2>2. n <= n + 1 /\ n + 1 <= n + Buf + gap'
      BY <1>3
    <2>3. irq' # <<>> /\ u[Len(u)] = n
      BY <1>1, Zenon
    <2> QED BY <2>1, <2>2, <2>3, Zenon DEF Latest
  <1>10. ToResend(n + 1, n)'
    <2>1. Diff(nxt', nxt) = 1
      <3>1. Diff(nxt, nxt) = 0 /\ (Diff(nxt, nxt) + 1 < Mod => Diff((nxt + 1) % Mod, nxt) = Diff(nxt, nxt) + 1)
        BY Between, Zenon
      <3>2. Mod > 1 /\ 0 + 1 = 1
        OBVIOUS
      <3> QED BY <3>1, <3>2, Zenon
    <2> SUFFICES ASSUME NEW s \in again' PROVE Diff(nxt', s) <= n + 1 - n
      BY DEF ToResend
    <2>2. s = nxt /\ 1 <= n + 1 - n
      OBVIOUS
    <2> QED BY <2>1, <2>2, Zenon
  <1>11. ToCome(n + 1, h, n, h, u)'
    <2>1. n <= n /\ n < n + 1 /\ 0 <= n - n /\ (n < h \/ n >= h)
      OBVIOUS
    <2> QED BY <1>1, <1>3, <2>1, Zenon DEF ToCome
  <1>12. Lined(u)' /\ Near(h, u)'
    <2>1. \A j \in 1 .. 1 : \A i \in 1 .. j - 1 : FALSE
      OBVIOUS
    <2>2. \A j \in 1 .. 1 - 1 : FALSE
      OBVIOUS
    <2> QED BY <1>1, <2>1, <2>2, Zenon DEF Lined, Near
  <1>13. Synced(n + 1, h, h, n, n, h, u)'
    BY <1>4, <1>5, <1>7, <1>8, <1>9, <1>10, <1>11, <1>12, Zenon DEF Synced
  <1>14. n + 1 \in Int
    OBVIOUS
  <1> QED BY <1>1, <1>13, <1>14, Zenon DEF InSync

LEMMA RoundTurn ==
    ASSUME NEW x \in Int
    PROVE  (x - Mod) % Mod = x % Mod
  <1>1. PICK r \in Sn : r = x % Mod
    BY Circle, Zenon
  <1>2. -Mod \in Int /\ r + (-Mod) \in -Mod .. -1 /\ (r + (-Mod)) + Mod = r /\ x + (-Mod) = x - Mod
    BY ReorderAssumption DEF Sn
  <1>3. (r + (-Mod)) % Mod = (r + (-Mod)) + Mod
    BY <1>2, Circle, Zenon
  <1>4. ((x % Mod) + (-Mod)) % Mod = (x + (-Mod)) % Mod
    BY <1>2, Circle, Zenon
  <1> QED BY <1>1, <1>2, <1>3, <1>4, Zenon

LEMMA BackInSync ==
    ASSUME DInv, OInv, open, gap > Buf, Fresh
    PROVE  InSync'
  <1> USE ReorderAssumption
  <1> DEFINE l == sess.sn
             d == Diff(nxt, l)
             a == Diff(head, l)
  <1>1. /\ Received /\ sess.started /\ nxt \in Sn /\ l \in Sn /\ head \in Sn /\ gap' = 0
        /\ nxt' = (nxt + 1) % Mod /\ Arrive(nxt, TRUE) /\ again' \subseteq {nxt}
        /\ irq = <<>> /\ stored = {} /\ drops = 0 /\ a <= Buf
    <2>1. Received /\ sess.started /\ irq = <<>> /\ stored = {} /\ drops = 0 /\ again = {} /\ a <= Buf
      BY DEF DInv, Adrift
    <2>2. nxt \in Sn /\ l \in Sn
      BY DEF OInv, Numbers
    <2> QED BY <2>1, <2>2 DEF Fresh, Next1, Received
  <1>2. /\ irq' = Append(irq, [sn |-> nxt, new |-> TRUE]) /\ UNCHANGED drops /\ sess'.sn = nxt
        /\ Inverted(nxt) => head' = nxt /\ stored' = {}
        /\ ~Inverted(nxt) => UNCHANGED <<head, stored>>
    <2>1. TRUE \in BOOLEAN
      OBVIOUS
    <2> QED BY <1>1, <2>1, Arrived, Zenon
  <1>3. irq' = <<[sn |-> nxt, new |-> TRUE]>>
    BY <1>1, <1>2
  <1>4. drops' = 0 /\ stored' = {}
    BY <1>1, <1>2
  <1>5. nxt % Mod = nxt /\ l % Mod = l /\ head % Mod = head /\ nxt \in Int /\ l \in Int
    <2>1. nxt % Mod = nxt /\ l % Mod = l /\ head % Mod = head
      BY <1>1, Circle, Zenon DEF Sn
    <2>2. Sn \subseteq Int
      BY DEF Sn
    <2> QED BY <1>1, <2>1, <2>2, Zenon
  <1>6. 3 * Buf <= Half /\ 2 * Half = Mod /\ Half \in Nat /\ Buf \in Nat \ {0}
    BY Circle
  <1>7. CASE Inverted(nxt)
    <2>1. nxt - nxt < 2 * Buf /\ nxt - nxt <= Half
      BY <1>5, <1>6
    <2>2. head' = nxt % Mod
      BY <1>2, <1>5, <1>7, Zenon
    <2> QED BY <1>1, <1>2, <1>3, <1>4, <1>5, <2>1, <2>2, Resumed, Zenon
  <1>8. CASE ~Inverted(nxt)
    <2>0. \A s \in Sn : Diff(s, l) \in Sn /\ (l + Diff(s, l)) % Mod = s
      <3> SUFFICES ASSUME NEW s \in Sn PROVE Diff(s, l) \in Sn /\ (l + Diff(s, l)) % Mod = s
        OBVIOUS
      <3> HIDE DEF l
      <3>1. Diff(s, l % Mod) \in Sn /\ s = (l + Diff(s, l % Mod)) % Mod
        BY <1>5, Reached, Zenon
      <3> QED BY <1>5, <3>1, Zenon
    <2>1. d \in Sn /\ (l + d) % Mod = nxt
      BY <1>1, <2>0, Zenon
    <2>2. a \in Sn /\ (l + a) % Mod = head
      BY <1>1, <2>0, Zenon
    <2>3. ~(d > Half /\ d <= Mod - Buf)
      BY <1>1, <1>8, Zenon DEF Inverted, Less
    <2>5. head' = (l + a) % Mod
      BY <1>2, <1>8, <2>2, Zenon
    <2> HIDE DEF l, d, a
    <2>6. d \in Nat /\ d < Mod /\ a \in 0 .. Buf /\ l + a \in Int /\ l + d \in Int /\ (l + d) - Mod \in Int
      BY <1>1, <1>5, <2>1, <2>2 DEF Sn
    <2>4. ((l + d) - Mod) % Mod = nxt
      BY <2>1, <2>6, RoundTurn, Zenon
    <2>7. CASE d <= Half
      <3>1. (l + a) - (l + d) < 2 * Buf /\ (l + d) - (l + a) <= Half
        BY <1>5, <1>6, <2>6, <2>7
      <3> QED BY <1>1, <1>2, <1>3, <1>4, <2>1, <2>5, <2>6, <3>1, Resumed, Zenon
    <2>8. CASE d > Mod - Buf
      <3>1. (l + a) - ((l + d) - Mod) < 2 * Buf /\ ((l + d) - Mod) - (l + a) <= Half
        BY <1>5, <1>6, <2>6, <2>8
      <3> QED BY <1>1, <1>2, <1>3, <1>4, <2>4, <2>5, <2>6, <3>1, Resumed, Zenon
    <2> QED BY <1>6, <2>3, <2>6, <2>7, <2>8
  <1> QED BY <1>7, <1>8

\* The session begins: nothing waits.
LEMMA BegunInSync ==
    ASSUME Received, OInv, gap <= Buf, irq = <<>>, again = {}, UNCHANGED <<nxt, again, gap, irq>>,
           sess'.sn = nxt, head' = nxt, stored' = {}, drops' = 0
    PROVE  InSync'
  <1> USE ReorderAssumption
  <1>1. nxt \in Sn /\ nxt \in Int /\ gap \in Nat
    BY DEF OInv, Numbers, Sn
  <1>2. nxt % Mod = nxt
    BY <1>1, Circle, Zenon DEF Sn
  <1>3. /\ irq' = <<>> /\ Len(irq') = 0 /\ nxt' = nxt /\ Buf \in Nat \ {0} /\ again' = {} /\ gap' = gap
        /\ \A j \in 1 .. 0 : FALSE
        /\ \A j \in 1 .. 0 - 1 : FALSE
    OBVIOUS
  <1> DEFINE u == <<>>
  <1>4. u \in Seq(Int) /\ Len(u) = 0 /\ u = <<>>
    OBVIOUS
  <1> HIDE DEF u
  <1>5. \A n \in Int : n % Mod = nxt => Synced(n, n, n, n, n, n, u)'
    <2> SUFFICES ASSUME NEW n \in Int, n % Mod = nxt PROVE Synced(n, n, n, n, n, n, u)'
      OBVIOUS
    <2>1. Placed(n, n, n, u)'
      BY <1>3, <1>4, Zenon DEF Placed
    <2>2. Buffered(n, n)' /\ Front(n, n, n, n, u)'
      BY <1>3 DEF Buffered, Holds, Front
    <2>3. InRow(n, n, n)'
      BY <1>3 DEF InRow
    <2>4. Latest(n, n, n, n, u)'
      BY <1>1, <1>3 DEF Latest
    <2>5. ToResend(n, n)' /\ ToCome(n, n, n, n, u)' /\ Lined(u)' /\ Near(n, u)'
      BY <1>3, <1>4, Zenon DEF ToResend, ToCome, Lined, Near
    <2> QED BY <2>1, <2>2, <2>3, <2>4, <2>5, Zenon DEF Synced
  <1> QED BY <1>1, <1>4, <1>5, <1>2, Zenon DEF InSync

\* The steps.
LEMMA FreshKeeps ==
    ASSUME DInv, OInv, Fresh
    PROVE  DInv'
  <1>1. Received /\ nxt \in Sn /\ TRUE \in BOOLEAN /\ Arrive(nxt, TRUE) /\ gap' = 0
    BY DEF DInv, OInv, Numbers, Fresh
  <1>2. /\ Received' /\ UNCHANGED <<open, drops>> /\ sess'.started = sess.started
        /\ ~open => UNCHANGED stored
    BY <1>1, Arrived
  <1>3. open => InSync'
    <2>1. gap <= Buf \/ gap > Buf
      BY ReorderAssumption DEF OInv, Numbers
    <2> QED BY <2>1, FreshInSync, BackInSync, Zenon
  <1>4. ~(gap' > Buf)
    BY <1>1, ReorderAssumption
  <1> QED BY <1>2, <1>3, <1>4 DEF DInv

LEMMA RetryKeeps ==
    ASSUME DInv, OInv, NEW s \in again, Retry(s)
    PROVE  DInv'
  <1>1. Received /\ s \in Sn /\ FALSE \in BOOLEAN /\ Arrive(s, FALSE) /\ gap' = 0
    BY DEF DInv, OInv, Numbers, Retry
  <1>2. /\ Received' /\ UNCHANGED <<open, drops>> /\ sess'.started = sess.started
        /\ ~open => UNCHANGED stored
    BY <1>1, Arrived
  <1>3. gap <= Buf
    <2>1. ~(gap > Buf)
      BY DEF DInv, Adrift
    <2> QED BY <2>1, ReorderAssumption DEF OInv, Numbers
  <1>4. open => InSync'
    BY <1>3, RetryInSync
  <1>5. ~(gap' > Buf)
    BY <1>1, ReorderAssumption
  <1> QED BY <1>2, <1>4, <1>5 DEF DInv

LEMMA LostKeeps ==
    ASSUME DInv, OInv, Lost
    PROVE  DInv'
  <1>1. gap \in Nat /\ gap < Buf /\ gap' = gap + 1 /\ UNCHANGED <<sess, open, head, stored, irq, drops>>
    BY DEF OInv, Numbers, Lost
  <1>2. gap <= Buf /\ ~(gap' > Buf)
    BY <1>1, ReorderAssumption
  <1>3. open => InSync'
    BY <1>2, LostInSync
  <1> QED BY <1>1, <1>2, <1>3 DEF DInv, Received

LEMMA GiveUpKeeps ==
    ASSUME DInv, OInv, NEW s \in again, GiveUp(s)
    PROVE  DInv'
  <1>1. UNCHANGED <<nxt, gap, sess, open, head, stored, irq, drops>>
    BY DEF GiveUp
  <1>2. gap <= Buf /\ ~(gap > Buf)
    <2>1. ~(gap > Buf)
      BY DEF DInv, Adrift
    <2> QED BY <2>1, ReorderAssumption DEF OInv, Numbers
  <1>3. open => InSync'
    BY <1>2, GiveUpInSync
  <1> QED BY <1>1, <1>2, <1>3 DEF DInv, Received

LEMMA TaskletKeeps ==
    ASSUME DInv, OInv, Tasklet
    PROVE  DInv'
  <1>1. irq # <<>> /\ irq' = Tail(irq) /\ UNCHANGED <<nxt, again, gap, sess, open>>
    BY DEF Tasklet
  <1>2. gap <= Buf /\ ~(gap > Buf)
    <2>1. ~(gap > Buf)
      BY <1>1 DEF DInv, Adrift
    <2> QED BY <2>1, ReorderAssumption DEF OInv, Numbers
  <1>3. CASE open
    <2>1. InSync' /\ Received'
      BY <1>2, <1>3, TaskletInSync
    <2> QED BY <1>1, <1>2, <1>3, <2>1 DEF DInv
  <1>4. CASE ~open
    <2>1. Received /\ drops = 0 /\ stored = {}
      BY <1>4 DEF DInv
    <2>2. UNCHANGED <<head, stored>> /\ drops' \in {0, drops}
      BY <1>4, Zenon DEF Tasklet
    <2>3. irq' \in Seq(Frame)
      BY <1>1, <2>1 DEF Received
    <2>4. Received' /\ drops' = 0 /\ stored' = {}
      BY <1>1, <2>1, <2>2, <2>3 DEF Received
    <2> QED BY <1>1, <1>2, <1>4, <2>4 DEF DInv
  <1> QED BY <1>3, <1>4

LEMMA TimeoutKeeps ==
    ASSUME DInv, OInv, Timeout
    PROVE  DInv'
  <1>1. stored # {} /\ UNCHANGED <<nxt, again, gap, sess, open, irq, drops>>
    BY DEF Timeout
  <1>2. open /\ gap <= Buf /\ ~(gap > Buf)
    <2>1. open /\ ~(gap > Buf)
      BY <1>1 DEF DInv, Adrift
    <2> QED BY <2>1, ReorderAssumption DEF OInv, Numbers
  <1>3. InSync' /\ stored' \in SUBSET Sn /\ head' \in Sn
    BY <1>2, TimeoutInSync
  <1> QED BY <1>1, <1>2, <1>3 DEF DInv, Received

LEMMA StartKeeps ==
    ASSUME DInv, OInv, NEW r \in BOOLEAN, RxStart(r)
    PROVE  DInv'
  <1>1. /\ irq = <<>> /\ again = {} /\ sess' = [started |-> TRUE, sn |-> nxt] /\ open' = ~r
        /\ head' = nxt /\ stored' = {} /\ drops' = 0 /\ UNCHANGED <<nxt, again, gap, irq>>
    BY DEF RxStart
  <1>2. nxt \in Sn /\ Diff(nxt, nxt) = 0 /\ gap \in 0 .. Buf + 1 /\ Buf \in Nat \ {0} /\ Received
    BY Between, ReorderAssumption DEF OInv, Numbers, DInv
  <1>3. Received'
    BY <1>1, <1>2 DEF Received
  <1>4. gap' <= Buf => InSync'
    BY <1>1, <1>2, BegunInSync
  <1>5. gap' > Buf => Adrift'
    BY <1>1, <1>2 DEF Adrift
  <1>6. sess'.started
    BY <1>1
  <1> QED BY <1>1, <1>3, <1>4, <1>5, <1>6, Zenon DEF DInv

LEMMA StopKeeps ==
    ASSUME DInv, RxStop
    PROVE  DInv'
  <1>1. open' = FALSE /\ stored' = {} /\ drops' = 0 /\ UNCHANGED <<nxt, again, gap, head, irq>>
    BY DEF RxStop
  <1> QED BY <1>1 DEF DInv, Adrift, Received

LEMMA AwayKeeps ==
    ASSUME DInv, OInv, NEW k \in Sn, Away(k)
    PROVE  DInv'
  <1> USE ReorderAssumption
  <1>1. /\ irq = <<>> /\ stored = {} /\ gap <= Buf /\ drops = 0 /\ again' = {} /\ gap' = Buf + 1
        /\ UNCHANGED <<sess, open, head, stored, irq, drops>>
    BY DEF Away
  <1>2. open => Diff(head, sess.sn) <= Buf
    <2> SUFFICES ASSUME open PROVE Diff(head, sess.sn) <= Buf
      OBVIOUS
    <2>1. PICK n \in Int, h \in Int, t \in Int, l \in Int, b \in Int, e \in Int, u \in Seq(Int) :
              Synced(n, h, t, l, b, e, u)
      BY <1>1 DEF DInv, InSync
    <2>2. head = h % Mod /\ sess.sn = l % Mod /\ Len(u) = 0
      <3>1. Len(irq) = 0
        BY <1>1
      <3> QED BY <2>1, <3>1, Zenon DEF Synced, Placed
    <2>3. h = t /\ l <= h
      <3>1. h <= t /\ (t = h \/ (t - 1) % Mod \in stored)
        BY <2>1 DEF Synced, Buffered, Holds
      <3>2. t = h
        BY <1>1, <3>1
      <3> QED BY <1>1, <2>1, <3>2 DEF Synced, Latest
    <2>4. ~Stale(h, u)
      BY <1>1, <2>2 DEF Stale
    <2>5. t <= l + Buf
      BY <2>1, <2>4 DEF Synced, Latest
    <2>6. h - l \in 0 .. Mod - 1 /\ h - l <= Buf
      BY <2>3, <2>5
    <2>7. Diff(h % Mod, l % Mod) = h - l
      BY <2>6, Distance, Zenon
    <2> QED BY <2>2, <2>6, <2>7, Zenon
  <1>3. ~(gap' <= Buf)
    BY <1>1
  <1> QED BY <1>1, <1>2, <1>3 DEF DInv, Adrift, Received

LEMMA DStepKeeps == OInv /\ DInv /\ [Next]_vars => DInv'
  <1> SUFFICES ASSUME OInv, DInv, [Next]_vars PROVE DInv'
    OBVIOUS
  <1>1. CASE UNCHANGED rxVars
    BY <1>1 DEF rxVars, DInv, Adrift, Received, InSync, Synced, Placed, Buffered, Holds, Front, InRow,
                Latest, ToResend, ToCome, Lined, Near, Stale
  <1> QED BY <1>1, RxSteps, FreshKeeps, RetryKeeps, LostKeeps, GiveUpKeeps, TaskletKeeps, TimeoutKeeps,
             StartKeeps, StopKeeps, AwayKeeps, Zenon

LEMMA InRowIsBounded == OInv /\ DInv => DropsBounded
  <1> SUFFICES ASSUME OInv, DInv PROVE drops < 2 * Buf
    BY DEF DropsBounded
  <1>1. Buf \in Nat \ {0} /\ drops \in Nat
    BY ReorderAssumption DEF DInv, Received
  <1>2. CASE drops = 0
    BY <1>1, <1>2
  <1>3. CASE drops # 0
    <2>1. open /\ ~(gap > Buf)
      BY <1>3 DEF DInv, Adrift
    <2>2. gap <= Buf
      BY <1>1, <2>1 DEF OInv, Numbers
    <2>3. InSync
      BY <2>1, <2>2 DEF DInv
    <2> QED BY <1>1, <1>3, <2>3 DEF InSync, Synced, InRow
  <1> QED BY <1>2, <1>3

\* A peer that comes back after any number of frames sent in vain is heard again
\* after fewer than two windows of new frames (rx_h_check_sn sets the buffer back in
\* time), whatever waits for the tasklet meanwhile, for every window of at most a
\* sixth of the circle.
THEOREM SpecDropsBounded == Spec => []DropsBounded
  <1>1. Init => OInv /\ DInv
    BY OInitially, DInitially DEF Init
  <1>2. (OInv /\ DInv) /\ [Next]_vars => (OInv /\ DInv)'
    BY StepOrders, DStepKeeps
  <1>3. OInv /\ DInv => DropsBounded
    BY InRowIsBounded
  <1> QED BY <1>1, <1>2, <1>3, PTL DEF Spec

-----------------------------------------------------------------------------
(* Peers: the sessions. *)

\* mac80211's session in the states in which the target may hold one too.
Held == {"operational", "wantstop", "stuck"}

SessionTypes ==
    /\ ba \in [Stas -> {"NONE", "REQUEST", "ACCEPT", "REJECT", "CLOSE", "DISABLE"}]
    /\ macBa \in [Stas -> {"idle", "want", "starting", "stopping"} \cup Held]
    /\ tgtBa \in [Stas -> {"off", "start", "oper"}]
    /\ state \in [Stas -> {"notexist", "none", "assoc", "authorized", "reauth", "leaving", "removed"}]

\* Between the tear-down of a station's sessions and its removal the target
\* still has the session that mac80211 has forgotten, whatever is asked for in
\* between; so has the driver, when it refused the tear-down, until the record goes.
Matched == \A s \in Stas :
    /\ ba[s] = "ACCEPT" => macBa[s] \in Held \/ state[s] \in {"leaving", "removed"}
    /\ tgtBa[s] = "oper" => macBa[s] \in Held \/ state[s] = "leaving"

SessInv == SessionTypes /\ Matched

LEMMA SessInit == PeersInit => SessInv
  BY DEF PeersInit, BaInit, SessInv, SessionTypes, Matched

\* What the invariant is about stays.
Untouched == UNCHANGED <<ba, macBa, tgtBa, state>>
LEMMA UntouchedKeeps == SessInv /\ Untouched => SessInv'
  BY DEF SessInv, SessionTypes, Matched, Untouched

\* The states of a station that touch its sessions.
LEMMA AuthorizeKeeps ==
    ASSUME SessInv, NEW s \in Stas, BaAuthorize(s),
           Goes(s, {"assoc"}, "authorized") \/ Goes(s, {"reauth"}, "authorized")
    PROVE  SessInv'
  BY DEF SessInv, SessionTypes, Matched, BaAuthorize, Goes

LEMMA StateKeeps ==
    ASSUME SessInv, NEW s \in Stas, UNCHANGED baVars,
           NEW from, NEW to \in {"none", "assoc", "reauth"}, Goes(s, from, to), from \cap {"leaving", "removed"} = {}
    PROVE  SessInv'
  BY DEF SessInv, SessionTypes, Matched, baVars, Goes

LEMMA LeaveKeeps ==
    ASSUME SessInv, NEW s \in Stas, Leave(s)
    PROVE  SessInv'
  BY DEF SessInv, SessionTypes, Matched, Leave, BaTearDown, Goes, Held

LEMMA RemovedKeeps ==
    ASSUME SessInv, NEW s \in Stas, StaRemove(s)
    PROVE  SessInv'
  BY DEF SessInv, SessionTypes, Matched, StaRemove, BaRemoved, Goes

LEMMA GoneKeeps ==
    ASSUME SessInv, NEW s \in Stas, Gone(s)
    PROVE  SessInv'
  BY DEF SessInv, SessionTypes, Matched, Gone, BaGone, Goes

\* The driver's work asks for a session that mac80211 does not have, or ends one.
LEMMA WorkKeeps ==
    ASSUME SessInv, NEW s \in Stas, Work(s), UNCHANGED state
    PROVE  SessInv'
  <1>1. CASE WorkStart(s)
    BY <1>1 DEF SessInv, SessionTypes, Matched, WorkStart, Held
  <1>2. CASE WorkBusy(s)
    BY <1>2 DEF SessInv, SessionTypes, Matched, WorkBusy
  <1>3. CASE WorkAgain(s)
    BY <1>3 DEF SessInv, SessionTypes, Matched, WorkAgain, Held
  <1>4. CASE WorkNone(s)
    BY <1>4 DEF SessInv, SessionTypes, Matched, WorkNone
  <1> QED BY <1>1, <1>2, <1>3, <1>4 DEF Work

\* mac80211 starts, completes and ends a session, told to the target or refused.
LEMMA AmpduKeeps ==
    ASSUME SessInv, NEW s \in Stas, Ampdu(s) \/ PeerEnds(s), UNCHANGED state
    PROVE  SessInv'
  <1>1. CASE TxStart(s)
    BY <1>1 DEF SessInv, SessionTypes, Matched, TxStart, Passes, Refused, Told, NotTold, Held
  <1>2. CASE TxOperational(s)
    BY <1>2 DEF SessInv, SessionTypes, Matched, TxOperational, Passes, Refused, Told, NotTold, Held
  <1>3. CASE TxStop(s)
    BY <1>3 DEF SessInv, SessionTypes, Matched, TxStop, TxStopCont, Passes, Refused, Told, NotTold, Held
  <1>4. CASE TxStopped(s)
    BY <1>4 DEF SessInv, SessionTypes, Matched, TxStopped, Held
  <1>5. CASE PeerEnds(s)
    BY <1>5 DEF SessInv, SessionTypes, Matched, PeerEnds, Held
  <1> QED BY <1>1, <1>2, <1>3, <1>4, <1>5 DEF Ampdu

LEMMA SessStep == SessInv /\ [PeersNext]_peersVars => SessInv'
  <1> SUFFICES ASSUME SessInv, [PeersNext]_peersVars PROVE SessInv'
    OBVIOUS
  <1>1. ASSUME NEW s \in Stas, Auth(s) \/ Assoc(s) \/ Unauthorize(s)
        PROVE  SessInv'
    BY <1>1, StateKeeps DEF Auth, Assoc, Unauthorize
  <1>2. ASSUME NEW s \in Stas, Authorize(s) \/ Reauthorize(s)
        PROVE  SessInv'
    BY <1>2, AuthorizeKeeps DEF Authorize, Reauthorize
  <1>3. ASSUME NEW s \in Stas, TxData(s) \/ Beat(s) \/ PowerLoss(s)
        PROVE  SessInv'
    <2>1. Untouched
      BY <1>3 DEF TxData, SetupBaSession, Beat, PowerLoss, baVars, Untouched
    <2> QED BY <2>1, UntouchedKeeps
  <1>4. ASSUME NEW s \in Stas, Session(s)
        PROVE  SessInv'
    <2>1. UNCHANGED state
      BY <1>4 DEF Session, Elsewhere
    <2>2. CASE FiveSeconds(s)
      BY <2>1, <2>2, UntouchedKeeps DEF FiveSeconds, Untouched
    <2> QED BY <1>4, <2>1, <2>2, WorkKeeps, AmpduKeeps DEF Session, BaStep
  <1>5. CASE SetAmpdu \/ Sweeps \/ Tick \/ Capi \/ UNCHANGED peersVars
    <2>1. Untouched
      BY <1>5 DEF SetAmpdu, SetMode, SetSupported, Elsewhere, Sweeps, Tick, Capi, peersVars, baVars, Untouched
    <2> QED BY <2>1, UntouchedKeeps
  <1> QED BY <1>1, <1>2, <1>3, <1>4, <1>5, LeaveKeeps, RemovedKeeps, GoneKeeps DEF PeersNext

\* The target aggregates, and the driver takes a session for accepted, only
\* within a session of mac80211: nrc_mac_ampdu_action, the work that asks for a
\* session, and the states of a station, in any order and with any refusal.
THEOREM SpecInStep == PeersSpec => []InStep
  <1>1. SessInv => InStep
    BY DEF SessInv, SessionTypes, Matched, InStep, Held
  <1> QED BY <1>1, SessInit, SessStep, PTL DEF PeersSpec

-----------------------------------------------------------------------------
(* The idle timers. *)

Periods == {c[2] : c \in Settings}

\* What the driver's defaults are chosen for: the keep-alives that may get lost
\* in a row and the next one all come before the access point's count is over.
Paced == \A p \in Periods : p > 0 => (MaxLost + 1) * KeepAlive(p) < Limit * Sweep * p

Records == [period : Periods \cup {0}, idle_period : Nat, left : Nat, cnt : 0 .. Limit - 1]
IdleTypes ==
    /\ vif_period \in Periods \cup {0} /\ sweep \in 0 .. Sweep
    /\ idle \in [Stas -> Records] /\ period \in [Stas -> Periods \cup {0}]
    /\ timer \in [Stas -> Nat \cup {Off}] /\ lost \in [Stas -> 0 .. MaxLost]
    /\ silent \in [Stas -> BOOLEAN] /\ kick \in [Stas -> BOOLEAN]
    /\ state \in [Stas -> {"notexist", "none", "assoc", "authorized", "reauth", "leaving", "removed"}]

\* A station's period is the one of its record; its timer starts with its port.
Agreed(s) ==
    /\ state[s] \in {"notexist", "none"} => period[s] = 0
    /\ state[s] = "none" => idle[s].period = idle[s].idle_period
    /\ state[s] \in {"notexist", "none", "assoc"} => timer[s] = Off /\ lost[s] = 0
    /\ period[s] > 0 => idle[s].period = period[s] /\ idle[s].idle_period = period[s]

\* The sweeps up to the one that gives the station up, and the time to the last
\* keep-alive that may get lost and the one after it.
SweepsLeft(r) == r.left + (Limit - 1 - r.cnt) * r.idle_period
LastBeat(s) == timer[s] + (MaxLost - lost[s]) * KeepAlive(period[s])
Watched(s) == state[s] \in {"authorized", "reauth"} /\ period[s] > 0 /\ timer[s] # Off /\ ~Twt /\ ~silent[s]
InTime(s) == /\ timer[s] # Off
             /\ idle[s].left = 0 \/ LastBeat(s) < sweep + (SweepsLeft(idle[s]) - 1) * Sweep

Ahead == \A s \in Stas : Agreed(s) /\ (Watched(s) => InTime(s))
IdleInv == IdleTypes /\ Ahead

LEMMA PeriodTypes == Periods \subseteq Nat
  BY SettingsAssumption DEF Periods

LEMMA BeatTypes ==
    ASSUME NEW p \in Nat
    PROVE  KeepAlive(p) \in Nat /\ KeepAlive(p) >= 924
  <1>1. IdleOffset(p) \in Int
    BY MaxIdleAssumption DEF IdleOffset, Unit
  <1> DEFINE ms == p * Unit + IdleOffset(p)
  <1>2. ms \in Int
    BY <1>1 DEF Unit
  <1>3. KeepAlive(p) = IF ms < 924 THEN 924 ELSE ms
    BY DEF KeepAlive
  <1> HIDE DEF ms
  <1> QED BY <1>2, <1>3

\* With the default offset any period does when one keep-alive may get lost, and
\* one of at most 31 units when two may: 1000 ms are less than 1000 TU.
LEMMA PacedByDefault ==
    ASSUME Offset = 0, MaxLost \in {0, 1} \/ (MaxLost = 2 /\ \A p \in Periods : p <= 31)
    PROVE  Paced
  <1> SUFFICES ASSUME NEW p \in Periods, p > 0
               PROVE  (MaxLost + 1) * KeepAlive(p) < Limit * Sweep * p
    BY DEF Paced
  <1>1. p \in Nat
    BY PeriodTypes
  <1>2. IdleOffset(p) = IF p > 2 THEN -768 ELSE -100
    BY DEF IdleOffset
  <1>3. KeepAlive(p) = IF p = 1 THEN 924 ELSE IF p = 2 THEN 1948 ELSE 1024 * p - 768
    BY <1>1, <1>2 DEF KeepAlive, Unit
  <1> QED BY <1>1, <1>3 DEF Limit, Sweep

LEMMA IdleStart == PeersInit => IdleInv
  BY ClientsAssumption, MaxIdleAssumption, SettingsAssumption
  DEF PeersInit, IdleInit, IdleInv, IdleTypes, Ahead, Agreed, Watched, Records, NoIdle, Periods, Sweep, Limit

-----------------------------------------------------------------------------
(* Steps of one station. *)

\* Nothing about the others changes, nor the clock.
OnlyOf(s) == /\ UNCHANGED sweep
             /\ \A x \in Stas \ {s} : /\ idle'[x] = idle[x] /\ period'[x] = period[x]
                                     /\ timer'[x] = timer[x] /\ lost'[x] = lost[x]
                                     /\ silent'[x] = silent[x] /\ state'[x] = state[x]

LEMMA OthersStay ==
    ASSUME Ahead, NEW s \in Stas, OnlyOf(s), NEW x \in Stas \ {s}
    PROVE  (Agreed(x) /\ (Watched(x) => InTime(x)))'
  BY DEF Ahead, OnlyOf, Agreed, Watched, InTime, LastBeat

LEMMA OneStation ==
    ASSUME Ahead, NEW s \in Stas, OnlyOf(s), IdleTypes',
           (Agreed(s) /\ (Watched(s) => InTime(s)))'
    PROVE  IdleInv'
  BY OthersStay DEF Ahead, IdleInv

LEMMA AuthAhead ==
    ASSUME IdleInv, NEW s \in Stas, Auth(s)
    PROVE  IdleInv'
  <1>1. IdleTypes' /\ OnlyOf(s)
    BY PeriodTypes, ClientsAssumption
    DEF IdleInv, IdleTypes, Auth, IdleNew, Goes, OnlyOf, Records, Limit
  <1>2. (Agreed(s) /\ (Watched(s) => InTime(s)))'
    BY ClientsAssumption
    DEF IdleInv, IdleTypes, Ahead, Auth, IdleNew, Goes, Agreed, Watched
  <1> QED BY <1>1, <1>2, OneStation DEF IdleInv

LEMMA AssocAhead ==
    ASSUME IdleInv, NEW s \in Stas, Assoc(s)
    PROVE  IdleInv'
  <1>1. PICK hapd \in BOOLEAN, noroom \in BOOLEAN : IdleAssoc(s, hapd, noroom)
    BY DEF Assoc
  <1>2. UNCHANGED kick /\ state[s] = "none" /\ state' = [state EXCEPT ![s] = "assoc"]
    BY DEF Assoc, Goes
  <1>3. IdleTypes' /\ OnlyOf(s)
    <2>1. PICK a \in {0, idle[s].period}, b \in {0, idle[s].idle_period} :
             idle' = [idle EXCEPT ![s].period = a, ![s].idle_period = b]
      BY <1>1 DEF IdleAssoc, IdleInv, IdleTypes, Records
    <2>2. idle[s] \in Records /\ [idle[s] EXCEPT !.period = a, !.idle_period = b] \in Records
      <3>1. idle[s] \in Records
        BY DEF IdleInv, IdleTypes
      <3>2. a \in Periods \cup {0} /\ b \in Nat
        BY <2>1, <3>1 DEF Records
      <3> QED BY <3>1, <3>2 DEF Records
    <2>3. idle' \in [Stas -> Records] /\ \A x \in Stas \ {s} : idle'[x] = idle[x]
      BY <2>1, <2>2 DEF IdleInv, IdleTypes
    <2>4. Learnt(s, hapd, noroom) \in Periods \cup {0}
      BY <2>2 DEF Learnt, Records
    <2> QED BY <1>1, <1>2, <2>3, <2>4 DEF IdleInv, IdleTypes, IdleAssoc, OnlyOf
  <1>4. (Agreed(s) /\ (Watched(s) => InTime(s)))'
    BY <1>1, <1>2, ClientsAssumption
    DEF IdleInv, IdleTypes, Ahead, IdleAssoc, Learnt, Agreed, Watched, Records
  <1> QED BY <1>3, <1>4, OneStation DEF IdleInv

\* What the records hold are numbers.
LEMMA RecordNumbers ==
    ASSUME IdleTypes, NEW s \in Stas
    PROVE  /\ period[s] \in Nat /\ KeepAlive(period[s]) \in Nat
           /\ sweep \in Nat /\ MaxLost \in Nat /\ lost[s] \in 0 .. MaxLost
           /\ idle[s].idle_period \in Nat /\ idle[s].left \in Nat /\ idle[s].cnt \in 0 .. 2
           /\ idle[s] \in Records
           /\ period[s] > 0 => period[s] \in Periods
  <1>1. Periods \cup {0} \subseteq Nat
    BY PeriodTypes
  <1>2. period[s] \in Periods \cup {0} /\ idle[s] \in Records /\ sweep \in 0 .. 1000 /\ lost[s] \in 0 .. MaxLost
    BY DEF IdleTypes, Sweep
  <1>3. period[s] \in Nat
    BY <1>1, <1>2
  <1>4. KeepAlive(period[s]) \in Nat
    BY <1>3, BeatTypes
  <1> QED BY <1>2, <1>3, <1>4, MaxIdleAssumption DEF Records, Limit

\* A frame from a station starts its count anew.
LEMMA HeardTypes ==
    ASSUME IdleTypes, NEW s \in Stas
    PROVE  /\ HeardFrom(s) \in [Stas -> Records]
           /\ \A x \in Stas \ {s} : HeardFrom(s)[x] = idle[x]
           /\ HeardFrom(s)[s].period = idle[s].period
           /\ HeardFrom(s)[s].idle_period = idle[s].idle_period
           /\ \/ HeardFrom(s)[s] = idle[s] /\ (idle[s].period = 0 \/ idle[s].left = 0)
              \/ HeardFrom(s)[s].cnt = 0 /\ HeardFrom(s)[s].left = idle[s].idle_period + 1
  <1>1. idle \in [Stas -> Records] /\ idle[s] \in Records /\ idle[s].idle_period + 1 \in Nat /\ 0 \in 0 .. Limit - 1
    BY RecordNumbers DEF IdleTypes, Limit
  <1>2. CASE idle[s].period > 0 /\ idle[s].left > 0
    <2> DEFINE r == [idle[s] EXCEPT !.cnt = 0, !.left = idle[s].idle_period + 1]
    <2>1. HeardFrom(s) = [idle EXCEPT ![s] = r]
      BY <1>1, <1>2 DEF HeardFrom, Extra
    <2>2. /\ r \in Records /\ r.period = idle[s].period /\ r.idle_period = idle[s].idle_period
          /\ r.cnt = 0 /\ r.left = idle[s].idle_period + 1
      BY <1>1 DEF Records
    <2> HIDE DEF r
    <2> QED BY <1>1, <2>1, <2>2
  <1>3. CASE ~ (idle[s].period > 0 /\ idle[s].left > 0)
    <2>1. HeardFrom(s) = idle
      BY <1>3 DEF HeardFrom
    <2>2. idle[s].period \in Nat /\ idle[s].left \in Nat
      <3>1. Periods \cup {0} \subseteq Nat
        BY PeriodTypes
      <3> QED BY <1>1, <3>1 DEF Records
    <2> QED BY <1>1, <1>3, <2>1, <2>2
  <1> QED BY <1>2, <1>3

\* ... and with its timer started too, it is in time.
LEMMA StartedInTime ==
    ASSUME Paced, IdleInv, NEW s \in Stas, Agreed(s), period[s] > 0,
           NEW r \in Records, r.idle_period = period[s],
           r.left = 0 \/ (r.cnt = 0 /\ r.left = period[s] + 1)
    PROVE  r.left = 0 \/ KeepAlive(period[s]) + MaxLost * KeepAlive(period[s])
                          < sweep + (SweepsLeft(r) - 1) * Sweep
  <1> DEFINE p == period[s]
             k == KeepAlive(period[s])
  <1>1. p \in Periods /\ p \in Nat /\ k \in Nat /\ MaxLost \in Nat /\ sweep \in Nat
    BY RecordNumbers DEF IdleInv
  <1>2. (MaxLost + 1) * k < 3000 * p
    BY <1>1 DEF Paced, Limit, Sweep
  <1>3. k + MaxLost * k = (MaxLost + 1) * k
    BY <1>1
  <1>4. r.left # 0 => (SweepsLeft(r) - 1) * Sweep = 3000 * p
    BY <1>1 DEF SweepsLeft, Limit, Sweep
  <1> HIDE DEF k
  <1> QED BY <1>1, <1>2, <1>3, <1>4 DEF k

LEMMA AuthorizeAhead ==
    ASSUME Paced, IdleInv, NEW s \in Stas, Authorize(s)
    PROVE  IdleInv'
  <1>1. /\ UNCHANGED <<kick, vif_period, sweep, period, lost, silent>> /\ idle' = HeardFrom(s)
        /\ timer' = [timer EXCEPT ![s] = IF Twt \/ period[s] = 0 THEN @ ELSE KeepAlive(period[s])]
        /\ state[s] = "assoc" /\ state' = [state EXCEPT ![s] = "authorized"]
    BY DEF Authorize, Goes, IdleAuthorize
  <1>2. period[s] \in Nat /\ KeepAlive(period[s]) \in Nat
    BY RecordNumbers DEF IdleInv
  <1>3. IdleTypes' /\ OnlyOf(s)
    BY <1>1, <1>2, HeardTypes DEF IdleInv, IdleTypes, OnlyOf
  <1>4. Agreed(s)' /\ Agreed(s)
    BY <1>1, HeardTypes DEF IdleInv, IdleTypes, Ahead, Agreed
  <1>5. ASSUME period[s] > 0, ~Twt PROVE InTime(s)'
    <2>1. timer'[s] = KeepAlive(period[s]) /\ lost'[s] = 0 /\ period'[s] = period[s] /\ sweep' = sweep
      BY <1>1, <1>2, <1>5 DEF IdleInv, IdleTypes, Ahead, Agreed
    <2>2. /\ idle'[s] \in Records /\ idle'[s].idle_period = period[s]
          /\ idle'[s].left = 0 \/ (idle'[s].cnt = 0 /\ idle'[s].left = period[s] + 1)
      BY <1>1, <1>2, <1>4, <1>5, HeardTypes DEF Agreed, IdleInv
    <2>3. idle'[s].left = 0 \/ KeepAlive(period[s]) + MaxLost * KeepAlive(period[s])
                                < sweep + (SweepsLeft(idle'[s]) - 1) * Sweep
      BY <1>4, <1>5, <2>2, StartedInTime
    <2>4. MaxLost - 0 = MaxLost /\ KeepAlive(period[s]) # Off
      BY <1>2, MaxIdleAssumption DEF Off
    <2> QED BY <2>1, <2>3, <2>4 DEF InTime, LastBeat
  <1>6. Watched(s)' => InTime(s)'
    BY <1>1, <1>2, <1>5 DEF Watched
  <1> QED BY <1>3, <1>4, <1>6, OneStation DEF IdleInv

LEMMA PortAhead ==
    ASSUME IdleInv, NEW s \in Stas, Unauthorize(s) \/ Reauthorize(s)
    PROVE  IdleInv'
  <1>1. IdleTypes' /\ OnlyOf(s)
    BY DEF IdleInv, IdleTypes, Unauthorize, Reauthorize, Goes, OnlyOf, idleVars
  <1>2. (Agreed(s) /\ (Watched(s) => InTime(s)))'
    BY DEF IdleInv, IdleTypes, Ahead, Unauthorize, Reauthorize, Goes, idleVars,
           Agreed, Watched, InTime, LastBeat
  <1> QED BY <1>1, <1>2, OneStation DEF IdleInv

LEMMA LeaveAhead ==
    ASSUME IdleInv, NEW s \in Stas, Leave(s) \/ StaRemove(s) \/ Gone(s)
    PROVE  IdleInv'
  <1>1. IdleTypes' /\ OnlyOf(s)
    <2>1. NoIdle \in Records /\ 0 \in 0 .. MaxLost
      BY MaxIdleAssumption DEF NoIdle, Records, Limit
    <2>2. CASE Leave(s) \/ StaRemove(s)
      BY <2>2 DEF IdleInv, IdleTypes, Leave, StaRemove, Goes, OnlyOf, idleVars
    <2>3. CASE Gone(s)
      BY <2>1, <2>3 DEF IdleInv, IdleTypes, Gone, IdleGone, Goes, OnlyOf
    <2> QED BY <2>2, <2>3
  <1>2. (Agreed(s) /\ (Watched(s) => InTime(s)))'
    BY ClientsAssumption
    DEF IdleInv, IdleTypes, Ahead, Leave, StaRemove, Gone, IdleGone, Goes, idleVars, Agreed, Watched
  <1> QED BY <1>1, <1>2, OneStation DEF IdleInv

LEMMA VanishAhead ==
    ASSUME IdleInv, NEW s \in Stas, PowerLoss(s)
    PROVE  IdleInv'
  <1>0. 0 \in 0 .. MaxLost
    BY MaxIdleAssumption
  <1>1. IdleTypes' /\ OnlyOf(s)
    BY <1>0, ClientsAssumption DEF IdleInv, IdleTypes, PowerLoss, Vanish, OnlyOf
  <1>2. (Agreed(s) /\ (Watched(s) => InTime(s)))'
    BY ClientsAssumption DEF IdleInv, IdleTypes, Ahead, PowerLoss, Vanish, Agreed, Watched
  <1> QED BY <1>1, <1>2, OneStation DEF IdleInv

\* A keep-alive is heard, or is one of those that may get lost.
LEMMA BeatAhead ==
    ASSUME Paced, IdleInv, NEW s \in Stas, Expire(s), UNCHANGED <<state, kick>>
    PROVE  IdleInv'
  <1>1. /\ UNCHANGED <<kick, vif_period, sweep, period, silent, state>> /\ timer[s] = 0
        /\ timer' = [timer EXCEPT ![s] = KeepAlive(period[s])]
    BY DEF Expire
  <1>2. \/ lost' = [lost EXCEPT ![s] = 0] /\ idle' = HeardFrom(s)
        \/ lost[s] < MaxLost /\ lost' = [lost EXCEPT ![s] = @ + 1] /\ UNCHANGED idle
    BY DEF Expire
  <1>3. period[s] \in Nat /\ KeepAlive(period[s]) \in Nat /\ MaxLost \in Nat /\ lost[s] \in 0 .. MaxLost
    BY RecordNumbers DEF IdleInv
  <1>4. IdleTypes' /\ OnlyOf(s)
    <2>1. idle' \in [Stas -> Records] /\ \A x \in Stas \ {s} : idle'[x] = idle[x]
      BY <1>2, HeardTypes DEF IdleInv, IdleTypes
    <2>2. lost' \in [Stas -> 0 .. MaxLost] /\ \A x \in Stas \ {s} : lost'[x] = lost[x]
      BY <1>2, <1>3 DEF IdleInv, IdleTypes
    <2>3. timer' \in [Stas -> Nat \cup {Off}] /\ \A x \in Stas \ {s} : timer'[x] = timer[x]
      BY <1>1, <1>3 DEF IdleInv, IdleTypes
    <2> QED BY <1>1, <2>1, <2>2, <2>3 DEF IdleInv, IdleTypes, OnlyOf
  <1>5. Agreed(s)' /\ Agreed(s)
    BY <1>1, <1>2, HeardTypes DEF IdleInv, IdleTypes, Ahead, Agreed, Off
  <1>6. timer'[s] = KeepAlive(period[s]) /\ timer'[s] # Off
    BY <1>1, <1>3 DEF IdleInv, IdleTypes, Off
  <1>7. ASSUME period[s] > 0, lost' = [lost EXCEPT ![s] = 0], idle' = HeardFrom(s)
        PROVE  InTime(s)'
    <2>1. lost'[s] = 0 /\ period'[s] = period[s] /\ sweep' = sweep /\ MaxLost - 0 = MaxLost
      BY <1>1, <1>3, <1>7 DEF IdleInv, IdleTypes
    <2>2. /\ idle'[s] \in Records /\ idle'[s].idle_period = period[s]
          /\ idle'[s].left = 0 \/ (idle'[s].cnt = 0 /\ idle'[s].left = period[s] + 1)
      BY <1>3, <1>5, <1>7, HeardTypes DEF Agreed, IdleInv
    <2>3. idle'[s].left = 0 \/ KeepAlive(period[s]) + MaxLost * KeepAlive(period[s])
                                < sweep + (SweepsLeft(idle'[s]) - 1) * Sweep
      BY <1>5, <1>7, <2>2, StartedInTime
    <2> QED BY <1>6, <2>1, <2>3 DEF InTime, LastBeat
  <1>8. ASSUME Watched(s), lost[s] < MaxLost, lost' = [lost EXCEPT ![s] = @ + 1], UNCHANGED idle
        PROVE  InTime(s)'
    <2> DEFINE k == KeepAlive(period[s])
               b == MaxLost - lost[s]
    <2>1. k + (b - 1) * k = 0 + b * k
      BY <1>3
    <2>2. lost'[s] = lost[s] + 1 /\ period'[s] = period[s] /\ sweep' = sweep /\ idle' = idle
          /\ MaxLost - lost'[s] = b - 1
      BY <1>1, <1>3, <1>8 DEF IdleInv, IdleTypes
    <2>3. LastBeat(s)' = LastBeat(s)
      BY <1>1, <1>6, <2>1, <2>2 DEF LastBeat
    <2>4. InTime(s)
      BY <1>8 DEF IdleInv, Ahead
    <2> QED BY <1>6, <2>2, <2>3, <2>4 DEF InTime
  <1>9. Watched(s)' => Watched(s) /\ period[s] > 0
    BY <1>1 DEF Watched, Off
  <1> QED BY <1>2, <1>4, <1>5, <1>7, <1>8, <1>9, OneStation DEF IdleInv

\* A station that has stopped to send is not watched.
LEMMA DropAhead ==
    ASSUME IdleInv, NEW s \in Stas, Drop(s), UNCHANGED <<state, kick>>
    PROVE  IdleInv'
  <1>1. 0 \in 0 .. MaxLost /\ Off \notin Nat
    BY MaxIdleAssumption DEF Off
  <1>2. IdleTypes' /\ OnlyOf(s)
    BY <1>1, ClientsAssumption DEF IdleInv, IdleTypes, Drop, OnlyOf
  <1>3. (Agreed(s) /\ (Watched(s) => InTime(s)))'
    BY ClientsAssumption DEF IdleInv, IdleTypes, Ahead, Drop, Agreed, Watched
  <1> QED BY <1>2, <1>3, OneStation DEF IdleInv
-----------------------------------------------------------------------------
(* Steps of the access point and of time. *)

LEMMA CountedBy ==
    ASSUME NEW r \in Records
    PROVE  /\ Counted(r) \in Records /\ Counted(r).period = r.period
           /\ Counted(r).idle_period = r.idle_period
           /\ r.left = 0 => Counted(r).left = 0
           /\ ~ (r.left = 1 /\ r.cnt + 1 >= Limit)
                => Counted(r).left = 0 \/ SweepsLeft(Counted(r)) = SweepsLeft(r) - 1
  <1>1. r.left \in Nat /\ r.cnt \in 0 .. 2 /\ r.idle_period \in Nat
    BY DEF Records, Limit
  <1>2. CASE r.left # 1
    <2> DEFINE n == IF r.left > 0 THEN r.left - 1 ELSE 0
    <2>1. Counted(r) = [r EXCEPT !.left = n]
      BY <1>2 DEF Counted
    <2>2. n \in Nat /\ (r.left = 0 => n = 0) /\ (r.left > 0 => n = r.left - 1)
      BY <1>1
    <2> HIDE DEF n
    <2>3. /\ Counted(r) \in Records /\ Counted(r).period = r.period /\ Counted(r).left = n
          /\ Counted(r).idle_period = r.idle_period /\ Counted(r).cnt = r.cnt
      BY <2>1, <2>2 DEF Records
    <2>4. (Limit - 1 - r.cnt) * r.idle_period \in Int
      BY <1>1 DEF Limit
    <2> QED BY <1>1, <1>2, <2>2, <2>3, <2>4 DEF SweepsLeft
  <1>3. CASE r.left = 1 /\ r.cnt + 1 >= Limit
    <2>1. Counted(r) = [r EXCEPT !.left = 0, !.cnt = 0]
      BY <1>3 DEF Counted
    <2>2. /\ Counted(r) \in Records /\ Counted(r).period = r.period
          /\ Counted(r).idle_period = r.idle_period /\ Counted(r).left = 0
      <3>1. 0 \in 0 .. Limit - 1 /\ 0 \in Nat
        BY DEF Limit
      <3> QED BY <2>1, <3>1 DEF Records
    <2> QED BY <1>3, <2>2
  <1>4. CASE r.left = 1 /\ ~ (r.cnt + 1 >= Limit)
    <2>1. Counted(r) = [r EXCEPT !.left = r.idle_period, !.cnt = r.cnt + 1]
      BY <1>4 DEF Counted
    <2>2. r.cnt \in {0, 1} /\ r.cnt + 1 \in 0 .. Limit - 1
      BY <1>1, <1>4 DEF Limit
    <2>3. /\ Counted(r) \in Records /\ Counted(r).period = r.period /\ Counted(r).left = r.idle_period
          /\ Counted(r).idle_period = r.idle_period /\ Counted(r).cnt = r.cnt + 1
      BY <1>1, <2>1, <2>2 DEF Records
    <2> QED BY <1>1, <1>4, <2>2, <2>3 DEF SweepsLeft, Limit
  <1> QED BY <1>2, <1>3, <1>4

\* A station that is watched and in time is not given up.
LEMMA NotYet ==
    ASSUME IdleInv, sweep = 0, NEW s \in Stas, Watched(s)
    PROVE  ~ Expired(s)
  <1> SUFFICES ASSUME idle[s].left = 1, idle[s].cnt + 1 >= Limit PROVE FALSE
    BY DEF Expired
  <1>1. LastBeat(s) < sweep + (SweepsLeft(idle[s]) - 1) * Sweep /\ timer[s] # Off
    BY DEF IdleInv, Ahead, InTime
  <1>2. idle[s].cnt = 2 /\ idle[s].idle_period \in Nat
    BY RecordNumbers DEF IdleInv, Limit
  <1>3. SweepsLeft(idle[s]) = 1
    BY <1>2 DEF SweepsLeft, Limit
  <1>4. (MaxLost - lost[s]) * KeepAlive(period[s]) >= 0 /\ (MaxLost - lost[s]) * KeepAlive(period[s]) \in Nat
    <2>1. MaxLost - lost[s] \in Nat /\ KeepAlive(period[s]) \in Nat
      BY RecordNumbers DEF IdleInv
    <2> QED BY <2>1
  <1>5. timer[s] \in Nat
    BY <1>1 DEF IdleInv, IdleTypes
  <1> QED BY <1>1, <1>3, <1>4, <1>5 DEF LastBeat, Sweep

LEMMA SweepsAhead ==
    ASSUME IdleInv, Sweeps
    PROVE  IdleInv'
  <1>1. /\ sweep = 0 /\ sweep' = Sweep /\ idle' = [c \in Stas |-> Counted(idle[c])]
        /\ UNCHANGED <<vif_period, period, timer, lost, silent, state>> /\ kick' \in [Stas -> BOOLEAN]
    BY ClientsAssumption DEF Sweeps, ApSweep, IdleInv, IdleTypes, Expired
  <1>2. ASSUME NEW s \in Stas
        PROVE  /\ idle'[s] \in Records /\ idle'[s].period = idle[s].period
               /\ idle'[s].idle_period = idle[s].idle_period
               /\ idle[s].left = 0 => idle'[s].left = 0
               /\ ~ Expired(s) => idle'[s].left = 0 \/ SweepsLeft(idle'[s]) = SweepsLeft(idle[s]) - 1
    <2>1. idle[s] \in Records /\ idle'[s] = Counted(idle[s])
      BY <1>1 DEF IdleInv, IdleTypes
    <2> QED BY <2>1, CountedBy DEF Expired
  <1>3. IdleTypes'
    BY <1>1, <1>2 DEF IdleInv, IdleTypes, Sweep
  <1>4. ASSUME NEW s \in Stas PROVE Agreed(s)'
    BY <1>1, <1>2 DEF IdleInv, Ahead, Agreed
  <1>5. ASSUME NEW s \in Stas, Watched(s)' PROVE InTime(s)'
    <2>1. Watched(s) /\ InTime(s) /\ ~ Expired(s)
      BY <1>1, <1>5, NotYet DEF Watched, IdleInv, Ahead
    <2>2. LastBeat(s)' = LastBeat(s) /\ LastBeat(s) \in Int
      <3>1. MaxLost - lost[s] \in Int /\ KeepAlive(period[s]) \in Int /\ timer[s] \in Int
        BY RecordNumbers DEF IdleInv, IdleTypes, Off
      <3> QED BY <1>1, <3>1 DEF LastBeat
    <2>3. SweepsLeft(idle[s]) \in Int
      <3>1. idle[s].left \in Int /\ Limit - 1 - idle[s].cnt \in Int /\ idle[s].idle_period \in Int
        BY RecordNumbers DEF IdleInv, Limit
      <3> QED BY <3>1 DEF SweepsLeft
    <2> HIDE DEF SweepsLeft
    <2> QED BY <1>1, <1>2, <2>1, <2>2, <2>3 DEF InTime, Sweep
  <1> QED BY <1>3, <1>4, <1>5 DEF IdleInv, Ahead

\* Time advances to a timer that is due, and no further.
LEMMA NextTimer ==
    ASSUME IdleTypes
    PROVE  \E t \in Armed : \A y \in Armed : t <= y
  <1>1. Armed \subseteq Nat /\ Armed # {}
    BY ClientsAssumption DEF Armed, IdleTypes, Sweep
  <1> QED BY <1>1, Least

LEMMA TickAhead ==
    ASSUME IdleInv, Tick
    PROVE  IdleInv'
  <1>1. PICK t \in Armed : \A y \in Armed : t <= y
    BY NextTimer DEF IdleInv
  <1> DEFINE d == CHOOSE x \in Armed : \A y \in Armed : x <= y
  <1>2. d \in Armed /\ \A y \in Armed : d <= y
    BY <1>1
  <1>3. /\ d > 0 /\ sweep' = sweep - d
        /\ timer' = [c \in Stas |-> IF timer[c] = Off THEN Off ELSE timer[c] - d]
        /\ UNCHANGED <<vif_period, idle, period, lost, silent, state, kick>>
    BY ClientsAssumption DEF Tick, Advance
  <1> HIDE DEF d
  <1>4. d \in Nat /\ d <= sweep /\ \A s \in Stas : timer[s] # Off => d <= timer[s]
    <2>1. Armed \subseteq Nat /\ sweep \in Armed /\ \A s \in Stas : timer[s] # Off => timer[s] \in Armed
      BY ClientsAssumption DEF Armed, IdleInv, IdleTypes, Sweep
    <2> QED BY <1>2, <2>1
  <1>5. sweep' \in 0 .. Sweep
    BY <1>3, <1>4 DEF IdleInv, IdleTypes, Sweep
  <1>6. ASSUME NEW s \in Stas
        PROVE  /\ timer'[s] \in Nat \cup {Off}
               /\ timer[s] = Off => timer'[s] = Off
               /\ timer[s] # Off => timer'[s] = timer[s] - d /\ timer'[s] # Off
    <2>1. timer[s] \in Nat \cup {Off} /\ timer'[s] = IF timer[s] = Off THEN Off ELSE timer[s] - d
      BY <1>3 DEF IdleInv, IdleTypes
    <2> QED BY <1>4, <2>1 DEF Off
  <1>7. IdleTypes'
    BY <1>3, <1>5, <1>6 DEF IdleInv, IdleTypes
  <1>8. ASSUME NEW s \in Stas PROVE Agreed(s)'
    BY <1>3, <1>6 DEF IdleInv, Ahead, Agreed
  <1>9. ASSUME NEW s \in Stas, Watched(s)' PROVE InTime(s)'
    <2>1. Watched(s) /\ InTime(s)
      BY <1>3, <1>9 DEF Watched, IdleInv, Ahead
    <2>2. LastBeat(s)' = LastBeat(s) - d /\ LastBeat(s) \in Int
      <3>1. MaxLost - lost[s] \in Int /\ KeepAlive(period[s]) \in Int /\ timer[s] \in Int
        BY RecordNumbers DEF IdleInv, IdleTypes, Off
      <3>2. (MaxLost - lost[s]) * KeepAlive(period[s]) \in Int
        BY <3>1
      <3> QED BY <1>3, <1>4, <1>6, <2>1, <3>1, <3>2 DEF LastBeat, InTime
    <2>3. SweepsLeft(idle[s]) \in Int /\ sweep \in Int
      <3>1. idle[s].left \in Int /\ Limit - 1 - idle[s].cnt \in Int /\ idle[s].idle_period \in Int
        BY RecordNumbers DEF IdleInv, Limit
      <3> QED BY <3>1, RecordNumbers DEF SweepsLeft, IdleInv
    <2>4. SweepsLeft(idle[s])' = SweepsLeft(idle[s])
      BY <1>3 DEF SweepsLeft
    <2> HIDE DEF SweepsLeft
    <2> QED BY <1>3, <1>4, <1>6, <2>1, <2>2, <2>3, <2>4 DEF InTime, Sweep
  <1> QED BY <1>7, <1>8, <1>9 DEF IdleInv, Ahead

LEMMA IdleSame ==
    ASSUME IdleInv, UNCHANGED <<idle, sweep, period, timer, lost, silent, state, kick>>,
           vif_period' \in Periods \cup {0}
    PROVE  IdleInv'
  <1>1. IdleTypes'
    BY DEF IdleInv, IdleTypes
  <1>2. Ahead'
    BY DEF IdleInv, Ahead, Agreed, Watched, InTime, LastBeat
  <1> QED BY <1>1, <1>2 DEF IdleInv

LEMMA IdleStep == Paced /\ IdleInv /\ [PeersNext]_peersVars => IdleInv'
  <1> SUFFICES ASSUME Paced, IdleInv, [PeersNext]_peersVars PROVE IdleInv'
    OBVIOUS
  <1>1. vif_period \in Periods \cup {0}
    BY DEF IdleInv, IdleTypes
  <1>2. ASSUME NEW s \in Stas, TxData(s) \/ Session(s) PROVE IdleInv'
    BY <1>1, <1>2, IdleSame DEF TxData, Session, Elsewhere, idleVars
  <1>3. CASE SetAmpdu
    BY <1>1, <1>3, IdleSame DEF SetAmpdu, Elsewhere, idleVars
  <1>4. CASE Capi
    BY <1>4, IdleSame DEF Capi, SetPeriod, Periods
  <1>5. CASE UNCHANGED peersVars
    BY <1>1, <1>5, IdleSame DEF peersVars, idleVars
  <1> QED BY <1>2, <1>3, <1>4, <1>5, AuthAhead, AssocAhead, AuthorizeAhead, PortAhead, LeaveAhead,
             VanishAhead, BeatAhead, DropAhead, SweepsAhead, TickAhead DEF PeersNext, Beat

\* The access point never disconnects a station whose keep-alive timer runs
\* (ap_max_idle_period_expire, sta_max_idle_period_expire): between two that are
\* heard there are never as many sweeps as the count allows, wherever in the
\* period of the sweep the station came in.
THEOREM SpecKeptAlive ==
    ASSUME Paced
    PROVE  PeersSpec => KeptAlive
  <1>1. ASSUME IdleInv, PeersNext, NEW s \in Stas, state[s] = "authorized", period[s] > 0,
               timer[s] # Off, ~Twt, ~silent[s]
        PROVE  kick'[s] = kick[s]
    <2>1. CASE Sweeps
      <3>1. ~ Expired(s)
        BY <1>1, <2>1, NotYet DEF Watched, Sweeps, ApSweep
      <3> QED BY <1>1, <2>1, <3>1 DEF Sweeps, IdleInv, IdleTypes
    <2>2. ASSUME NEW x \in Stas, Gone(x) PROVE kick'[s] = kick[s]
      BY <1>1, <2>2 DEF Gone, Goes, IdleInv, IdleTypes
    <2>3. ASSUME NEW x \in Stas,
                 \/ Auth(x) \/ Assoc(x) \/ Authorize(x) \/ Unauthorize(x) \/ Reauthorize(x)
                 \/ Leave(x) \/ StaRemove(x) \/ TxData(x) \/ Session(x) \/ Beat(x) \/ PowerLoss(x)
          PROVE  kick' = kick
      BY <2>3 DEF Auth, Assoc, Authorize, Unauthorize, Reauthorize, Leave, StaRemove, TxData,
                  Session, Elsewhere, Beat, PowerLoss
    <2>4. CASE SetAmpdu \/ Tick \/ Capi
      BY <2>4 DEF SetAmpdu, Elsewhere, Tick, Capi
    <2> QED BY <1>1, <2>1, <2>2, <2>3, <2>4 DEF PeersNext
  <1>2. IdleInv /\ [PeersNext]_peersVars =>
          [\A s \in Stas : /\ state[s] = "authorized" /\ period[s] > 0 /\ timer[s] # Off /\ ~Twt /\ ~silent[s]
                           => kick'[s] = kick[s]]_peersVars
    BY <1>1
  <1>3. IdleInv /\ [PeersNext]_peersVars => IdleInv'
    BY IdleStep
  <1> QED BY <1>2, <1>3, IdleStart, PTL DEF PeersSpec, KeptAlive

\* ... as it is with the driver's own offset: for every period while one
\* keep-alive in a row may get lost, for periods up to 31 units when two may.
COROLLARY KeptAliveByDefault ==
    ASSUME Offset = 0, MaxLost \in {0, 1} \/ (MaxLost = 2 /\ \A p \in Periods : p <= 31)
    PROVE  PeersSpec => KeptAlive
  BY PacedByDefault, SpecKeptAlive

=============================================================================

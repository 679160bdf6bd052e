-------------------------------- MODULE Keys --------------------------------
(* Who encrypts and who decrypts: the keys of a station interface between   *)
(* mac80211, the driver (nrc_mac_set_key, nrc_wim_install_key) and the      *)
(* target, and what the driver tells mac80211 of a received frame.          *)
EXTENDS Integers

CONSTANTS Keys,
          Kind(_),      \* "pair", "group", or "mgmt": the keys that only sign (BIP)
          Known(_),     \* the cipher is one that the target has
          None

ASSUME KeysAssumption ==
    /\ \A k \in Keys : Kind(k) \in {"pair", "group", "mgmt"} /\ Known(k) \in BOOLEAN
    /\ None \notin Keys
    /\ None \notin {"ok", "refused", "dead", "none"}
    /\ \A c \in {"set", "disable"}, k \in Keys : None # [cmd |-> c, key |-> k, answer |-> None]
    /\ \A c \in {"set", "disable"}, k \in Keys, a \in {"ok", "refused", "dead", "none"} :
          None # [cmd |-> c, key |-> k, answer |-> a]

VARIABLES sw_enc,   \* the module's parameter, and what an added interface makes of it
          caps,     \* cap.vif_caps[].cap_mask: hardware security, and the hybrid of the two
          rec,      \* i_sta->ptk, i_sta->gtk: the key last recorded, never cleared
          call,     \* the set_key in progress: mac80211 makes one at a time
          mac,      \* mac80211's view of a key
          tgt,      \* the keys the target has
          late      \* history: a mesh interface was added beside keys the target had
keyVars == <<sw_enc, caps, rec, call, mac, tgt, late>>

Encs == {"hw", "sw", "hybrid"}
Views == {"absent",     \* not there
          "asked",      \* being installed
          "hw",         \* uploaded: the driver returned 0
          "sw",         \* the driver declined without asking the target
          "fallback",   \* the target was asked in vain
          "tainted"}    \* being removed: mac80211 drops what it would encrypt

\* nrc_on_fw_ready: what the firmware offers, cut to the parameter.
CapsOf(enc, offered) == [hwsec |-> offered /\ enc # "sw", hybrid |-> enc = "hybrid"]

KeysInit == /\ \E enc \in Encs, offered \in BOOLEAN :
                  sw_enc = enc /\ caps = CapsOf(enc, offered)
            /\ rec = [d \in {"pair", "group"} |-> None] /\ call = None
            /\ mac = [k \in Keys |-> "absent"] /\ tgt = {} /\ late = FALSE

-----------------------------------------------------------------------------
(* nrc_mac_set_key *)

InUse == {k \in Keys : mac[k] \in {"hw", "sw", "fallback"}}
Becomes(k, v) == mac' = [mac EXCEPT ![k] = v]

\* The keys the driver leaves to mac80211 without asking the target.
Declines(k) == \/ sw_enc = "sw" \/ ~caps.hwsec \/ Kind(k) = "mgmt"
               \/ caps.hybrid /\ Kind(k) = "group"

\* Mutant: the key is recorded before it is known who is to use it.
SetKeyEarly(k) == /\ call = None /\ mac[k] = "absent"
                  /\ Kind(k) = "pair" => \A j \in InUse : Kind(j) # "pair"
                  /\ rec' = IF Kind(k) = "mgmt" THEN rec ELSE [rec EXCEPT ![Kind(k)] = k]
                  /\ IF Declines(k) THEN Becomes(k, "sw") /\ UNCHANGED call
                     ELSE /\ call' = [cmd |-> "set", key |-> k, answer |-> None]
                          /\ Becomes(k, "asked")
                  /\ UNCHANGED <<sw_enc, caps, tgt, late>>

\* A pairwise key is set when the one before has been removed. The record is made
\* before the target is asked, and stays whatever the answer is.
SetKey(k) == /\ call = None /\ mac[k] = "absent"
             /\ Kind(k) = "pair" => \A j \in InUse : Kind(j) # "pair"
             /\ IF Declines(k) THEN Becomes(k, "sw") /\ UNCHANGED <<rec, call>>
                ELSE /\ rec' = [rec EXCEPT ![Kind(k)] = k]
                     /\ call' = [cmd |-> "set", key |-> k, answer |-> None]
                     /\ Becomes(k, "asked")
             /\ UNCHANGED <<sw_enc, caps, tgt, late>>

\* mac80211 asks only for the removal of keys it has uploaded.
DisableKey(k) ==
    /\ call = None /\ k \in InUse
    /\ IF mac[k] # "hw" \/ Declines(k) THEN Becomes(k, "absent") /\ UNCHANGED call
       ELSE /\ call' = [cmd |-> "disable", key |-> k, answer |-> None]
            /\ Becomes(k, "tainted")
    /\ UNCHANGED <<sw_enc, caps, rec, tgt, late>>

\* The target: one pairwise key, group keys by their index. A request or its
\* answer may get lost ("none"); "dead" says that message 4 was not sent.
Installed(k) == {j \in tgt : Kind(j) = "group" \/ Kind(k) = "group"} \cup {k}
Target == /\ call # None /\ call.answer = None
          /\ \E a \in {"ok", "refused", "dead", "none"} :
                /\ call' = [call EXCEPT !.answer = a]
                /\ a = "dead" => call.cmd = "set" /\ Kind(call.key) = "pair"
                /\ a = "ok" => call.cmd = "disable" \/ Known(call.key)
                /\ \/ a \in {"refused", "dead", "none"} /\ UNCHANGED tgt
                   \/ /\ a \in {"ok", "none"}
                      /\ IF call.cmd = "disable" THEN tgt' = tgt \ {call.key}
                         ELSE Known(call.key) /\ tgt' = Installed(call.key)
          /\ UNCHANGED <<sw_enc, caps, rec, mac, late>>

\* nrc_wim_install_key returns: a refusal and a time-out become software
\* encryption, the lost message 4 an error with which mac80211 gives the key up.
Answered(a) == CASE a = "ok" -> "hw" [] a = "dead" -> "absent" [] OTHER -> "fallback"
Returns == /\ call # None /\ call.answer # None
           /\ Becomes(call.key, IF call.cmd = "set" THEN Answered(call.answer) ELSE "absent")
           /\ call' = None
           /\ UNCHANGED <<sw_enc, caps, rec, tgt, late>>

\* force_sw_enc_mode_by_sta_type, when a mesh interface is added beside this one:
\* the capabilities stay as they are.
AddMesh == /\ sw_enc = "hw" /\ sw_enc' = "sw"
           /\ late' = (late \/ call # None \/ tgt # {})
           /\ UNCHANGED <<caps, rec, call, mac, tgt>>

-----------------------------------------------------------------------------
(* A frame under key k *)

\* mac80211 encrypts unless the key is uploaded; then nrc_xmit_frame names the
\* cipher to the target.
HostEncrypts(k) == mac[k] \in {"sw", "fallback"}
TargetEncrypts(k) == mac[k] = "hw" /\ k \in tgt

\* rx_h_decrypt: the frame is passed on as decrypted. Frames that are only signed are not protected.
Flagged(k) == /\ Kind(k) # "mgmt" /\ caps.hwsec /\ sw_enc # "sw"
              /\ rec[Kind(k)] # None
TargetDecrypts(k) == k \in tgt

=============================================================================

-------------------------------- MODULE Memo --------------------------------
(***************************************************************************)
(* What the command cache promises, whatever its mechanism: it remembers   *)
(* answers it may forget at any time, and an answer may be remembered only *)
(* if no reset happened since the caller that brings it looked for it.     *)
(* CacheCallers implements this specification: see Promise there.          *)
(***************************************************************************)
CONSTANTS Callers, Keys, Answers

VARIABLES memo,      \* key -> answer, for the keys remembered now
          fresh      \* the callers whose lookup no reset has followed

memoVars == <<memo, fresh>>

MemoInit == /\ memo = [k \in {} |-> 0]
            /\ fresh = {}

(* Some answers are forgotten; the ones kept are unchanged.                *)
Keeps(old, new, ks) == /\ ks \subseteq DOMAIN old
                       /\ DOMAIN new = ks
                       /\ \A k \in ks : new[k] = old[k]

Look(c) == /\ fresh' = fresh \cup {c}
           /\ \E ks \in SUBSET DOMAIN memo : Keeps(memo, memo', ks)

GiveUp(c) == /\ fresh' = fresh \ {c}
             /\ UNCHANGED memo

Remember(c, k, v) ==
    /\ c \in fresh
    /\ fresh' = fresh \ {c}
    /\ DOMAIN memo' \subseteq DOMAIN memo \cup {k}
    /\ k \in DOMAIN memo'
    /\ memo'[k] = v
    /\ \A j \in DOMAIN memo' \ {k} : memo'[j] = memo[j]

Reset == /\ memo' = [k \in {} |-> 0]
         /\ fresh' = {}

MemoNext == \/ \E c \in Callers : Look(c) \/ GiveUp(c)
            \/ \E c \in Callers, k \in Keys, v \in Answers : Remember(c, k, v)
            \/ Reset

MemoSpec == MemoInit /\ [][MemoNext]_memoVars
=============================================================================

--------------------------- MODULE AuditLogProofs ---------------------------
(***************************************************************************)
(* Theorems about AuditLog.                                                *)
(*                                                                         *)
(* The first part is about verification as such: what follows of any lines *)
(* that verify, whatever wrote them.  It needs that a set of lines has a   *)
(* first and a last one, which comes from the well-foundedness of <.       *)
(*                                                                         *)
(* The second part is about the sink: an invariant that relates the lines, *)
(* in the files and with the reader, to what was written by whom and when. *)
(***************************************************************************)
EXTENDS AuditLog, SequenceTheorems, WellFoundedInduction, TLAPS

----------------------------------------------------------------------------
(* First and last elements.                                                *)

(* A set of natural numbers has a least element.                           *)
LEMMA LeastNatural ==
    ASSUME NEW T, T \subseteq Nat, T # {}
    PROVE  \E x \in T : \A y \in T : x <= y
<1>1. IsWellFoundedOn(OpToRel(<, Nat), Nat)
  BY NatLessThanWellFounded
<1>2. \A x, y \in Nat : y < x => <<y, x>> \in OpToRel(<, Nat)
  BY DEF OpToRel
<1>3. PICK x \in T : \A y \in T : ~ (<<y, x>> \in OpToRel(<, Nat))
  <2> HIDE DEF OpToRel
  <2> QED  BY <1>1, WFMin
<1>4. ASSUME NEW y \in T  PROVE x <= y
  <2>1. x \in Nat /\ y \in Nat  OBVIOUS
  <2>2. ~ (y < x)  BY <2>1, <1>2, <1>3
  <2> QED  BY <2>1, <2>2
<1> QED  BY <1>4

(* A bounded one has a greatest.                                           *)
LEMMA GreatestNatural ==
    ASSUME NEW N \in Nat, NEW T, T \subseteq 0..N, T # {}
    PROVE  \E x \in T : \A y \in T : y <= x
<1> DEFINE U == {N - x : x \in T}
<1>1. U \subseteq Nat /\ U # {}
  <2>1. \A x \in T : x \in 0..N  OBVIOUS
  <2>2. \A x \in T : N - x \in Nat  BY <2>1
  <2> QED BY <2>2
<1>2. PICK u \in U : \A v \in U : u <= v
  <2> HIDE DEF U
  <2> QED  BY <1>1, LeastNatural
<1>3. PICK x \in T : u = N - x  BY <1>2
<1>4. ASSUME NEW y \in T  PROVE y <= x
  <2>1. N - y \in U  OBVIOUS
  <2>2. x \in 0..N /\ y \in 0..N  OBVIOUS
  <2>3. N - x <= N - y  BY <2>1, <1>2, <1>3
  <2> QED  BY <2>2, <2>3
<1> QED  BY <1>4

(* What a line has for its trace; a torn one has none.                     *)
Names == {IdOf[t] : t \in Traces} \cup {""}

Lines == [chain : Nat, trace : Names, seq : Nat, prev : Nat, hash : Nat, at : Nat]

Days == 0..(MaxClock \div TicksPerDay)

(* Files with their lines: what log and reader.got are.                    *)
AreFiles(es) == /\ es = [d \in DOMAIN es |-> es[d]]
                /\ DOMAIN es \subseteq Days
                /\ \A d \in DOMAIN es : es[d] \in Seq(Lines)

(* What a place is.                                                        *)
LEMMA PlaceFacts ==
    ASSUME NEW es, AreFiles(es)
    PROVE  \A p : p \in Places(es) <=> /\ p = <<p[1], p[2]>>
                                       /\ p[1] \in DOMAIN es
                                       /\ p[2] \in 1..Len(es[p[1]])
<1>1. \A d \in DOMAIN es : DOMAIN es[d] = 1..Len(es[d])
  BY DEF AreFiles
<1>2. ASSUME NEW p \in Places(es)
      PROVE  p = <<p[1], p[2]>> /\ p[1] \in DOMAIN es /\ p[2] \in 1..Len(es[p[1]])
  BY <1>1, <1>2 DEF Places
<1>3. ASSUME NEW p, p = <<p[1], p[2]>>, p[1] \in DOMAIN es, p[2] \in 1..Len(es[p[1]])
      PROVE  p \in Places(es)
  <2>1. p \in {p[1]} \X DOMAIN es[p[1]]  BY <1>1, <1>3
  <2> QED  BY <2>1, <1>3 DEF Places
<1> QED  BY <1>2, <1>3

(* The parts of a place are numbers, and what stands there is a line.      *)
LEMMA PlaceTypes ==
    ASSUME NEW es, AreFiles(es), NEW p \in Places(es)
    PROVE  /\ p = <<p[1], p[2]>>
           /\ p[1] \in Nat /\ p[1] \in Days /\ p[1] \in DOMAIN es
           /\ p[2] \in Nat /\ p[2] \in 1..Len(es[p[1]])
           /\ es[p[1]] \in Seq(Lines)
           /\ At(es, p) \in Lines
<1>1. /\ p = <<p[1], p[2]>> /\ p[1] \in DOMAIN es /\ p[2] \in 1..Len(es[p[1]])
  BY PlaceFacts
<1>2. es[p[1]] \in Seq(Lines) /\ p[1] \in Days
  BY <1>1 DEF AreFiles
<1>3. p[1] \in Nat
  BY <1>2 DEF Days
<1> QED  BY <1>1, <1>2, <1>3 DEF At

(* The order of places is a total one.                                     *)
LEMMA PlacesAreOrdered ==
    ASSUME NEW es, AreFiles(es)
    PROVE  /\ \A p \in Places(es) : ~ Before(p, p)
           /\ \A p, q \in Places(es) : p = q \/ Before(p, q) \/ Before(q, p)
           /\ \A p, q \in Places(es) : ~ (Before(p, q) /\ Before(q, p))
           /\ \A p, q, r \in Places(es) : Before(p, q) /\ Before(q, r) => Before(p, r)
<1>1. \A p \in Places(es) : p = <<p[1], p[2]>> /\ p[1] \in Nat /\ p[2] \in Nat
  BY PlaceTypes
<1> QED  BY <1>1 DEF Before, Earlier

(* Of some places one is the first,                                        *)
LEMMA FirstPlace ==
    ASSUME NEW es, AreFiles(es), NEW C, C \subseteq Places(es), C # {}
    PROVE  \E p \in C : \A q \in C : q = p \/ Before(p, q)
<1> DEFINE D == {p[1] : p \in C}
<1>1. \A p \in C : p = <<p[1], p[2]>> /\ p[1] \in Nat /\ p[2] \in Nat
  BY PlaceTypes
<1>2. PICK d \in D : \A e \in D : d <= e
  <2>1. D \subseteq Nat /\ D # {}  BY <1>1
  <2> HIDE DEF D
  <2> QED  BY <2>1, LeastNatural
<1> DEFINE N == {p[2] : p \in {q \in C : q[1] = d}}
<1>3. PICK n \in N : \A m \in N : n <= m
  <2>1. N \subseteq Nat /\ N # {}  BY <1>1, <1>2
  <2> HIDE DEF N
  <2> QED  BY <2>1, LeastNatural
<1>4. PICK p \in C : p[1] = d /\ p[2] = n  BY <1>3
<1>5. ASSUME NEW q \in C  PROVE q = p \/ Before(p, q)
  <2>1. d <= q[1] /\ (q[1] = d => n <= q[2])  BY <1>2, <1>3
  <2> QED  BY <2>1, <1>1, <1>4 DEF Before, Earlier
<1> QED  BY <1>5

(* and one is the last.                                                    *)
LEMMA LastPlace ==
    ASSUME NEW es, AreFiles(es), NEW C, C \subseteq Places(es), C # {},
           MaxClock \div TicksPerDay \in Nat
    PROVE  \E p \in C : \A q \in C : q = p \/ Before(q, p)
<1> DEFINE D == {p[1] : p \in C}
<1>1. \A p \in C : p = <<p[1], p[2]>> /\ p[1] \in Nat /\ p[2] \in Nat /\ p[1] \in Days
  BY PlaceTypes
<1>2. PICK d \in D : \A e \in D : e <= d
  <2>1. D \subseteq 0..(MaxClock \div TicksPerDay) /\ D # {}  BY <1>1 DEF Days
  <2> HIDE DEF D
  <2> QED  BY <2>1, GreatestNatural
<1> DEFINE N == {p[2] : p \in {q \in C : q[1] = d}}
<1>3. PICK n \in N : \A m \in N : m <= n
  <2>1. PICK c \in C : c[1] = d  BY <1>2
  <2>2. N # {}  BY <2>1
  <2>3. \A p \in C : p[1] = d => p[2] \in 1..Len(es[d])  BY PlaceTypes
  <2>4. Len(es[d]) \in Nat  BY <2>1, PlaceTypes
  <2>5. N \subseteq 0..Len(es[d])  BY <2>3, <2>4
  <2> HIDE DEF N
  <2> QED  BY <2>2, <2>4, <2>5, GreatestNatural
<1>4. PICK p \in C : p[1] = d /\ p[2] = n  BY <1>3
<1>5. ASSUME NEW q \in C  PROVE q = p \/ Before(q, p)
  <2>1. q[1] <= d /\ (q[1] = d => q[2] <= n)  BY <1>2, <1>3
  <2> QED  BY <2>1, <1>1, <1>4 DEF Before, Earlier
<1> QED  BY <1>5

----------------------------------------------------------------------------
(* What follows of lines that verify.                                      *)

(* The day of a place is bounded, as the clock is.                         *)
LEMMA LastDay == MaxClock \div TicksPerDay \in Nat
BY AuditAssumptions

(* A line that another of its chain follows is named by the next one.      *)
LEMMA NextInChain ==
    ASSUME NEW es, AreFiles(es), Verify(es),
           NEW p \in Places(es), NEW q \in Places(es),
           Before(p, q), SameChain(At(es, p), At(es, q))
    PROVE  \E s \in Places(es) :
              /\ Before(p, s) /\ (s = q \/ Before(s, q))
              /\ SameChain(At(es, p), At(es, s))
              /\ At(es, s).prev = At(es, p).hash
              /\ \A m \in Between(es, p, s) : ~ SameChain(At(es, m), At(es, s))
<1> DEFINE C == {r \in Places(es) : Before(p, r) /\ SameChain(At(es, p), At(es, r))}
<1>1. PICK s \in C : \A r \in C : r = s \/ Before(s, r)
  <2>1. C \subseteq Places(es) /\ C # {}  OBVIOUS
  <2> HIDE DEF C
  <2> QED  BY <2>1, FirstPlace
<1>2. \A m \in Between(es, p, s) : ~ SameChain(At(es, m), At(es, s))
  <2> SUFFICES ASSUME NEW m \in Between(es, p, s), SameChain(At(es, m), At(es, s))
               PROVE  FALSE
    OBVIOUS
  <2>1. m \in Places(es) /\ Before(p, m) /\ Before(m, s)  BY DEF Between
  <2>2. m \in C  BY <2>1, <1>1 DEF SameChain
  <2> QED  BY <2>1, <2>2, <1>1, PlacesAreOrdered
<1>3. Consecutive(es, p, s, SameChain)
  BY <1>1, <1>2 DEF Consecutive
<1>4. At(es, s).prev = At(es, p).hash
  BY <1>3, <1>1 DEF Verify
<1>5. s = q \/ Before(s, q)
  BY <1>1
<1> QED  BY <1>1, <1>2, <1>4, <1>5

(* A line that follows another of its chain names the one before it.       *)
LEMMA LastInChain ==
    ASSUME NEW es, AreFiles(es), Verify(es),
           NEW p \in Places(es), NEW q \in Places(es),
           Before(p, q), SameChain(At(es, p), At(es, q))
    PROVE  \E s \in Places(es) :
              /\ Before(s, q)
              /\ SameChain(At(es, s), At(es, q))
              /\ At(es, q).prev = At(es, s).hash
              /\ \A m \in Between(es, s, q) : ~ SameChain(At(es, m), At(es, q))
<1> DEFINE C == {r \in Places(es) : Before(r, q) /\ SameChain(At(es, r), At(es, q))}
<1>1. PICK s \in C : \A r \in C : r = s \/ Before(r, s)
  <2>1. C \subseteq Places(es) /\ C # {}  OBVIOUS
  <2> HIDE DEF C
  <2> QED  BY <2>1, LastPlace, LastDay
<1>2. \A m \in Between(es, s, q) : ~ SameChain(At(es, m), At(es, q))
  <2> SUFFICES ASSUME NEW m \in Between(es, s, q), SameChain(At(es, m), At(es, q))
               PROVE  FALSE
    OBVIOUS
  <2>1. m \in Places(es) /\ Before(s, m) /\ Before(m, q)  BY DEF Between
  <2>2. m \in C  BY <2>1
  <2> QED  BY <2>1, <2>2, <1>1, PlacesAreOrdered
<1>3. Consecutive(es, s, q, SameChain)
  BY <1>1, <1>2 DEF Consecutive
<1>4. At(es, q).prev = At(es, s).hash
  BY <1>3, <1>1 DEF Verify
<1> QED  BY <1>1, <1>2, <1>4

(* Of two lines of a trace the first is followed by its next number, at    *)
(* the latest at the place of the second.                                  *)
LEMMA NextInTrace ==
    ASSUME NEW es, AreFiles(es), Verify(es),
           NEW p \in Places(es), NEW q \in Places(es),
           Before(p, q), SameTrace(At(es, p), At(es, q))
    PROVE  \E s \in Places(es) :
              /\ Before(p, s) /\ (s = q \/ Before(s, q))
              /\ SameTrace(At(es, p), At(es, s))
              /\ At(es, s).seq = At(es, p).seq + 1
<1> DEFINE C == {r \in Places(es) : Before(p, r) /\ SameTrace(At(es, p), At(es, r))}
<1>1. PICK s \in C : \A r \in C : r = s \/ Before(s, r)
  <2>1. C \subseteq Places(es) /\ C # {}  OBVIOUS
  <2> HIDE DEF C
  <2> QED  BY <2>1, FirstPlace
<1>2. \A m \in Between(es, p, s) : ~ SameTrace(At(es, m), At(es, s))
  <2> SUFFICES ASSUME NEW m \in Between(es, p, s), SameTrace(At(es, m), At(es, s))
               PROVE  FALSE
    OBVIOUS
  <2>1. m \in Places(es) /\ Before(p, m) /\ Before(m, s)  BY DEF Between
  <2>2. m \in C  BY <2>1, <1>1 DEF SameTrace
  <2> QED  BY <2>1, <2>2, <1>1, PlacesAreOrdered
<1>3. Consecutive(es, p, s, SameTrace)
  BY <1>1, <1>2 DEF Consecutive
<1>4. At(es, s).seq = At(es, p).seq + 1
  BY <1>3, <1>1 DEF Verify
<1>5. s = q \/ Before(s, q)
  BY <1>1
<1> QED  BY <1>1, <1>4, <1>5

(* The numbers of a trace grow from line to line,                          *)
LEMMA NumbersGrow ==
    ASSUME NEW es, AreFiles(es), Verify(es),
           NEW p \in Places(es), NEW q \in Places(es),
           Before(p, q), SameTrace(At(es, p), At(es, q))
    PROVE  At(es, p).seq < At(es, q).seq
<1> DEFINE C == {r \in Places(es) : /\ Before(p, r) /\ (r = q \/ Before(r, q))
                                    /\ SameTrace(At(es, p), At(es, r))
                                    /\ At(es, p).seq < At(es, r).seq}
<1>1. C # {}
  <2>1. PICK s \in Places(es) : /\ Before(p, s) /\ (s = q \/ Before(s, q))
                                /\ SameTrace(At(es, p), At(es, s))
                                /\ At(es, s).seq = At(es, p).seq + 1
    BY NextInTrace
  <2>2. At(es, p).seq \in Nat  BY PlaceTypes DEF Lines
  <2> QED  BY <2>1, <2>2
<1>2. PICK r \in C : \A c \in C : c = r \/ Before(c, r)
  <2>1. C \subseteq Places(es)  OBVIOUS
  <2> HIDE DEF C
  <2> QED  BY <2>1, <1>1, LastPlace, LastDay
<1>3. CASE r = q
  BY <1>2, <1>3
<1>4. CASE r # q
  <2>1. Before(r, q) /\ SameTrace(At(es, r), At(es, q))
    BY <1>2, <1>4 DEF SameTrace
  <2>2. PICK s \in Places(es) : /\ Before(r, s) /\ (s = q \/ Before(s, q))
                                /\ SameTrace(At(es, r), At(es, s))
                                /\ At(es, s).seq = At(es, r).seq + 1
    BY <2>1, NextInTrace
  <2>3. Before(p, s) /\ SameTrace(At(es, p), At(es, s))
    BY <2>2, <1>2, PlacesAreOrdered DEF SameTrace
  <2>4. At(es, p).seq < At(es, s).seq
    <3>1. At(es, p).seq \in Nat /\ At(es, r).seq \in Nat  BY PlaceTypes DEF Lines
    <3> QED  BY <3>1, <2>2, <1>2
  <2>5. s \in C  BY <2>2, <2>3, <2>4
  <2> QED  BY <2>2, <2>5, <1>2, PlacesAreOrdered
<1> QED  BY <1>3, <1>4

(* and none is left out.                                                   *)
LEMMA NoNumberIsLeftOut ==
    ASSUME NEW es, AreFiles(es), Verify(es),
           NEW p \in Places(es), NEW q \in Places(es),
           Before(p, q), SameTrace(At(es, p), At(es, q)),
           NEW k \in Nat, At(es, p).seq <= k, k <= At(es, q).seq
    PROVE  \E r \in Places(es) : /\ SameTrace(At(es, p), At(es, r))
                                 /\ At(es, r).seq = k
<1> SUFFICES ASSUME \A r \in Places(es) : SameTrace(At(es, p), At(es, r))
                                             => At(es, r).seq # k
             PROVE  FALSE
  OBVIOUS
<1> DEFINE C == {r \in Places(es) : /\ (r = p \/ Before(p, r)) /\ Before(r, q)
                                    /\ SameTrace(At(es, p), At(es, r))
                                    /\ At(es, r).seq < k}
<1>1. \A r \in Places(es) : At(es, r).seq \in Nat
  BY PlaceTypes DEF Lines
<1>2. p \in C
  <2>1. SameTrace(At(es, p), At(es, p))  BY DEF SameTrace
  <2>2. At(es, p).seq # k  BY <2>1
  <2> QED  BY <2>1, <2>2, <1>1
<1>3. PICK r \in C : \A c \in C : c = r \/ Before(c, r)
  <2>1. C \subseteq Places(es) /\ C # {}  BY <1>2
  <2> HIDE DEF C
  <2> QED  BY <2>1, LastPlace, LastDay
<1>4. SameTrace(At(es, r), At(es, q))
  BY <1>3 DEF SameTrace
<1>5. PICK s \in Places(es) : /\ Before(r, s) /\ (s = q \/ Before(s, q))
                              /\ SameTrace(At(es, r), At(es, s))
                              /\ At(es, s).seq = At(es, r).seq + 1
  BY <1>3, <1>4, NextInTrace
<1>6. SameTrace(At(es, p), At(es, s))
  BY <1>3, <1>5 DEF SameTrace
<1>7. At(es, s).seq < k
  <2>1. At(es, s).seq # k  BY <1>6
  <2> QED  BY <2>1, <1>1, <1>3, <1>5
<1>8. s # q
  BY <1>7, <1>1
<1>9. s \in C
  <2>1. Before(p, s)  BY <1>3, <1>5, PlacesAreOrdered
  <2> QED  BY <2>1, <1>5, <1>6, <1>7, <1>8
<1> QED  BY <1>5, <1>9, <1>3, PlacesAreOrdered

----------------------------------------------------------------------------
(* Tampering.                                                              *)

(* No line names itself or a later one, and none has the hash of another.  *)
Unforged(es) ==
    /\ \A p \in Places(es) : At(es, p) # Torn => At(es, p).prev < At(es, p).hash
    /\ \A p, q \in Places(es) :
          At(es, p) # Torn /\ At(es, p).hash = At(es, q).hash => p = q

(* What stands where after two lines are exchanged.                        *)
LEMMA ExchangedFacts ==
    ASSUME NEW es, AreFiles(es), NEW p \in Places(es), NEW q \in Places(es)
    PROVE  /\ AreFiles(Exchanged(es, p, q))
           /\ Places(Exchanged(es, p, q)) = Places(es)
           /\ \A r \in Places(es) :
                 At(Exchanged(es, p, q), r) = IF r = q THEN At(es, p)
                                              ELSE IF r = p THEN At(es, q)
                                              ELSE At(es, r)
<1> DEFINE x == Exchanged(es, p, q)
<1>1. /\ p = <<p[1], p[2]>> /\ q = <<q[1], q[2]>>
      /\ p[1] \in DOMAIN es /\ q[1] \in DOMAIN es
      /\ p[2] \in 1..Len(es[p[1]]) /\ q[2] \in 1..Len(es[q[1]])
      /\ At(es, p) \in Lines /\ At(es, q) \in Lines
  BY PlaceTypes
<1> DEFINE y == [es EXCEPT ![p[1]] = [@ EXCEPT ![p[2]] = At(es, q)]]
<1>2. x = [y EXCEPT ![q[1]] = [@ EXCEPT ![q[2]] = At(es, p)]]
  BY DEF Exchanged
<1>3. /\ DOMAIN y = DOMAIN es /\ y = [d \in DOMAIN y |-> y[d]]
      /\ \A d \in DOMAIN es : y[d] = IF d = p[1] THEN [es[d] EXCEPT ![p[2]] = At(es, q)]
                                     ELSE es[d]
  BY DEF AreFiles
<1>4. /\ DOMAIN x = DOMAIN es /\ x = [d \in DOMAIN x |-> x[d]]
      /\ \A d \in DOMAIN es : x[d] = IF d = q[1] THEN [y[d] EXCEPT ![q[2]] = At(es, p)]
                                     ELSE y[d]
  <2> HIDE DEF y, x
  <2> QED  BY <1>2, <1>3
<1>5. \A d \in DOMAIN es : y[d] \in Seq(Lines) /\ Len(y[d]) = Len(es[d])
  <2> TAKE d \in DOMAIN es
  <2>1. es[d] \in Seq(Lines)  BY DEF AreFiles
  <2>2. At(es, q) \in Lines /\ (d = p[1] => p[2] \in 1..Len(es[d]))  BY <1>1
  <2> HIDE DEF y
  <2> QED  BY <2>1, <2>2, <1>3, ExceptSeq
<1>6. \A d \in DOMAIN es : x[d] \in Seq(Lines) /\ Len(x[d]) = Len(es[d])
  <2> TAKE d \in DOMAIN es
  <2>1. y[d] \in Seq(Lines) /\ Len(y[d]) = Len(es[d])  BY <1>5
  <2> HIDE DEF y, x
  <2>2. CASE d = q[1]
    <3>1. x[d] = [y[d] EXCEPT ![q[2]] = At(es, p)]  BY <2>2, <1>4
    <3>2. At(es, p) \in Lines /\ q[2] \in 1..Len(y[d])  BY <1>1, <2>1, <2>2
    <3>3. /\ [y[d] EXCEPT ![q[2]] = At(es, p)] \in Seq(Lines)
          /\ Len([y[d] EXCEPT ![q[2]] = At(es, p)]) = Len(y[d])
      BY <3>2, <2>1, ExceptSeq
    <3> QED  BY <3>1, <3>3, <2>1
  <2>3. CASE d # q[1]
    BY <2>1, <2>3, <1>4
  <2> QED  BY <2>2, <2>3
<1>7. AreFiles(x)
  <2> HIDE DEF x
  <2> QED  BY <1>4, <1>6 DEF AreFiles
<1>8. Places(x) = Places(es)
  <2>1. \A d \in DOMAIN es : DOMAIN x[d] = DOMAIN es[d]
    <3> TAKE d \in DOMAIN es
    <3>1. es[d] \in Seq(Lines)  BY DEF AreFiles
    <3> HIDE DEF x
    <3> QED  BY <3>1, <1>6
  <2> HIDE DEF x
  <2> QED  BY <2>1, <1>4 DEF Places
<1>9. \A r \in Places(es) : At(x, r) = IF r = q THEN At(es, p)
                                       ELSE IF r = p THEN At(es, q) ELSE At(es, r)
  <2> TAKE r \in Places(es)
  <2>1. /\ r = <<r[1], r[2]>> /\ r[1] \in DOMAIN es /\ r[2] \in 1..Len(es[r[1]])
        /\ es[r[1]] \in Seq(Lines)
    BY PlaceTypes
  <2>2. y[r[1]] \in Seq(Lines) /\ Len(y[r[1]]) = Len(es[r[1]])
    BY <1>5, <2>1
  <2>3. At(y, r) = IF r = p THEN At(es, q) ELSE At(es, r)
    <3> HIDE DEF y
    <3>1. CASE r[1] = p[1]
      <4>1. y[r[1]] = [es[r[1]] EXCEPT ![p[2]] = At(es, q)]  BY <3>1, <1>3, <2>1
      <4>2. y[r[1]][r[2]] = IF r[2] = p[2] THEN At(es, q) ELSE es[r[1]][r[2]]
        BY <4>1, <2>1
      <4> QED  BY <4>2, <3>1, <2>1, <1>1 DEF At
    <3>2. CASE r[1] # p[1]
      BY <3>2, <1>3, <2>1 DEF At
    <3> QED  BY <3>1, <3>2
  <2>4. At(x, r) = IF r = q THEN At(es, p) ELSE At(y, r)
    <3> HIDE DEF x, y
    <3>1. CASE r[1] = q[1]
      <4>1. x[r[1]] = [y[r[1]] EXCEPT ![q[2]] = At(es, p)]  BY <3>1, <1>4, <2>1
      <4>2. x[r[1]][r[2]] = IF r[2] = q[2] THEN At(es, p) ELSE y[r[1]][r[2]]
        BY <4>1, <2>1, <2>2
      <4> QED  BY <4>2, <3>1, <2>1, <1>1 DEF At
    <3>2. CASE r[1] # q[1]
      BY <3>2, <1>4, <2>1 DEF At
    <3> QED  BY <3>1, <3>2
  <2> HIDE DEF x, y
  <2> QED  BY <2>3, <2>4
<1> QED  BY <1>7, <1>8, <1>9

(* The exchange of two lines of a chain shows: the line after the first of *)
(* them names the first, and not the second.                               *)
LEMMA ExchangeShows ==
    ASSUME NEW es, AreFiles(es), Verify(es), Unforged(es),
           NEW p \in Places(es), NEW q \in Places(es),
           Before(p, q), SameChain(At(es, p), At(es, q))
    PROVE  ~ Verify(Exchanged(es, p, q))
<1> SUFFICES ASSUME Verify(Exchanged(es, p, q))  PROVE FALSE
  OBVIOUS
<1> DEFINE x == Exchanged(es, p, q)
<1>1. PICK s \in Places(es) : /\ Before(p, s) /\ (s = q \/ Before(s, q))
                              /\ SameChain(At(es, p), At(es, s))
                              /\ At(es, s).prev = At(es, p).hash
                              /\ \A m \in Between(es, p, s) :
                                    ~ SameChain(At(es, m), At(es, s))
  BY NextInChain
<1>2. /\ Places(x) = Places(es)
      /\ \A r \in Places(es) : At(x, r) = IF r = q THEN At(es, p)
                                          ELSE IF r = p THEN At(es, q) ELSE At(es, r)
  BY ExchangedFacts
<1>3. p # q /\ p # s
  BY <1>1, PlacesAreOrdered
<1>4. \A r \in {p, q, s} : At(x, r).chain = At(es, p).chain
  BY <1>1, <1>2 DEF SameChain
<1>5. Between(x, p, s) = Between(es, p, s)
  BY <1>2 DEF Between
<1>6. \A m \in Between(es, p, s) : At(x, m) = At(es, m)
  <2> TAKE m \in Between(es, p, s)
  <2>1. m \in Places(es) /\ Before(p, m) /\ Before(m, s)  BY DEF Between
  <2>2. m # p /\ m # q  BY <2>1, <1>1, PlacesAreOrdered
  <2> HIDE DEF x
  <2> QED  BY <2>1, <2>2, <1>2
<1>7. Consecutive(x, p, s, SameChain)
  <2>1. \A m \in Between(x, p, s) : ~ SameChain(At(x, m), At(x, s))
    <3> HIDE DEF x
    <3> QED  BY <1>1, <1>4, <1>5, <1>6 DEF SameChain
  <2>2. SameChain(At(x, p), At(x, s))
    <3> HIDE DEF x
    <3> QED  BY <1>4 DEF SameChain
  <2> HIDE DEF x
  <2> QED  BY <2>1, <2>2, <1>1 DEF Consecutive
<1>8. At(x, s).prev = At(x, p).hash
  <2>1. Verify(x)  OBVIOUS
  <2> HIDE DEF x
  <2> QED  BY <2>1, <1>7, <1>2 DEF Verify
<1>9. At(x, p).hash = At(es, q).hash
  <2> HIDE DEF x
  <2> QED  BY <1>2, <1>3
<1>10. At(es, p) # Torn /\ At(es, q) # Torn
  BY DEF Verify
<1>11. CASE s = q
  <2>1. At(es, p).prev = At(es, q).hash
    <3> HIDE DEF x
    <3> QED  BY <1>2, <1>8, <1>9, <1>11
  <2>2. At(es, q).prev = At(es, p).hash
    BY <1>1, <1>11
  <2>3. At(es, p).prev < At(es, p).hash /\ At(es, q).prev < At(es, q).hash
    BY <1>10 DEF Unforged
  <2>4. At(es, p) \in Lines /\ At(es, q) \in Lines
    BY PlaceTypes
  <2> QED  BY <2>1, <2>2, <2>3, <2>4 DEF Lines
<1>12. CASE s # q
  <2>1. At(es, s).prev = At(es, q).hash
    <3> HIDE DEF x
    <3> QED  BY <1>2, <1>3, <1>8, <1>9, <1>12
  <2>2. At(es, p).hash = At(es, q).hash
    BY <2>1, <1>1
  <2> QED  BY <2>2, <1>3, <1>10 DEF Unforged
<1> QED  BY <1>11, <1>12

(* Where a line stands after the one at m is removed.                      *)
Moved(m, r) == IF r[1] = m[1] /\ m[2] < r[2] THEN <<r[1], r[2] - 1>> ELSE r

(* A sequence without its n-th element.                                    *)
LEMMA RemoveAtFacts ==
    ASSUME NEW s \in Seq(Lines), NEW n \in 1..Len(s)
    PROVE  /\ RemoveAt(s, n) \in Seq(Lines)
           /\ Len(RemoveAt(s, n)) = Len(s) - 1
           /\ \A i \in 1..Len(s) - 1 : RemoveAt(s, n)[i] = IF i < n THEN s[i] ELSE s[i + 1]
<1> DEFINE a == SubSeq(s, 1, n - 1)
           b == SubSeq(s, n + 1, Len(s))
<1>1. Len(s) \in Nat /\ \A i \in 1..Len(s) : s[i] \in Lines
  BY LenProperties, ElementOfSeq
<1>2. /\ a \in Seq(Lines) /\ Len(a) = n - 1
      /\ \A i \in 1..n - 1 : a[i] = s[i]
  <2>1. /\ a \in Seq(Lines)
        /\ Len(a) = IF 1 <= n - 1 THEN (n - 1) - 1 + 1 ELSE 0
        /\ \A i \in 1..(n - 1) - 1 + 1 : a[i] = s[1 + i - 1]
    <3>1. 1 \in Int /\ n - 1 \in Int /\ \A i \in 1..n - 1 : s[i] \in Lines  BY <1>1
    <3> HIDE DEF Lines
    <3> QED  BY <3>1, SubSeqProperties
  <2> HIDE DEF a
  <2> QED  BY <2>1, <1>1
<1>3. /\ b \in Seq(Lines) /\ Len(b) = Len(s) - n
      /\ \A i \in 1..Len(s) - n : b[i] = s[n + i]
  <2>1. /\ b \in Seq(Lines)
        /\ Len(b) = IF n + 1 <= Len(s) THEN Len(s) - (n + 1) + 1 ELSE 0
        /\ \A i \in 1..Len(s) - (n + 1) + 1 : b[i] = s[(n + 1) + i - 1]
    <3>1. n + 1 \in Int /\ Len(s) \in Int /\ \A i \in (n + 1)..Len(s) : s[i] \in Lines
      BY <1>1
    <3> HIDE DEF Lines
    <3> QED  BY <3>1, SubSeqProperties
  <2> HIDE DEF b
  <2> QED  BY <2>1, <1>1
<1>4. RemoveAt(s, n) = a \o b
  BY DEF RemoveAt
<1> HIDE DEF a, b
<1>5. /\ a \o b \in Seq(Lines) /\ Len(a \o b) = Len(a) + Len(b)
      /\ \A i \in 1..Len(a) + Len(b) : (a \o b)[i] = IF i <= Len(a) THEN a[i]
                                                     ELSE b[i - Len(a)]
  BY <1>2, <1>3, ConcatProperties
<1>6. Len(a) + Len(b) = Len(s) - 1
  BY <1>1, <1>2, <1>3
<1>7. ASSUME NEW i \in 1..Len(s) - 1
      PROVE  (a \o b)[i] = IF i < n THEN s[i] ELSE s[i + 1]
  <2>1. CASE i < n
    BY <2>1, <1>1, <1>2, <1>5, <1>6
  <2>2. CASE ~ (i < n)
    <3>1. i - Len(a) \in 1..Len(s) - n /\ n + (i - Len(a)) = i + 1
      BY <2>2, <1>1, <1>2
    <3>2. (a \o b)[i] = b[i - Len(a)]  BY <2>2, <1>1, <1>2, <1>5, <1>6
    <3> QED  BY <3>1, <3>2, <2>2, <1>3
  <2> QED  BY <2>1, <2>2
<1> QED  BY <1>4, <1>5, <1>6, <1>7

(* What stands where after a line is removed.                              *)
LEMMA WithoutFacts ==
    ASSUME NEW es, AreFiles(es), NEW m \in Places(es)
    PROVE  /\ AreFiles(Without(es, m))
           /\ \A r \in Places(es) : r # m =>
                 /\ Moved(m, r) \in Places(Without(es, m))
                 /\ At(Without(es, m), Moved(m, r)) = At(es, r)
           /\ \A s \in Places(Without(es, m)) :
                 \E r \in Places(es) : r # m /\ s = Moved(m, r)
<1> DEFINE w == Without(es, m)
<1>1. /\ m = <<m[1], m[2]>> /\ m[1] \in DOMAIN es /\ m[2] \in 1..Len(es[m[1]])
      /\ es[m[1]] \in Seq(Lines) /\ m[1] \in Nat /\ m[2] \in Nat
  BY PlaceTypes
<1>2. /\ DOMAIN w = DOMAIN es /\ w = [d \in DOMAIN w |-> w[d]]
      /\ \A d \in DOMAIN es : w[d] = IF d = m[1] THEN RemoveAt(es[d], m[2]) ELSE es[d]
  BY DEF AreFiles, Without
<1> DEFINE s == es[m[1]]
           v == RemoveAt(s, m[2])
<1>3. /\ v \in Seq(Lines) /\ Len(v) = Len(s) - 1 /\ Len(s) \in Nat
      /\ \A i \in 1..Len(s) - 1 : v[i] = IF i < m[2] THEN s[i] ELSE s[i + 1]
  <2>1. Len(s) \in Nat  BY <1>1, LenProperties
  <2> QED  BY <2>1, <1>1, RemoveAtFacts
<1>4. w[m[1]] = v /\ \A d \in DOMAIN es : d # m[1] => w[d] = es[d]
  BY <1>1, <1>2
<1> HIDE DEF w, v
<1>5. AreFiles(w)
  <2>1. \A d \in DOMAIN es : w[d] \in Seq(Lines)
    BY <1>3, <1>4 DEF AreFiles
  <2> QED  BY <2>1, <1>2 DEF AreFiles
<1>6. ASSUME NEW r \in Places(es), r # m
      PROVE  Moved(m, r) \in Places(w) /\ At(w, Moved(m, r)) = At(es, r)
  <2>1. /\ r = <<r[1], r[2]>> /\ r[1] \in DOMAIN es /\ r[2] \in 1..Len(es[r[1]])
        /\ r[1] \in Nat /\ r[2] \in Nat
    BY PlaceTypes
  <2>2. CASE r[1] # m[1]
    <3>1. Moved(m, r) = r  BY <2>2 DEF Moved
    <3>2. w[r[1]] = es[r[1]]  BY <2>1, <2>2, <1>4
    <3> QED  BY <3>1, <3>2, <2>1, <1>2, <1>5, PlaceFacts DEF At
  <2>3. CASE r[1] = m[1] /\ r[2] < m[2]
    <3>1. Moved(m, r) = r  BY <2>1, <2>3, <1>1 DEF Moved
    <3>2. r[2] \in 1..Len(v) /\ v[r[2]] = s[r[2]]
      BY <2>1, <2>3, <1>1, <1>3
    <3> QED  BY <3>1, <3>2, <2>1, <2>3, <1>2, <1>4, <1>5, PlaceFacts DEF At
  <2>4. CASE r[1] = m[1] /\ m[2] < r[2]
    <3>1. Moved(m, r) = <<r[1], r[2] - 1>>  BY <2>4 DEF Moved
    <3>2. r[2] - 1 \in 1..Len(v) /\ v[r[2] - 1] = s[r[2]]
      <4>1. r[2] - 1 \in 1..Len(s) - 1 /\ ~ (r[2] - 1 < m[2]) /\ (r[2] - 1) + 1 = r[2]
        BY <2>1, <2>4, <1>1, <1>3
      <4> QED  BY <4>1, <1>3
    <3>3. /\ Moved(m, r) = <<Moved(m, r)[1], Moved(m, r)[2]>>
          /\ Moved(m, r)[1] = m[1] /\ Moved(m, r)[2] = r[2] - 1
      BY <3>1, <2>4
    <3>4. Moved(m, r) \in Places(w)
      BY <3>2, <3>3, <1>1, <1>2, <1>4, <1>5, PlaceFacts
    <3>5. At(w, Moved(m, r)) = s[r[2]]
      BY <3>2, <3>3, <1>4 DEF At
    <3> QED  BY <3>4, <3>5, <2>4 DEF At
  <2>5. r[1] = m[1] => r[2] # m[2]
    BY <2>1, <1>1, <1>6
  <2> QED  BY <2>1, <2>2, <2>3, <2>4, <2>5, <1>1
<1>7. ASSUME NEW t \in Places(w)
      PROVE  \E r \in Places(es) : r # m /\ t = Moved(m, r)
  <2>1. /\ t = <<t[1], t[2]>> /\ t[1] \in DOMAIN es /\ t[2] \in 1..Len(w[t[1]])
        /\ t[1] \in Nat /\ t[2] \in Nat
    BY <1>2, <1>5, PlaceTypes
  <2>2. CASE t[1] # m[1]
    <3>1. t \in Places(es)  BY <2>1, <2>2, <1>4, PlaceFacts
    <3> QED  BY <3>1, <2>2 DEF Moved
  <2>3. CASE t[1] = m[1] /\ t[2] < m[2]
    <3>1. t \in Places(es)  BY <2>1, <2>3, <1>1, PlaceFacts
    <3>2. t = Moved(m, t) /\ t # m  BY <2>1, <2>3, <1>1 DEF Moved
    <3> QED  BY <3>1, <3>2
  <2>4. CASE t[1] = m[1] /\ ~ (t[2] < m[2])
    <3> DEFINE r == <<t[1], t[2] + 1>>
    <3>1. r[1] = m[1] /\ r[2] = t[2] + 1 /\ r = <<r[1], r[2]>>  BY <2>4
    <3>2. t[2] + 1 \in 1..Len(s) /\ m[2] < t[2] + 1 /\ (t[2] + 1) - 1 = t[2]
      BY <2>1, <2>4, <1>1, <1>3, <1>4
    <3>3. r \in Places(es)  BY <3>1, <3>2, <1>1, PlaceFacts
    <3>4. r # m  BY <3>1, <3>2, <1>1
    <3>5. Moved(m, r) = <<t[1], t[2]>>  BY <3>1, <3>2 DEF Moved
    <3> QED  BY <3>3, <3>4, <3>5, <2>1
  <2> QED  BY <2>2, <2>3, <2>4
<1> QED  BY <1>5, <1>6, <1>7 DEF w

(* The others keep their order.                                            *)
LEMMA MovedKeepsOrder ==
    ASSUME NEW es, AreFiles(es), NEW m \in Places(es),
           NEW r \in Places(es), r # m, NEW s \in Places(es), s # m
    PROVE  Before(Moved(m, r), Moved(m, s)) <=> Before(r, s)
<1>1. /\ m = <<m[1], m[2]>> /\ r = <<r[1], r[2]>> /\ s = <<s[1], s[2]>>
      /\ m[1] \in Nat /\ m[2] \in Nat /\ r[1] \in Nat /\ r[2] \in Nat
      /\ s[1] \in Nat /\ s[2] \in Nat
  BY PlaceTypes
<1>2. /\ r[1] = m[1] => r[2] # m[2]
      /\ s[1] = m[1] => s[2] # m[2]
  BY <1>1
<1>3. /\ Moved(m, r)[1] = r[1]
      /\ Moved(m, r)[2] = IF r[1] = m[1] /\ m[2] < r[2] THEN r[2] - 1 ELSE r[2]
  BY DEF Moved
<1>4. /\ Moved(m, s)[1] = s[1]
      /\ Moved(m, s)[2] = IF s[1] = m[1] /\ m[2] < s[2] THEN s[2] - 1 ELSE s[2]
  BY DEF Moved
<1> QED  BY <1>1, <1>2, <1>3, <1>4 DEF Before, Earlier

(* The removal of a line between two of its chain shows: its neighbours    *)
(* meet, and the later one names what is no longer there.                  *)
LEMMA RemovalShows ==
    ASSUME NEW es, AreFiles(es), Verify(es), Unforged(es),
           NEW p \in Places(es), NEW m \in Places(es), NEW q \in Places(es),
           Before(p, m), Before(m, q),
           SameChain(At(es, p), At(es, m)), SameChain(At(es, m), At(es, q))
    PROVE  ~ Verify(Without(es, m))
<1> SUFFICES ASSUME Verify(Without(es, m))  PROVE FALSE
  OBVIOUS
<1> DEFINE w == Without(es, m)
<1>1. PICK x \in Places(es) : /\ Before(x, m)
                              /\ SameChain(At(es, x), At(es, m))
                              /\ At(es, m).prev = At(es, x).hash
                              /\ \A r \in Between(es, x, m) :
                                    ~ SameChain(At(es, r), At(es, m))
  BY LastInChain
<1>2. PICK y \in Places(es) : /\ Before(m, y)
                              /\ SameChain(At(es, m), At(es, y))
                              /\ At(es, y).prev = At(es, m).hash
                              /\ \A r \in Between(es, m, y) :
                                    ~ SameChain(At(es, r), At(es, y))
  BY NextInChain
<1>3. x # m /\ y # m /\ Before(x, y)
  BY <1>1, <1>2, PlacesAreOrdered
<1> DEFINE a == Moved(m, x)
           b == Moved(m, y)
<1>4. /\ a \in Places(w) /\ b \in Places(w)
      /\ At(w, a) = At(es, x) /\ At(w, b) = At(es, y)
  BY <1>3, WithoutFacts
<1>5. Before(a, b)
  BY <1>3, MovedKeepsOrder
<1>6. ASSUME NEW t \in Between(w, a, b)  PROVE ~ SameChain(At(w, t), At(w, b))
  <2>1. t \in Places(w) /\ Before(a, t) /\ Before(t, b)  BY DEF Between
  <2>2. PICK r \in Places(es) : r # m /\ t = Moved(m, r)  BY <2>1, WithoutFacts
  <2>3. At(w, t) = At(es, r)  BY <2>2, WithoutFacts
  <2>4. Before(x, r) /\ Before(r, y)
    BY <2>1, <2>2, <1>3, MovedKeepsOrder
  <2>5. r \in Between(es, x, m) \/ r \in Between(es, m, y)
    BY <2>2, <2>4, PlacesAreOrdered DEF Between
  <2>6. ~ SameChain(At(es, r), At(es, y))
    BY <2>5, <1>1, <1>2 DEF SameChain
  <2> HIDE DEF w, a, b
  <2> QED  BY <2>3, <2>6, <1>4
<1>7. SameChain(At(es, x), At(es, y))
  BY <1>1, <1>2 DEF SameChain
<1> HIDE DEF w, a, b
<1>8. Consecutive(w, a, b, SameChain)
  BY <1>4, <1>5, <1>6, <1>7 DEF Consecutive
<1>9. At(w, b).prev = At(w, a).hash
  <2>1. Verify(w)  BY DEF w
  <2> QED  BY <2>1, <1>4, <1>8 DEF Verify
<1>10. At(es, m).hash = At(es, x).hash
  BY <1>9, <1>4, <1>2
<1> QED  BY <1>10, <1>3 DEF Unforged, Verify

----------------------------------------------------------------------------
(* The invariant.                                                          *)

LinesOf(es) == {At(es, p) : p \in Places(es)}

AllLines == LinesOf(log) \cup LinesOf(reader.got)

(* The hashes of the events that were recorded.                            *)
HashesIn(w, m) == {h \in 1..m : \E t \in Traces : \E n \in DOMAIN w[t] : w[t][n].hash = h}

Hashes == HashesIn(written, made)

(* Hashes are made one after the other: they differ, and grow in a trace.  *)
HashesAscend ==
    /\ \A t, u \in Traces : \A i \in DOMAIN written[t], j \in DOMAIN written[u] :
          written[t][i].hash = written[u][j].hash /\ written[t][i].hash # 0
          => t = u /\ i = j
    /\ \A t \in Traces : \A i, j \in DOMAIN written[t] :
          i < j /\ written[t][i].hash # 0 /\ written[t][j].hash # 0
          => written[t][i].hash < written[t][j].hash

(* l is the line of the event that t wrote as its n-th.                    *)
IsLineOf(l, t, n) ==
    /\ n \in DOMAIN written[t]
    /\ l.trace = IdOf[t] /\ l.seq = n
    /\ l.hash = written[t][n].hash /\ l.at = written[t][n].at
    /\ trace[t].step # "gone" => l.chain = sink.chain

(* Every line that is not torn was written by a trace.                     *)
LinesAreGenuine ==
    \A l \in AllLines : l # Torn =>
        /\ l.prev < l.hash /\ l.chain <= sink.chain
        /\ \E t \in Traces : \E n \in Nat : IsLineOf(l, t, n)

(* What is read lies before what is to be read.                            *)
ReadInOrder ==
    /\ reader.step = "none" => reader.todo = {} /\ DOMAIN reader.got = {}
    /\ \A d \in DOMAIN reader.got, e \in reader.todo : d < e

(* No fault that excuses a log that does not verify.                       *)
Undisturbed == \A i \in DOMAIN failures : failures[i] \notin {"torn", "sync", "clock"}

(* The instants of events follow their hashes, and the clock is ahead.     *)
TimeAscends ==
    /\ \A t \in Traces : \A i \in DOMAIN written[t] : written[t][i].at <= clock
    /\ \A t, u \in Traces : \A i \in DOMAIN written[t], j \in DOMAIN written[u] :
          written[t][i].hash # 0 /\ written[t][i].hash < written[u][j].hash
          => written[t][i].at <= written[u][j].at
    /\ \A d \in DOMAIN log \cup DOMAIN reader.got \cup reader.todo : d <= Today

(* A file has the lines of its day, with the hashes growing.               *)
Dated(es) ==
    /\ \A p \in Places(es) : At(es, p) # Torn /\ At(es, p).at \div TicksPerDay = p[1]
    /\ \A p, q \in Places(es) : p[1] = q[1] /\ p[2] < q[2]
                                => At(es, p).hash < At(es, q).hash

(* A line names the hash recorded last before it, or is the first line of  *)
(* its chain.                                                              *)
Linked ==
    \A l \in AllLines :
        /\ l.prev # 0 => /\ l.prev \in Hashes
                         /\ \A h \in Hashes : ~ (l.prev < h /\ h < l.hash)
        /\ \A k \in AllLines : k.hash < l.hash =>
              k.chain <= l.chain /\ (l.prev = 0 => k.chain < l.chain)

(* The sink knows the hash recorded last.                                  *)
SinkIsCurrent ==
    /\ sink.prev # 0 => sink.prev \in Hashes /\ \A h \in Hashes : h <= sink.prev
    /\ sink.prev = 0 => \A l \in AllLines : l.chain < sink.chain

Has(es, h) == \E p \in Places(es) : At(es, p).hash = h

(* The log has every event recorded since its first line.                  *)
LogIsSuffix == \A p \in Places(log), h \in Hashes : At(log, p).hash <= h => Has(log, h)

(* es has every event recorded between two of its lines.                   *)
Contiguous(es) == \A p, q \in Places(es), h \in Hashes :
                      At(es, p).hash <= h /\ h <= At(es, q).hash => Has(es, h)

(* What is to be read next continues what was read, if its file is still   *)
(* there.                                                                  *)
ReadingContinues ==
    /\ Today \in reader.todo => Today \in DOMAIN log
    /\ \A d \in DOMAIN log \ reader.todo : \/ \A e \in reader.todo : d < e
                                           \/ \A e \in reader.todo : e < d
    /\ \A d \in reader.todo \cap DOMAIN log : IsNext(d) =>
          \A p \in Places(reader.got), h \in Hashes : At(reader.got, p).hash <= h =>
             \/ Has(reader.got, h)
             \/ \E q \in Places(log) : At(log, q).hash = h /\ d <= q[1]

Orderly == /\ TimeAscends /\ Dated(log) /\ Dated(reader.got)
           /\ Linked /\ SinkIsCurrent
           /\ LogIsSuffix /\ Contiguous(reader.got) /\ ReadingContinues

(* Types.                                                                  *)
AuditTypes ==
    /\ AreFiles(log)
    /\ sink \in [chain : Nat, prev : Nat, date : Int, file : {"nil", "open", "closed"}]
    /\ sink.prev <= made
    /\ trace \in [Traces -> [step : {"ready", "appending", "gone"}, seq : Nat]]
    /\ written \in [Traces -> Seq([hash : 0..made, at : Nat])]
    /\ \A t \in Traces :
          /\ trace[t].step = "ready" => trace[t].seq = Len(written[t])
          /\ trace[t].step = "appending" => trace[t].seq = Len(written[t]) + 1
          /\ trace[t].step = "gone" => trace[t].seq - Len(written[t]) \in {0, 1}
    /\ clock \in 0..MaxClock
    /\ made \in Nat
    /\ failures \in Seq({"close", "open", "write", "torn", "sync", "clock"})
    /\ reader = [step |-> reader.step, todo |-> reader.todo, got |-> reader.got]
    /\ reader.step \in {"none", "reading", "failed"}
    /\ reader.todo \subseteq Days
    /\ AreFiles(reader.got)

(* The inductive invariant: the first parts in spite of faults, the last   *)
(* as long as none excuses a log that does not verify.                     *)
AuditInv == /\ AuditTypes
            /\ HashesAscend /\ LinesAreGenuine /\ ReadInOrder /\ Unforged(log)
            /\ Undisturbed => Orderly

----------------------------------------------------------------------------
(* What the invariant says of verification.                                *)

(* Different traces have different identifiers.                            *)
IdsDiffer == \A t, u \in Traces : IdOf[t] = IdOf[u] => t = u

(* The hashes of events, and their types.                                  *)
LEMMA HashesInFacts ==
    ASSUME NEW m \in Nat, NEW w \in [Traces -> Seq([hash : 0..m, at : Nat])]
    PROVE  /\ HashesIn(w, m) \subseteq 1..m
           /\ \A h : h \in HashesIn(w, m) <=>
                 h # 0 /\ \E t \in Traces : \E n \in DOMAIN w[t] : w[t][n].hash = h
           /\ \A t \in Traces : \A n \in DOMAIN w[t] :
                 /\ n \in Nat /\ n \in 1..Len(w[t])
                 /\ w[t][n].hash \in 0..m /\ w[t][n].at \in Nat
<1>1. \A t \in Traces : \A n \in DOMAIN w[t] :
         /\ n \in Nat /\ n \in 1..Len(w[t])
         /\ w[t][n].hash \in 0..m /\ w[t][n].at \in Nat
  <2> TAKE t \in Traces
  <2> TAKE n \in DOMAIN w[t]
  <2>1. w[t] \in Seq([hash : 0..m, at : Nat])  OBVIOUS
  <2>2. n \in 1..Len(w[t]) /\ w[t][n] \in [hash : 0..m, at : Nat]
    BY <2>1, LenProperties, ElementOfSeq
  <2> QED  BY <2>2
<1>2. \A h : h \in HashesIn(w, m) <=>
         h # 0 /\ \E t \in Traces : \E n \in DOMAIN w[t] : w[t][n].hash = h
  BY <1>1 DEF HashesIn
<1> QED  BY <1>1, <1>2 DEF HashesIn

(* ... in a state,                                                         *)
LEMMA HashFacts ==
    ASSUME AuditTypes
    PROVE  /\ made \in Nat /\ Hashes \subseteq 1..made
           /\ \A h : h \in Hashes <=>
                 /\ h # 0
                 /\ \E t \in Traces : \E n \in DOMAIN written[t] : written[t][n].hash = h
           /\ \A t \in Traces : \A n \in DOMAIN written[t] :
                 /\ n \in Nat /\ n \in 1..Len(written[t])
                 /\ written[t][n].hash \in 0..made /\ written[t][n].at \in Nat
<1>1. made \in Nat /\ written \in [Traces -> Seq([hash : 0..made, at : Nat])]
  BY DEF AuditTypes
<1> QED  BY <1>1, HashesInFacts DEF Hashes

(* ... and in the next.                                                    *)
LEMMA HashFactsNext ==
    ASSUME AuditTypes'
    PROVE  /\ made' \in Nat /\ Hashes' \subseteq 1..made'
           /\ \A h : h \in Hashes' <=>
                 /\ h # 0
                 /\ \E t \in Traces : \E n \in DOMAIN written'[t] : written'[t][n].hash = h
           /\ \A t \in Traces : \A n \in DOMAIN written'[t] :
                 /\ n \in Nat /\ n \in 1..Len(written'[t])
                 /\ written'[t][n].hash \in 0..made' /\ written'[t][n].at \in Nat
<1>1. made' \in Nat /\ written' \in [Traces -> Seq([hash : 0..made', at : Nat])]
  BY DEF AuditTypes
<1>2. Hashes' = HashesIn(written', made')
  BY DEF Hashes, HashesIn
<1> QED  BY SMTT(30), <1>1, <1>2, HashesInFacts

(* The day of an instant.                                                  *)
LEMMA DaysAreMonotone ==
    ASSUME NEW a \in Nat, NEW b \in Nat, a <= b
    PROVE  /\ a \div TicksPerDay \in Nat
           /\ a \div TicksPerDay <= b \div TicksPerDay
<1>1. TicksPerDay \in Nat \ {0}
  BY AuditAssumptions
<1> QED  BY <1>1, SMTT(60)

(* A line that is not torn has a hash, and its event an instant.           *)
LEMMA LineFacts ==
    ASSUME AuditTypes, LinesAreGenuine, NEW l \in AllLines, l # Torn
    PROVE  /\ l \in Lines /\ l.hash \in Hashes /\ l.hash \in Nat /\ l.prev < l.hash
           /\ l.chain <= sink.chain
           /\ \E t \in Traces : \E n \in Nat : IsLineOf(l, t, n)
<1>1. /\ l.prev < l.hash /\ l.chain <= sink.chain
      /\ \E t \in Traces : \E n \in Nat : IsLineOf(l, t, n)
  BY DEF LinesAreGenuine
<1>2. l \in Lines
  BY PlaceTypes DEF AuditTypes, AllLines, LinesOf
<1>3. l.hash \in Nat /\ l.prev \in Nat
  BY <1>2 DEF Lines
<1>4. l.hash # 0
  BY <1>1, <1>3
<1>5. PICK t \in Traces, n \in Nat : IsLineOf(l, t, n)
  BY <1>1
<1>6. l.hash \in Hashes
  BY <1>4, <1>5, HashFacts DEF IsLineOf
<1> QED  BY <1>1, <1>2, <1>3, <1>6

(* In well-kept files the order of hashes is that of places.               *)
LEMMA PlacesFollowHashes ==
    ASSUME AuditTypes, HashesAscend, LinesAreGenuine, TimeAscends,
           NEW es, AreFiles(es), LinesOf(es) \subseteq AllLines, Dated(es)
    PROVE  \A p, q \in Places(es) :
              /\ Before(p, q) <=> At(es, p).hash < At(es, q).hash
              /\ At(es, p).hash = At(es, q).hash => p = q
<1>1. \A p \in Places(es) : /\ At(es, p) \in AllLines /\ At(es, p) # Torn
                            /\ At(es, p).hash \in Hashes /\ At(es, p).hash \in Nat
                            /\ At(es, p).at \in Nat
                            /\ At(es, p).at \div TicksPerDay = p[1]
                            /\ p[1] \in Nat
  <2> TAKE p \in Places(es)
  <2>1. At(es, p) \in AllLines /\ At(es, p) # Torn /\ At(es, p).at \div TicksPerDay = p[1]
    BY DEF LinesOf, Dated
  <2> QED  BY <2>1, LineFacts, PlaceTypes DEF Lines
<1>2. ASSUME NEW p \in Places(es), NEW q \in Places(es), Before(p, q)
      PROVE  At(es, p).hash < At(es, q).hash
  <2>1. CASE p[1] = q[1]
    <3>1. p[2] < q[2]  BY <2>1, <1>2, <1>1 DEF Before, Earlier
    <3> QED  BY <3>1, <2>1 DEF Dated
  <2>2. CASE p[1] # q[1]
    <3>1. p[1] < q[1]  BY <2>2, <1>2 DEF Before, Earlier
    <3>2. PICK t \in Traces, i \in Nat : IsLineOf(At(es, p), t, i)  BY <1>1, LineFacts
    <3>3. PICK u \in Traces, j \in Nat : IsLineOf(At(es, q), u, j)  BY <1>1, LineFacts
    <3> SUFFICES ASSUME ~ (At(es, p).hash < At(es, q).hash)  PROVE FALSE
      OBVIOUS
    <3>4. At(es, q).at <= At(es, p).at
      <4>1. CASE At(es, q).hash < At(es, p).hash
        <5>1. At(es, q).hash # 0  BY <1>1, HashFacts
        <5>2. written[u][j].at <= written[t][i].at
          BY <5>1, <4>1, <3>2, <3>3 DEF TimeAscends, IsLineOf
        <5> QED  BY <5>2, <3>2, <3>3 DEF IsLineOf
      <4>2. CASE At(es, q).hash = At(es, p).hash
        <5>1. At(es, p).hash # 0  BY <1>1, HashFacts
        <5>2. t = u /\ i = j  
          BY <5>1, <4>2, <3>2, <3>3 DEF HashesAscend, IsLineOf
        <5> QED  BY <5>2, <3>2, <3>3, <1>1 DEF IsLineOf
      <4> QED  BY <4>1, <4>2, <1>1
    <3>5. q[1] <= p[1]
      BY <3>4, <1>1, DaysAreMonotone
    <3> QED  BY <3>1, <3>5, <1>1
  <2> QED  BY <2>1, <2>2
<1>3. ASSUME NEW p \in Places(es), NEW q \in Places(es)
      PROVE  /\ Before(p, q) <=> At(es, p).hash < At(es, q).hash
             /\ At(es, p).hash = At(es, q).hash => p = q
  <2>1. p = q \/ Before(p, q) \/ Before(q, p)  BY PlacesAreOrdered
  <2>2. CASE p = q
    BY <2>2, <1>1, PlacesAreOrdered
  <2>3. CASE Before(p, q)
    BY <2>3, <1>1, <1>2
  <2>4. CASE Before(q, p)
    <3>1. ~ Before(p, q)  BY <2>4, PlacesAreOrdered
    <3> QED  BY <3>1, <2>4, <1>1, <1>2
  <2> QED  BY <2>1, <2>2, <2>3, <2>4
<1> QED  BY <1>3

(* Well-kept files without a gap in their events verify.                   *)
LEMMA WellKeptVerifies ==
    ASSUME AuditTypes, HashesAscend, LinesAreGenuine, TimeAscends, Linked, IdsDiffer,
           NEW es, AreFiles(es), LinesOf(es) \subseteq AllLines, Dated(es),
           Contiguous(es), ~ Gap
    PROVE  Verify(es)
<1>1. \A p \in Places(es) : /\ At(es, p) \in AllLines /\ At(es, p) # Torn
                            /\ At(es, p) \in Lines /\ At(es, p).hash \in Hashes
                            /\ At(es, p).hash \in Nat
                            /\ At(es, p).prev < At(es, p).hash
  <2> TAKE p \in Places(es)
  <2>1. At(es, p) \in AllLines /\ At(es, p) # Torn  BY DEF LinesOf, Dated
  <2> QED  BY <2>1, LineFacts
<1>2. \A p, q \in Places(es) : /\ Before(p, q) <=> At(es, p).hash < At(es, q).hash
                               /\ At(es, p).hash = At(es, q).hash => p = q
  BY PlacesFollowHashes
<1>3. ASSUME NEW p \in Places(es), NEW q \in Places(es),
             Consecutive(es, p, q, SameChain)
      PROVE  At(es, q).prev = At(es, p).hash
  <2>1. /\ Before(p, q) /\ At(es, p).chain = At(es, q).chain
        /\ \A m \in Between(es, p, q) : ~ SameChain(At(es, m), At(es, q))
    BY <1>3 DEF Consecutive, SameChain
  <2>2. At(es, p).hash < At(es, q).hash  BY <2>1, <1>2
  <2>3. At(es, p).chain \in Nat /\ At(es, q).prev \in Nat  BY <1>1 DEF Lines
  <2>4. At(es, q).prev # 0
    BY <2>1, <2>2, <2>3, <1>1 DEF Linked
  <2>5. At(es, q).prev \in Hashes /\ ~ (At(es, q).prev < At(es, p).hash)
    BY <2>2, <2>4, <1>1 DEF Linked
  <2>6. At(es, p).hash <= At(es, q).prev /\ At(es, q).prev <= At(es, q).hash
    BY <2>3, <2>5, <1>1
  <2>7. PICK m \in Places(es) : At(es, m).hash = At(es, q).prev
    BY <2>5, <2>6 DEF Contiguous, Has
  <2>8. Before(m, q)  BY <2>7, <1>1, <1>2
  <2>9. CASE m = p
    BY <2>7, <2>9
  <2>10. CASE m # p
    <3>1. Before(p, m)
      <4>1. At(es, p).hash # At(es, m).hash  BY <2>10, <1>2
      <4> QED  BY <4>1, <2>6, <2>7, <1>1, <1>2
    <3>2. m \in Between(es, p, q)  BY <3>1, <2>8 DEF Between
    <3>3. At(es, p).chain <= At(es, m).chain /\ At(es, m).chain <= At(es, q).chain
      BY <3>1, <2>8, <1>1, <1>2 DEF Linked
    <3>4. At(es, m).chain \in Nat  BY <1>1 DEF Lines
    <3>5. At(es, m).chain = At(es, q).chain  BY <3>3, <3>4, <2>1, <2>3
    <3> QED  BY <3>2, <3>5, <2>1 DEF SameChain
  <2> QED  BY <2>9, <2>10
<1>4. ASSUME NEW p \in Places(es), NEW q \in Places(es),
             Consecutive(es, p, q, SameTrace)
      PROVE  At(es, q).seq = At(es, p).seq + 1
  <2>1. /\ Before(p, q) /\ At(es, p).chain = At(es, q).chain
        /\ At(es, p).trace = At(es, q).trace
        /\ \A m \in Between(es, p, q) : ~ SameTrace(At(es, m), At(es, q))
    BY <1>4 DEF Consecutive, SameTrace
  <2>2. At(es, p).hash < At(es, q).hash  BY <2>1, <1>2
  <2>3. PICK t \in Traces, i \in Nat : IsLineOf(At(es, p), t, i)  BY <1>1, LineFacts
  <2>4. PICK u \in Traces, j \in Nat : IsLineOf(At(es, q), u, j)  BY <1>1, LineFacts
  <2>5. u = t  BY <2>1, <2>3, <2>4 DEF IdsDiffer, IsLineOf
  <2>6. /\ i \in DOMAIN written[t] /\ j \in DOMAIN written[t]
        /\ written[t][i].hash = At(es, p).hash /\ written[t][j].hash = At(es, q).hash
        /\ written[t][i].hash # 0 /\ written[t][j].hash # 0
        /\ At(es, p).seq = i /\ At(es, q).seq = j
    BY <2>3, <2>4, <2>5, <1>1, HashFacts DEF IsLineOf
  <2>7. i < j
    <3> SUFFICES ASSUME ~ (i < j)  PROVE FALSE
      OBVIOUS
    <3>1. j < i \/ i = j  OBVIOUS
    <3>2. written[t][j].hash < written[t][i].hash \/ i = j
      BY <3>1, <2>6 DEF HashesAscend
    <3> QED  BY <3>2, <2>2, <2>6, <1>1
  <2>8. CASE j = i + 1
    BY <2>6, <2>8
  <2>9. CASE j # i + 1
    <3> DEFINE n == i + 1
    <3>1. i < n /\ n < j /\ n \in DOMAIN written[t]
      <4>1. DOMAIN written[t] = 1..Len(written[t]) /\ Len(written[t]) \in Nat
        BY LenProperties DEF AuditTypes
      <4> QED  BY <4>1, <2>6, <2>7, <2>9
    <3> HIDE DEF n
    <3>2. written[t][n].hash # 0
      BY <3>1, <2>6 DEF Gap
    <3>3. /\ written[t][i].hash < written[t][n].hash
          /\ written[t][n].hash < written[t][j].hash
      BY <3>1, <3>2, <2>6 DEF HashesAscend
    <3>4. written[t][n].hash \in Hashes /\ written[t][n].hash \in Nat
      BY <3>1, <3>2, HashFacts
    <3>5. PICK m \in Places(es) : At(es, m).hash = written[t][n].hash
      BY <3>3, <3>4, <2>6, <1>1 DEF Contiguous, Has
    <3>6. Before(p, m) /\ Before(m, q)
      BY <3>3, <3>5, <2>6, <1>2
    <3>7. PICK v \in Traces, k \in Nat : IsLineOf(At(es, m), v, k)  BY <1>1, LineFacts
    <3>8. v = t
      BY <3>1, <3>2, <3>5, <3>7 DEF HashesAscend, IsLineOf
    <3>9. At(es, m).trace = At(es, q).trace
      BY <3>7, <3>8, <2>4, <2>5 DEF IsLineOf
    <3>10. At(es, p).chain <= At(es, m).chain /\ At(es, m).chain <= At(es, q).chain
      BY <3>6, <1>1, <1>2 DEF Linked
    <3>11. At(es, m).chain \in Nat /\ At(es, p).chain \in Nat  BY <1>1 DEF Lines
    <3>12. SameTrace(At(es, m), At(es, q))
      BY <3>9, <3>10, <3>11, <2>1 DEF SameTrace
    <3> QED  BY <3>6, <3>12, <2>1 DEF Between
  <2> QED  BY <2>8, <2>9
<1> QED  BY <1>1, <1>3, <1>4 DEF Verify

(* A log in which every later event is there has those between.            *)
LEMMA SuffixIsContiguous ==
    ASSUME AuditTypes, LogIsSuffix
    PROVE  Contiguous(log)
BY DEF LogIsSuffix, Contiguous

(* No false alarm, for the log and for what the reader has got.            *)
LEMMA InvariantVerifies ==
    ASSUME AuditInv, IdsDiffer
    PROVE  LogVerifies /\ ReaderVerifies
<1>1. CASE Undisturbed /\ ~ Gap
  <2>1. /\ AuditTypes /\ HashesAscend /\ LinesAreGenuine /\ Orderly
    BY <1>1 DEF AuditInv
  <2>2. AreFiles(log) /\ AreFiles(reader.got)
    BY <2>1 DEF AuditTypes
  <2>3. LinesOf(log) \subseteq AllLines /\ LinesOf(reader.got) \subseteq AllLines
    BY DEF AllLines
  <2>4. Verify(log)
    BY <1>1, <2>1, <2>2, <2>3, SuffixIsContiguous, WellKeptVerifies DEF Orderly
  <2>5. Verify(reader.got)
    BY <1>1, <2>1, <2>2, <2>3, WellKeptVerifies DEF Orderly
  <2> QED  BY <2>4, <2>5 DEF LogVerifies, ReaderVerifies
<1>2. CASE ~ Undisturbed \/ Gap
  BY <1>2 DEF LogVerifies, ReaderVerifies, Excused, Undisturbed
<1> QED  BY <1>1, <1>2

(* A log that verifies shows it when it is tampered with.                  *)
LEMMA InvariantShowsTampering ==
    ASSUME AuditInv
    PROVE  TamperingShows
<1>1. AreFiles(log) /\ Unforged(log)
  BY DEF AuditInv, AuditTypes
<1>2. ASSUME Verify(log), NEW p \in Places(log), NEW q \in Places(log),
             Before(p, q), SameChain(At(log, p), At(log, q))
      PROVE  /\ ~ Verify(Exchanged(log, p, q))
             /\ \A m \in Between(log, p, q) :
                   SameChain(At(log, m), At(log, p)) => ~ Verify(Without(log, m))
  <2>1. ~ Verify(Exchanged(log, p, q))
    BY <1>1, <1>2, ExchangeShows
  <2>2. ASSUME NEW m \in Between(log, p, q), SameChain(At(log, m), At(log, p))
        PROVE  ~ Verify(Without(log, m))
    <3>1. m \in Places(log) /\ Before(p, m) /\ Before(m, q)  BY DEF Between
    <3>2. SameChain(At(log, p), At(log, m)) /\ SameChain(At(log, m), At(log, q))
      BY <1>2, <2>2 DEF SameChain
    <3> QED  BY <3>1, <3>2, <1>1, <1>2, RemovalShows
  <2> QED  BY <2>1, <2>2
<1> QED  BY <1>2 DEF TamperingShows

(* A trace belongs to one process.                                         *)
OneChainPerTrace ==
    \A k, l \in AllLines, t \in Traces, i, j \in Nat :
        IsLineOf(k, t, i) /\ IsLineOf(l, t, j) => k.chain = l.chain

(* A log that verifies has lost none of a request's events between two, if *)
(* no other request has its identifier.                                    *)
LEMMA InvariantShowsLoss ==
    ASSUME AuditInv, OneChainPerTrace
    PROVE  LossShows
<1> SUFFICES ASSUME Verify(log), NEW t \in Traces, HasOwnId(t),
                    NEW i \in DOMAIN written[t], NEW j \in DOMAIN written[t],
                    i < j, InLog(written[t][i].hash), InLog(written[t][j].hash),
                    NEW n \in i..j
             PROVE  written[t][n].hash # 0
  BY DEF LossShows
<1>1. AuditTypes /\ AreFiles(log) /\ LinesAreGenuine /\ HashesAscend
  BY DEF AuditInv, AuditTypes
<1>2. \A p \in Places(log) : At(log, p) # Torn /\ At(log, p) \in AllLines
  BY DEF Verify, AllLines, LinesOf
<1>3. PICK p \in Places(log) : At(log, p).hash = written[t][i].hash  BY DEF InLog
<1>4. PICK q \in Places(log) : At(log, q).hash = written[t][j].hash  BY DEF InLog
<1>5. ASSUME NEW r \in Places(log), NEW k \in DOMAIN written[t],
             At(log, r).hash = written[t][k].hash, At(log, r).hash # 0
      PROVE  IsLineOf(At(log, r), t, k)
  <2>1. PICK u \in Traces, m \in Nat : IsLineOf(At(log, r), u, m)
    BY <1>1, <1>2, LineFacts
  <2>2. /\ m \in DOMAIN written[u] /\ written[u][m].hash = written[t][k].hash
        /\ written[u][m].hash # 0
    BY <2>1, <1>5 DEF IsLineOf
  <2>3. u = t /\ m = k
    BY <2>2, <1>1 DEF HashesAscend
  <2> QED  BY <2>1, <2>3
<1>6. IsLineOf(At(log, p), t, i) /\ IsLineOf(At(log, q), t, j) /\ i \in Nat /\ j \in Nat
  BY <1>1, <1>3, <1>4, <1>5, HashFacts DEF InLog
<1>7. SameTrace(At(log, p), At(log, q)) /\ SameTrace(At(log, q), At(log, p))
  BY <1>2, <1>6 DEF SameTrace, OneChainPerTrace, IsLineOf
<1>8. At(log, p).seq = i /\ At(log, q).seq = j
  BY <1>6 DEF IsLineOf
<1>9. Before(p, q)
  <2>1. ~ Before(q, p)
    BY <1>1, <1>6, <1>7, <1>8, NumbersGrow
  <2>2. p # q
    BY <1>6, <1>8
  <2> QED  BY <2>1, <2>2, <1>1, PlacesAreOrdered
<1>10. PICK r \in Places(log) : SameTrace(At(log, p), At(log, r)) /\ At(log, r).seq = n
  <2>1. n \in Nat /\ i <= n /\ n <= j  BY <1>6
  <2> QED  BY <2>1, <1>1, <1>7, <1>8, <1>9, NoNumberIsLeftOut
<1>11. PICK u \in Traces, m \in Nat : IsLineOf(At(log, r), u, m)
  BY <1>1, <1>2, LineFacts
<1>12. u = t /\ m = n
  BY <1>6, <1>10, <1>11 DEF SameTrace, IsLineOf, HasOwnId
<1>13. At(log, r).hash # 0
  BY <1>1, <1>2, LineFacts, HashFacts
<1> QED  BY <1>11, <1>12, <1>13 DEF IsLineOf

----------------------------------------------------------------------------
(* What the steps do.                                                      *)

Records(t, lines, hash) == /\ Returns(t, hash)
                           /\ log' = LogWith(lines)
                           /\ made' = made + 1
                           /\ UNCHANGED <<clock, reader>>

(* The line is in the file, and known to the sink unless a Sync fails.     *)
WritesLine(t) ==
    /\ Records(t, <<Line(t)>>, made + 1)
    /\ \/ sink' = [Opened EXCEPT !.prev = made + 1] /\ UNCHANGED failures
       \/ sink' = Opened /\ failures' = Append(failures, "sync")

WritesNone(t) ==
    Records(t, << >>, 0) /\ sink' = Opened /\ failures' = Append(failures, "write")

WritesTorn(t) ==
    Records(t, <<Torn>>, 0) /\ sink' = Opened /\ failures' = Append(failures, "torn")

(* Nothing reaches the log.                                                *)
GivesUp(t) ==
    /\ Returns(t, 0)
    /\ sink' = [sink EXCEPT !.file = "closed"] \/ UNCHANGED sink
    /\ failures' \in {failures, Append(failures, "close"), Append(failures, "open")}
    /\ UNCHANGED <<log, clock, made, reader>>

Reads == ReaderStarts \/ ReadsFile \/ FileIsGone

(* The steps, by what they do.                                             *)
LEMMA Kinds ==
    ASSUME AuditTypes, [AuditNext]_auditVars
    PROVE  \/ \E t \in Traces : WritesLine(t) \/ WritesNone(t) \/ WritesTorn(t)
           \/ \E t \in Traces : GivesUp(t)
           \/ \E t \in Traces : Event(t) /\ UNCHANGED reader
           \/ (CloseSink \/ RestartProcess \/ Tick \/ ClockStepsBack) /\ UNCHANGED reader
           \/ Reads
           \/ UNCHANGED auditVars
<1>0. sink = [sink EXCEPT !.file = sink.file]
  BY DEF AuditTypes
<1>1. ASSUME NEW t \in Traces, AppendEvent(t), UNCHANGED reader  PROVE WritesLine(t)
  BY <1>1 DEF AppendEvent, WritesLine, Records
<1>2. ASSUME NEW t \in Traces, SyncFails(t), UNCHANGED reader  PROVE WritesLine(t)
  BY <1>2 DEF SyncFails, WritesLine, Records, Fails
<1>3. ASSUME NEW t \in Traces, WriteFails(t), UNCHANGED reader
      PROVE  WritesNone(t) \/ WritesTorn(t)
  BY <1>3 DEF WriteFails, WritesNone, WritesTorn, Records, Fails
<1>4. ASSUME NEW t \in Traces, CloseFails(t), UNCHANGED reader  PROVE GivesUp(t)
  BY <1>4 DEF CloseFails, GivesUp, Fails
<1>5. ASSUME NEW t \in Traces, OpenFails(t), UNCHANGED reader  PROVE GivesUp(t)
  <2>1. sink' = [sink EXCEPT !.file = IF sink.file = "open" THEN "closed" ELSE sink.file]
    BY <1>5 DEF OpenFails
  <2>2. sink' = [sink EXCEPT !.file = "closed"] \/ UNCHANGED sink
    BY <2>1, <1>0
  <2> QED  BY <2>2, <1>5 DEF OpenFails, GivesUp, Fails
<1>6. ASSUME NEW t \in Traces, FileWasClosed(t), UNCHANGED reader  PROVE GivesUp(t)
  BY <1>6 DEF FileWasClosed, GivesUp
<1> QED  BY <1>1, <1>2, <1>3, <1>4, <1>5, <1>6 DEF AuditNext, Logging, Reads

(* Where the lines of today end.                                           *)
OldLength == IF Today \in DOMAIN log THEN Len(log[Today]) ELSE 0

(* The log after rotate and a write.                                       *)
LEMMA LogWithFacts ==
    ASSUME AuditTypes, NEW lines \in Seq(Lines)
    PROVE  LET es == LogWith(lines)
           IN  /\ AreFiles(es)
               /\ Today \in DOMAIN es /\ DOMAIN es \subseteq DOMAIN log \cup {Today}
               /\ \A d \in DOMAIN log \ DOMAIN es : Outdated(d)
               /\ \A d \in DOMAIN es, e \in DOMAIN log \ DOMAIN es : d # Today => e < d
               /\ OldLength \in Nat
               /\ \A p \in Places(log) :
                     /\ p[1] = Today => p[2] <= OldLength
                     /\ p[1] \in DOMAIN es => p \in Places(es) /\ At(es, p) = At(log, p)
               /\ \A p \in Places(es) :
                     \/ p \in Places(log) /\ At(es, p) = At(log, p)
                     \/ /\ p[1] = Today /\ OldLength < p[2]
                        /\ p[2] - OldLength \in 1..Len(lines)
                        /\ At(es, p) = lines[p[2] - OldLength]
               /\ \A i \in 1..Len(lines) :
                     /\ <<Today, OldLength + i>> \in Places(es)
                     /\ At(es, <<Today, OldLength + i>>) = lines[i]
<1> DEFINE es == LogWith(lines)
           files == IF MustRotate THEN Kept(DOMAIN log) ELSE DOMAIN log
           old == IF Today \in DOMAIN log THEN log[Today] ELSE << >>
<1>1. /\ DOMAIN es = files \cup {Today} /\ es = [d \in DOMAIN es |-> es[d]]
      /\ \A d \in DOMAIN es : es[d] = IF d = Today THEN old \o lines ELSE log[d]
  BY DEF LogWith
<1>2. /\ Today \in Nat /\ Today \in Days /\ clock \in Nat
      /\ TicksPerDay \in Nat \ {0} /\ RetentionDays \in Nat \ {0}
  <2>1. clock \in Nat /\ MaxClock \in Nat /\ clock <= MaxClock
    BY AuditAssumptions DEF AuditTypes
  <2>2. Today \in Nat /\ Today <= MaxClock \div TicksPerDay /\ MaxClock \div TicksPerDay \in Nat
    BY <2>1, DaysAreMonotone DEF Today
  <2> QED  BY <2>1, <2>2, AuditAssumptions DEF Days
<1>3. AreFiles(log) /\ DOMAIN log \subseteq Nat
  BY DEF AuditTypes, AreFiles, Days
<1>4. old \in Seq(Lines) /\ Len(old) = OldLength /\ OldLength \in Nat
  BY <1>3, EmptySeq, LenProperties DEF AreFiles, OldLength
<1>5. /\ old \o lines \in Seq(Lines) /\ Len(lines) \in Nat
      /\ Len(old \o lines) = OldLength + Len(lines)
      /\ \A i \in 1..OldLength + Len(lines) :
            (old \o lines)[i] = IF i <= OldLength THEN old[i] ELSE lines[i - OldLength]
  BY <1>4, ConcatProperties, LenProperties
<1>6. files \subseteq DOMAIN log
  BY DEF Kept
<1>7. \A d \in DOMAIN log : d \notin files => Outdated(d) /\ d # Today
  BY DEF Kept
<1>8. ASSUME NEW d \in DOMAIN es, NEW e \in DOMAIN log \ DOMAIN es, d # Today
      PROVE  e < d
  <2>1. MustRotate /\ ~ Outdated(d) /\ Outdated(e) /\ d \in Nat /\ e \in Nat
    BY <1>1, <1>3, <1>6, <1>8 DEF Kept
  <2>2. e * TicksPerDay < d * TicksPerDay
    <3>1. e * TicksPerDay \in Nat /\ d * TicksPerDay \in Nat
          /\ RetentionDays * TicksPerDay \in Nat
      BY <1>2, <2>1
    <3> QED  BY <3>1, <2>1, <1>2 DEF Outdated
  <2>3. d <= e => d * TicksPerDay <= e * TicksPerDay
    BY <1>2, <2>1
  <2> QED  BY <2>1, <2>2, <2>3, <1>2
<1> HIDE DEF es, files
<1>9. AreFiles(es)
  <2>1. DOMAIN es \subseteq Days
    BY <1>1, <1>2, <1>3, <1>6 DEF AreFiles
  <2>2. \A d \in DOMAIN es : es[d] \in Seq(Lines)
    BY <1>1, <1>3, <1>5, <1>6 DEF AreFiles
  <2> QED  BY <2>1, <2>2, <1>1 DEF AreFiles
<1>10. ASSUME NEW p \in Places(log)
       PROVE  /\ p[1] = Today => p[2] <= OldLength
              /\ p[1] \in DOMAIN es => p \in Places(es) /\ At(es, p) = At(log, p)
  <2>1. p = <<p[1], p[2]>> /\ p[1] \in DOMAIN log /\ p[2] \in 1..Len(log[p[1]]) /\ p[2] \in Nat
    BY <1>3, PlaceTypes
  <2>2. CASE p[1] = Today
    <3>1. old = log[p[1]] /\ OldLength = Len(log[p[1]])  BY <2>1, <2>2 DEF OldLength
    <3>2. es[p[1]] = old \o lines  BY <1>1, <2>2
    <3>3. p[2] \in 1..Len(es[p[1]]) /\ es[p[1]][p[2]] = log[p[1]][p[2]] /\ p[2] <= OldLength
      BY <3>1, <3>2, <2>1, <1>4, <1>5
    <3>4. p[1] \in DOMAIN es  BY <1>1, <2>2
    <3> QED  BY <3>3, <3>4, <2>1, <1>9, PlaceFacts DEF At
  <2>3. CASE p[1] # Today
    BY <2>1, <2>3, <1>1, <1>9, PlaceFacts DEF At
  <2> QED  BY <2>2, <2>3
<1>11. ASSUME NEW p \in Places(es)
       PROVE  \/ p \in Places(log) /\ At(es, p) = At(log, p)
              \/ /\ p[1] = Today /\ OldLength < p[2]
                 /\ p[2] - OldLength \in 1..Len(lines)
                 /\ At(es, p) = lines[p[2] - OldLength]
  <2>1. p = <<p[1], p[2]>> /\ p[1] \in DOMAIN es /\ p[2] \in 1..Len(es[p[1]]) /\ p[2] \in Nat
    BY <1>9, PlaceTypes
  <2>2. CASE p[1] = Today /\ p[2] <= OldLength
    <3>1. OldLength # 0  BY <2>1, <2>2, <1>4
    <3>2. Today \in DOMAIN log /\ old = log[p[1]] /\ OldLength = Len(log[p[1]])
      BY <3>1, <2>2 DEF OldLength
    <3>3. es[p[1]][p[2]] = log[p[1]][p[2]]
      BY <3>2, <2>1, <2>2, <1>1, <1>5
    <3>4. p \in Places(log)
      BY <3>2, <2>1, <2>2, <1>3, <1>4, PlaceFacts
    <3> QED  BY <3>3, <3>4 DEF At
  <2>3. CASE p[1] = Today /\ ~ (p[2] <= OldLength)
    <3>1. es[p[1]] = old \o lines  BY <2>1, <2>3, <1>1
    <3>2. p[2] - OldLength \in 1..Len(lines) /\ OldLength < p[2]
      BY <3>1, <2>1, <2>3, <1>4, <1>5
    <3> QED  BY <3>1, <3>2, <2>1, <2>3, <1>4, <1>5 DEF At
  <2>4. CASE p[1] # Today
    <3>1. p[1] \in DOMAIN log /\ es[p[1]] = log[p[1]]  BY <2>1, <2>4, <1>1, <1>6
    <3> QED  BY <3>1, <2>1, <1>3, PlaceFacts DEF At
  <2> QED  BY <2>2, <2>3, <2>4
<1>12. ASSUME NEW i \in 1..Len(lines)
       PROVE  /\ <<Today, OldLength + i>> \in Places(es)
              /\ At(es, <<Today, OldLength + i>>) = lines[i]
  <2> DEFINE p == <<Today, OldLength + i>>
  <2>1. p[1] = Today /\ p[2] = OldLength + i /\ p = <<p[1], p[2]>>  OBVIOUS
  <2>2. es[Today] = old \o lines /\ Today \in DOMAIN es  BY <1>1
  <2>3. /\ OldLength + i \in 1..OldLength + Len(lines)
        /\ ~ (OldLength + i <= OldLength) /\ (OldLength + i) - OldLength = i
    BY <1>4, <1>5
  <2>4. (old \o lines)[OldLength + i] = lines[i]
    BY <2>3, <1>5
  <2>5. p \in Places(es)
    BY <2>1, <2>2, <2>3, <1>5, <1>9, PlaceFacts
  <2> QED  BY <2>1, <2>2, <2>4, <2>5 DEF At
<1>13. \A d \in DOMAIN log \ DOMAIN es : Outdated(d)
  BY <1>1, <1>7
<1> QED  BY <1>1, <1>4, <1>6, <1>8, <1>9, <1>10, <1>11, <1>12, <1>13 DEF es

----------------------------------------------------------------------------
(* Types, hashes, and where lines come from.                               *)

(* What becomes of a line's fields.                                        *)
LEMMA NewLines ==
    ASSUME AuditTypes, NEW t \in Traces
    PROVE  /\ Line(t) \in Lines /\ Torn \in Lines
           /\ <<Line(t)>> \in Seq(Lines) /\ <<Torn>> \in Seq(Lines) /\ << >> \in Seq(Lines)
           /\ Len(<<Line(t)>>) = 1 /\ Len(<<Torn>>) = 1 /\ Len(<< >>) = 0
           /\ <<Line(t)>>[1] = Line(t) /\ <<Torn>>[1] = Torn
           /\ Line(t).hash = made + 1 /\ Line(t).prev = sink.prev
           /\ Line(t).chain = sink.chain /\ Line(t).at = clock
           /\ Line(t).trace = IdOf[t] /\ Line(t).seq = trace[t].seq
           /\ Torn.hash = 0 /\ Line(t) # Torn
<1>1. /\ sink.chain \in Nat /\ sink.prev \in Nat /\ trace[t].seq \in Nat
      /\ made \in Nat /\ clock \in Nat /\ IdOf[t] \in Names
  <2>1. made \in Nat /\ clock \in Nat
    BY AuditAssumptions DEF AuditTypes
  <2>2. sink.chain \in Nat /\ sink.prev \in Nat /\ trace[t].seq \in Nat
    BY DEF AuditTypes
  <2> QED  BY <2>1, <2>2 DEF Names
<1>2. Line(t) \in Lines
  BY <1>1 DEF Line, Lines
<1>5. Torn \in Lines
  BY DEF Torn, Lines, Names
<1>3. /\ Line(t).hash = made + 1 /\ Line(t).prev = sink.prev
      /\ Line(t).chain = sink.chain /\ Line(t).at = clock
      /\ Line(t).trace = IdOf[t] /\ Line(t).seq = trace[t].seq
      /\ Torn.hash = 0 /\ made + 1 # 0
  BY <1>1 DEF Line, Torn
<1>4. Line(t) # Torn
  BY <1>3
<1> QED  BY <1>2, <1>3, <1>4, <1>5

(* What is written and the numbering, after an event returns.              *)
LEMMA ReturnFacts ==
    ASSUME AuditTypes, NEW t \in Traces, NEW h \in Nat, Returns(t, h)
    PROVE  /\ trace[t].step = "appending" /\ trace[t].seq = Len(written[t]) + 1
           /\ Len(written[t]) \in Nat
           /\ \A u \in Traces : /\ u # t => written'[u] = written[u] /\ trace'[u] = trace[u]
                                /\ \A n \in DOMAIN written[u] :
                                      n \in DOMAIN written'[u] /\ written'[u][n] = written[u][n]
                                /\ trace'[u].step = "gone" <=> trace[u].step = "gone"
           /\ trace'[t].step = "ready" /\ trace'[t].seq = trace[t].seq
           /\ DOMAIN written'[t] = DOMAIN written[t] \cup {trace[t].seq}
           /\ trace[t].seq \notin DOMAIN written[t]
           /\ \A n \in DOMAIN written[t] : n < trace[t].seq
           /\ written'[t][trace[t].seq] = [hash |-> h, at |-> clock]
           /\ Len(written'[t]) = trace[t].seq
           /\ \A H \in Nat : h \in 0..H /\ made <= H =>
                 written' \in [Traces -> Seq([hash : 0..H, at : Nat])]
<1> DEFINE e == [hash |-> h, at |-> clock]
           R == [hash : Nat, at : Nat]
<1>1. /\ trace[t].step = "appending" /\ trace[t].seq = Len(written[t]) + 1
      /\ trace' = [trace EXCEPT ![t].step = "ready"]
      /\ written' = [written EXCEPT ![t] = Append(@, e)]
  BY DEF Returns, AuditTypes
<1>0. /\ made \in Nat /\ clock \in Nat
      /\ trace \in [Traces -> [step : {"ready", "appending", "gone"}, seq : Nat]]
      /\ written \in [Traces -> Seq([hash : 0..made, at : Nat])]
  <2>1. made \in Nat /\ clock \in Nat
    BY AuditAssumptions DEF AuditTypes
  <2> QED  BY <2>1 DEF AuditTypes
<1>2. /\ written[t] \in Seq([hash : 0..made, at : Nat]) /\ Len(written[t]) \in Nat
      /\ DOMAIN written[t] = 1..Len(written[t])
  BY <1>0, LenProperties
<1>3. \A S : written[t] \in Seq(S) /\ e \in S =>
         /\ Append(written[t], e) \in Seq(S)
         /\ Len(Append(written[t], e)) = Len(written[t]) + 1
         /\ \A i \in 1..Len(written[t]) : Append(written[t], e)[i] = written[t][i]
         /\ Append(written[t], e)[Len(written[t]) + 1] = e
  BY AppendProperties
<1>4. written[t] \in Seq(R) /\ e \in R
  <2> DEFINE M == [hash : 0..made, at : Nat]
  <2>1. M \subseteq R  BY <1>0
  <2>2. written[t] \in Seq(M)  BY <1>2
  <2>3. written[t] \in Seq(R)
    <3> HIDE DEF R, M
    <3> QED  BY <2>1, <2>2, SeqMonotonic
  <2> QED  BY <2>3, <1>0
<1>5. written'[t] = Append(written[t], e) /\ \A u \in Traces : u # t => written'[u] = written[u]
  BY <1>0, <1>1
<1>6. /\ written'[t] \in Seq(R) /\ Len(written'[t]) = Len(written[t]) + 1
      /\ \A i \in 1..Len(written[t]) : written'[t][i] = written[t][i]
      /\ written'[t][Len(written[t]) + 1] = e
  <2> HIDE DEF e, R
  <2> QED  BY <1>3, <1>4, <1>5
<1>7. DOMAIN written'[t] = 1..Len(written[t]) + 1
  BY <1>6, LenProperties
<1>8. \A u \in Traces : \A n \in DOMAIN written[u] :
         n \in DOMAIN written'[u] /\ written'[u][n] = written[u][n]
  <2> TAKE u \in Traces
  <2>1. CASE u = t
    <3> HIDE DEF e, R
    <3>1. \A n \in DOMAIN written[t] : n \in DOMAIN written'[t]
      BY <1>2, <1>7
    <3> QED  BY <3>1, <2>1, <1>2, <1>6
  <2>2. CASE u # t
    BY <2>2, <1>5
  <2> QED  BY <2>1, <2>2
<1>9. \A u \in Traces : /\ u # t => trace'[u] = trace[u]
                        /\ trace'[u].step = "gone" <=> trace[u].step = "gone"
  BY <1>0, <1>1
<1>10. ASSUME NEW H \in Nat, h \in 0..H, made <= H
       PROVE  written' \in [Traces -> Seq([hash : 0..H, at : Nat])]
  <2> DEFINE Q == [hash : 0..H, at : Nat]
  <2>1. [hash : 0..made, at : Nat] \subseteq Q  BY <1>0, <1>10
  <2>2. e \in Q  BY <1>0, <1>10
  <2>3. \A u \in Traces : written[u] \in Seq(Q)
    <3> TAKE u \in Traces
    <3>1. written[u] \in Seq([hash : 0..made, at : Nat])  BY <1>0
    <3> HIDE DEF Q
    <3> QED  BY <3>1, <2>1, SeqMonotonic
  <2> HIDE DEF Q, e
  <2>4. Append(written[t], e) \in Seq(Q)  BY <2>2, <2>3, <1>3
  <2>5. \A u \in Traces : written'[u] \in Seq(Q)  BY <2>3, <2>4, <1>5
  <2>6. written' = [written EXCEPT ![t] = Append(written[t], e)]  BY <1>1
  <2>7. DOMAIN written = Traces /\ written = [u \in Traces |-> written[u]]  BY <1>0
  <2>8. written' = [u \in Traces |-> written'[u]]  BY <2>6, <2>7
  <2> QED  BY <2>5, <2>8 DEF Q
<1>11. trace'[t].step = "ready" /\ trace'[t].seq = trace[t].seq
  BY <1>0, <1>1
<1>12. /\ DOMAIN written'[t] = DOMAIN written[t] \cup {trace[t].seq}
       /\ trace[t].seq \notin DOMAIN written[t]
       /\ \A n \in DOMAIN written[t] : n < trace[t].seq
  BY <1>1, <1>2, <1>7
<1> HIDE DEF e
<1>13. written'[t][trace[t].seq] = e /\ Len(written'[t]) = trace[t].seq
  BY <1>1, <1>6
<1> QED  BY <1>1, <1>2, <1>5, <1>8, <1>9, <1>10, <1>11, <1>12, <1>13 DEF e

(* Lines that a write brings.                                              *)
LEMMA RecordedLines ==
    ASSUME AuditTypes, NEW t \in Traces, NEW h, NEW lines \in Seq(Lines),
           Records(t, lines, h)
    PROVE  AllLines' \subseteq AllLines \cup {lines[i] : i \in 1..Len(lines)}
<1> DEFINE es == LogWith(lines)
<1>1. \A p \in Places(es) : At(es, p) \in LinesOf(log) \cup {lines[i] : i \in 1..Len(lines)}
  <2> TAKE p \in Places(es)
  <2>1. \/ p \in Places(log) /\ At(es, p) = At(log, p)
        \/ /\ p[2] - OldLength \in 1..Len(lines)
           /\ At(es, p) = lines[p[2] - OldLength]
    BY LogWithFacts
  <2> HIDE DEF es
  <2> QED  BY <2>1 DEF LinesOf
<1>2. log' = es /\ reader' = reader
  BY DEF Records
<1> HIDE DEF es
<1>3. LinesOf(log)' \subseteq LinesOf(log) \cup {lines[i] : i \in 1..Len(lines)}
  BY <1>1, <1>2 DEF LinesOf
<1>4. LinesOf(reader.got)' = LinesOf(reader.got)
  BY <1>2 DEF LinesOf
<1> QED  BY <1>3, <1>4 DEF AllLines

(* A file that is read: d is the first to be read, and what stood in its   *)
(* file is what the reader has of that day.                                *)
ReadsDay(d) ==
    /\ d \in DOMAIN log /\ d \in reader.todo /\ \A e \in reader.todo : e = d \/ d < e
    /\ UNCHANGED logVars
    /\ reader'.step = reader.step /\ reader'.todo = reader.todo \ {d}
    /\ AreFiles(reader'.got) /\ DOMAIN reader'.got = DOMAIN reader.got \cup {d}
    /\ \A p \in Places(reader'.got) :
          \/ p \in Places(reader.got) /\ p[1] # d /\ At(reader'.got, p) = At(reader.got, p)
          \/ p \in Places(log) /\ p[1] = d /\ At(reader'.got, p) = At(log, p)
    /\ \A p \in Places(reader.got) : p[1] # d =>
          p \in Places(reader'.got) /\ At(reader'.got, p) = At(reader.got, p)
    /\ \A p \in Places(log) : p[1] = d =>
          p \in Places(reader'.got) /\ At(reader'.got, p) = At(log, p)

(* The steps of the reader.                                                *)
LEMMA ReadSteps ==
    ASSUME AuditTypes, ReadInOrder, Reads
    PROVE  /\ reader' = [step |-> reader'.step, todo |-> reader'.todo, got |-> reader'.got]
           /\ \/ /\ reader'.step = "reading" /\ reader'.todo = DOMAIN log
                 /\ reader'.got = reader.got /\ DOMAIN reader.got = {} /\ UNCHANGED logVars
              \/ \E d \in DOMAIN log : ReadsDay(d)
              \/ /\ reader'.step = "failed" /\ reader'.todo = {}
                 /\ DOMAIN reader'.got = {} /\ AreFiles(reader'.got) /\ UNCHANGED logVars
<1>1. reader = [step |-> reader.step, todo |-> reader.todo, got |-> reader.got]
  BY DEF AuditTypes
<1>2. CASE ReaderStarts
  <2>1. reader' = [step |-> "reading", todo |-> DOMAIN log, got |-> reader.got]
    BY <1>1, <1>2 DEF ReaderStarts
  <2> QED  BY <2>1, <1>2 DEF ReaderStarts, ReadInOrder
<1>3. CASE ReadsFile
  <2> DEFINE G(d) == [e \in DOMAIN reader.got \cup {d} |-> IF e = d THEN log[d] ELSE reader.got[e]]
  <2>1. PICK d \in DOMAIN log :
           /\ d \in reader.todo /\ \A e \in reader.todo : e = d \/ d < e
           /\ reader' = [step |-> reader.step, todo |-> reader.todo \ {d}, got |-> G(d)]
           /\ UNCHANGED logVars
    BY <1>1, <1>3 DEF ReadsFile, IsNext, Earlier
  <2> DEFINE g == G(d)
  <2>2. /\ DOMAIN g = DOMAIN reader.got \cup {d} /\ g = [e \in DOMAIN g |-> g[e]]
        /\ g[d] = log[d] /\ \A e \in DOMAIN reader.got : e # d => g[e] = reader.got[e]
    OBVIOUS
  <2>3. reader'.got = g /\ reader'.step = reader.step /\ reader'.todo = reader.todo \ {d}
    BY <2>1
  <2> HIDE DEF g
  <2>4. AreFiles(log) /\ AreFiles(reader.got)
    BY DEF AuditTypes
  <2>5. AreFiles(g)
    <3>1. DOMAIN g \subseteq Days  BY <2>1, <2>2, <2>4 DEF AreFiles
    <3>2. \A e \in DOMAIN g : g[e] \in Seq(Lines)  BY <2>1, <2>2, <2>4 DEF AreFiles
    <3> QED  BY <3>1, <3>2, <2>2 DEF AreFiles
  <2>6. \A p \in Places(g) :
           \/ p \in Places(reader.got) /\ p[1] # d /\ At(g, p) = At(reader.got, p)
           \/ p \in Places(log) /\ p[1] = d /\ At(g, p) = At(log, p)
    <3> TAKE p \in Places(g)
    <3>1. p = <<p[1], p[2]>> /\ p[1] \in DOMAIN g /\ p[2] \in 1..Len(g[p[1]])
      BY <2>5, PlaceFacts
    <3>2. CASE p[1] = d
      BY <3>1, <3>2, <2>1, <2>2, <2>4, PlaceFacts DEF At
    <3>3. CASE p[1] # d
      BY <3>1, <3>3, <2>1, <2>2, <2>4, PlaceFacts DEF At
    <3> QED  BY <3>2, <3>3
  <2>7. \A p \in Places(reader.got) : p[1] # d =>
           p \in Places(g) /\ At(g, p) = At(reader.got, p)
    <3> TAKE p \in Places(reader.got)
    <3>1. p = <<p[1], p[2]>> /\ p[1] \in DOMAIN reader.got /\ p[2] \in 1..Len(reader.got[p[1]])
      BY <2>4, PlaceFacts
    <3> QED  BY <3>1, <2>2, <2>5, PlaceFacts DEF At
  <2>8. \A p \in Places(log) : p[1] = d => p \in Places(g) /\ At(g, p) = At(log, p)
    <3> TAKE p \in Places(log)
    <3>1. p = <<p[1], p[2]>> /\ p[1] \in DOMAIN log /\ p[2] \in 1..Len(log[p[1]])
      BY <2>4, PlaceFacts
    <3> QED  BY <3>1, <2>2, <2>5, PlaceFacts DEF At
  <2>9. ReadsDay(d)
    BY <2>1, <2>2, <2>3, <2>5, <2>6, <2>7, <2>8 DEF ReadsDay
  <2> QED  BY <2>1, <2>9
<1>4. CASE FileIsGone
  <2>1. /\ reader' = [step |-> "failed", todo |-> {}, got |-> [e \in {} |-> << >>]]
        /\ UNCHANGED logVars
    BY <1>4 DEF FileIsGone
  <2>2. AreFiles([e \in {} |-> << >>])
    BY DEF AreFiles
  <2> QED  BY <2>1, <2>2
<1> QED  BY <1>2, <1>3, <1>4 DEF Reads

(* Where the lines of the next state come from.                            *)
LEMMA LineSources ==
    ASSUME AuditTypes, ReadInOrder, [AuditNext]_auditVars
    PROVE  /\ \A t \in Traces : WritesLine(t) => AllLines' \subseteq AllLines \cup {Line(t)}
           /\ \A t \in Traces : WritesTorn(t) => AllLines' \subseteq AllLines \cup {Torn}
           /\ \/ AllLines' \subseteq AllLines
              \/ \E t \in Traces : WritesLine(t) \/ WritesTorn(t)
<1>1. ASSUME NEW t \in Traces, WritesLine(t)  PROVE AllLines' \subseteq AllLines \cup {Line(t)}
  <2> DEFINE one == <<Line(t)>>
  <2>1. one \in Seq(Lines) /\ Len(one) = 1 /\ one[1] = Line(t) /\ Records(t, one, made + 1)
    BY <1>1, NewLines DEF WritesLine
  <2> HIDE DEF one
  <2>2. AllLines' \subseteq AllLines \cup {one[i] : i \in 1..Len(one)}
    BY <2>1, RecordedLines
  <2> QED  BY <2>1, <2>2
<1>2. ASSUME NEW t \in Traces, WritesTorn(t)  PROVE AllLines' \subseteq AllLines \cup {Torn}
  <2> DEFINE one == <<Torn>>
  <2>1. one \in Seq(Lines) /\ Len(one) = 1 /\ one[1] = Torn /\ Records(t, one, 0)
    BY <1>2, NewLines DEF WritesTorn
  <2> HIDE DEF one
  <2>2. AllLines' \subseteq AllLines \cup {one[i] : i \in 1..Len(one)}
    BY <2>1, RecordedLines
  <2> QED  BY <2>1, <2>2
<1>3. ASSUME NEW t \in Traces, WritesNone(t)  PROVE AllLines' \subseteq AllLines
  <2> DEFINE none == << >>
  <2>1. none \in Seq(Lines) /\ Len(none) = 0 /\ Records(t, none, 0)
    BY <1>3, NewLines DEF WritesNone
  <2> HIDE DEF none
  <2>2. AllLines' \subseteq AllLines \cup {none[i] : i \in 1..Len(none)}
    BY <2>1, RecordedLines
  <2> QED  BY <2>1, <2>2
<1>4. CASE log' = log /\ reader' = reader
  BY <1>4 DEF AllLines, LinesOf
<1>5. ASSUME Reads  PROVE AllLines' \subseteq AllLines
  <2>1. log' = log /\ LinesOf(log)' = LinesOf(log)
    BY <1>5 DEF Reads, ReaderStarts, ReadsFile, FileIsGone, logVars, LinesOf
  <2>2. \A p \in Places(reader'.got) : At(reader'.got, p) \in AllLines
    <3>1. CASE reader'.got = reader.got
      BY <3>1 DEF AllLines, LinesOf
    <3>2. CASE \E d \in DOMAIN log : ReadsDay(d)
      BY <3>2 DEF ReadsDay, AllLines, LinesOf
    <3>3. CASE DOMAIN reader'.got = {}
      BY <3>3 DEF Places
    <3> QED  BY <3>1, <3>2, <3>3, <1>5, ReadSteps
  <2> QED  BY <2>1, <2>2 DEF AllLines, LinesOf
<1>6. \/ \E t \in Traces : WritesLine(t) \/ WritesNone(t) \/ WritesTorn(t)
      \/ log' = log /\ reader' = reader
      \/ Reads
  BY Kinds DEF GivesUp, Event, CloseSink, RestartProcess, Tick, ClockStepsBack,
               auditVars, logVars
<1> QED  BY <1>1, <1>2, <1>3, <1>4, <1>5, <1>6

(* At most one event returns in a step, with the next hash or with none.   *)
LEMMA ReturnSteps ==
    ASSUME AuditTypes, [AuditNext]_auditVars
    PROVE  /\ made' \in {made, made + 1}
           /\ \/ UNCHANGED written
              \/ \E t \in Traces : \E h \in {0, made + 1} :
                    /\ Returns(t, h) /\ UNCHANGED clock
                    /\ h # 0 => made' = made + 1 /\ WritesLine(t)
<1>1. ASSUME NEW t \in Traces, WritesLine(t)
      PROVE  Returns(t, made + 1) /\ UNCHANGED clock /\ made' = made + 1
  BY <1>1 DEF WritesLine, Records
<1>2. ASSUME NEW t \in Traces, WritesNone(t) \/ WritesTorn(t)
      PROVE  Returns(t, 0) /\ UNCHANGED clock /\ made' = made + 1
  BY <1>2 DEF WritesNone, WritesTorn, Records
<1>3. ASSUME NEW t \in Traces, GivesUp(t)
      PROVE  Returns(t, 0) /\ UNCHANGED <<clock, made>>
  BY <1>3 DEF GivesUp
<1>4. ASSUME \/ \E t \in Traces : Event(t)
             \/ CloseSink \/ RestartProcess \/ Tick \/ ClockStepsBack
             \/ Reads \/ UNCHANGED auditVars
      PROVE  UNCHANGED <<written, made>>
  BY <1>4 DEF Event, CloseSink, RestartProcess, Tick, ClockStepsBack, Reads, ReaderStarts,
              ReadsFile, FileIsGone, auditVars, logVars
<1> QED  BY <1>1, <1>2, <1>3, <1>4, Kinds

(* What was written stays written.                                         *)
LEMMA WrittenGrows ==
    ASSUME AuditTypes, AuditTypes', [AuditNext]_auditVars
    PROVE  /\ \A t \in Traces : \A n \in DOMAIN written[t] :
                 n \in DOMAIN written'[t] /\ written'[t][n] = written[t][n]
           /\ Hashes \subseteq Hashes' /\ Hashes' \subseteq Hashes \cup {made + 1}
           /\ \A t \in Traces : WritesLine(t) => made + 1 \in Hashes'
           /\ made + 1 \in Hashes' => \E t \in Traces : WritesLine(t)
<1>0. made \in Nat
  BY DEF AuditTypes
<1>1. \A t \in Traces : \A n \in DOMAIN written[t] :
         n \in DOMAIN written'[t] /\ written'[t][n] = written[t][n]
  <2>1. CASE UNCHANGED written
    BY <2>1
  <2>2. ASSUME NEW t \in Traces, NEW h \in {0, made + 1}, Returns(t, h)  PROVE <1>1
    <3>1. h \in Nat  BY <1>0
    <3> QED  BY <3>1, <2>2, ReturnFacts
  <2> QED  BY <2>1, <2>2, ReturnSteps
<1>2. Hashes \subseteq Hashes'
  <2> SUFFICES ASSUME NEW h \in Hashes  PROVE h \in Hashes'
    OBVIOUS
  <2>1. PICK t \in Traces : h # 0 /\ \E n \in DOMAIN written[t] : written[t][n].hash = h
    BY HashFacts
  <2>2. PICK n \in DOMAIN written[t] : written[t][n].hash = h
    BY <2>1
  <2>3. n \in DOMAIN written'[t] /\ written'[t][n].hash = h
    BY <2>2, <1>1
  <2> QED  BY <2>1, <2>3, HashFactsNext
<1>3. ASSUME NEW h \in Hashes'
      PROVE  h \in Hashes \/ (h = made + 1 /\ \E t \in Traces : WritesLine(t))
  <2>1. h # 0  BY HashFactsNext
  <2>2. PICK t \in Traces : \E n \in DOMAIN written'[t] : written'[t][n].hash = h
    BY HashFactsNext
  <2>3. PICK n \in DOMAIN written'[t] : written'[t][n].hash = h
    BY <2>2
  <2>4. CASE UNCHANGED written
    BY <2>1, <2>3, <2>4, HashFacts
  <2>5. CASE ~ UNCHANGED written
    <3>1. PICK u \in Traces, g \in {0, made + 1} :
             Returns(u, g) /\ (g # 0 => WritesLine(u))
      BY <2>5, ReturnSteps
    <3>2. g \in Nat  BY <1>0
    <3>3. CASE t = u /\ n = trace[u].seq
      <4>1. written'[u][trace[u].seq] = [hash |-> g, at |-> clock]
        BY <3>1, <3>2, ReturnFacts
      <4> QED  BY <4>1, <3>1, <3>3, <2>1, <2>3
    <3>4. CASE ~ (t = u /\ n = trace[u].seq)
      <4>1. n \in DOMAIN written[t]
        <5>1. /\ t # u => written'[t] = written[t]
              /\ DOMAIN written'[u] = DOMAIN written[u] \cup {trace[u].seq}
          BY <3>1, <3>2, ReturnFacts
        <5> QED  BY <5>1, <3>4, <2>3
      <4> QED  BY <4>1, <1>1, <2>1, <2>3, HashFacts
    <3> QED  BY <3>3, <3>4
  <2> QED  BY <2>4, <2>5
<1>4. ASSUME NEW t \in Traces, WritesLine(t)  PROVE made + 1 \in Hashes'
  <2>1. Returns(t, made + 1)  BY <1>4 DEF WritesLine, Records
  <2>2. /\ trace[t].seq \in DOMAIN written'[t]
        /\ written'[t][trace[t].seq].hash = made + 1
    <3>1. made + 1 \in Nat  BY <1>0
    <3>2. /\ DOMAIN written'[t] = DOMAIN written[t] \cup {trace[t].seq}
          /\ written'[t][trace[t].seq] = [hash |-> made + 1, at |-> clock]
      BY <2>1, <3>1, ReturnFacts
    <3> QED  BY <3>2
  <2>3. made + 1 # 0  BY <1>0
  <2> QED  BY <2>2, <2>3, HashFactsNext
<1>5. made + 1 \notin Hashes
  BY <1>0, HashFacts
<1> QED  BY <1>1, <1>2, <1>3, <1>4, <1>5

(* Types are kept.                                                         *)
LEMMA StepAuditTypes ==
    AuditTypes /\ ReadInOrder /\ [AuditNext]_auditVars => AuditTypes'
<1> SUFFICES ASSUME AuditTypes, ReadInOrder, [AuditNext]_auditVars
             PROVE  AuditTypes'
  OBVIOUS
<1> DEFINE Kinds6 == {"close", "open", "write", "torn", "sync", "clock"}
<1>1. /\ AreFiles(log) /\ AreFiles(reader.got) /\ made \in Nat
      /\ clock \in 0..MaxClock /\ MaxClock \in Nat /\ MaxRestarts \in Nat
      /\ sink \in [chain : Nat, prev : Nat, date : Int, file : {"nil", "open", "closed"}]
      /\ sink.prev <= made /\ failures \in Seq(Kinds6)
      /\ trace \in [Traces -> [step : {"ready", "appending", "gone"}, seq : Nat]]
  BY AuditAssumptions DEF AuditTypes
<1>2. AreFiles(log')
  <2>1. ASSUME NEW t \in Traces, WritesLine(t) \/ WritesNone(t) \/ WritesTorn(t)
        PROVE  AreFiles(log')
    <3>1. \E lines \in Seq(Lines) : log' = LogWith(lines)
      BY <2>1, NewLines DEF WritesLine, WritesNone, WritesTorn, Records
    <3> QED  BY <3>1, LogWithFacts
  <2>2. CASE log' = log
    BY <2>2, <1>1
  <2> QED  BY <2>1, <2>2, Kinds DEF GivesUp, Event, CloseSink, RestartProcess, Tick,
              ClockStepsBack, Reads, ReaderStarts, ReadsFile, FileIsGone, auditVars, logVars
<1>3. /\ sink' \in [chain : Nat, prev : Nat, date : Int, file : {"nil", "open", "closed"}]
      /\ sink'.prev <= made'
  <2>1. Today \in Int
    BY <1>1, DaysAreMonotone DEF Today
  <2>2. ASSUME NEW t \in Traces, WritesLine(t) \/ WritesNone(t) \/ WritesTorn(t)
        PROVE  /\ sink' \in [chain : Nat, prev : Nat, date : Int, file : {"nil", "open", "closed"}]
               /\ sink'.prev <= made'
    <3>1. made' = made + 1 /\ (sink' = Opened \/ sink' = [Opened EXCEPT !.prev = made + 1])
      BY <2>2 DEF WritesLine, WritesNone, WritesTorn, Records
    <3>2. /\ Opened \in [chain : Nat, prev : Nat, date : Int, file : {"nil", "open", "closed"}]
          /\ Opened.prev = sink.prev
      BY <1>1, <2>1 DEF Opened
    <3> QED  BY <3>1, <3>2, <1>1
  <2>3. ASSUME NEW t \in Traces, GivesUp(t)
        PROVE  /\ sink' \in [chain : Nat, prev : Nat, date : Int, file : {"nil", "open", "closed"}]
               /\ sink'.prev <= made'
    BY <2>3, <1>1 DEF GivesUp
  <2>4. CASE CloseSink
    BY <2>4, <1>1 DEF CloseSink
  <2>5. CASE RestartProcess
    BY <2>5, <1>1 DEF RestartProcess, NewSink
  <2>6. CASE UNCHANGED <<sink, made>>
    BY <2>6, <1>1
  <2> QED  BY <2>2, <2>3, <2>4, <2>5, <2>6, Kinds DEF Event, Tick, ClockStepsBack, Reads,
              ReaderStarts, ReadsFile, FileIsGone, auditVars, logVars
<1>4. /\ trace' \in [Traces -> [step : {"ready", "appending", "gone"}, seq : Nat]]
      /\ written' \in [Traces -> Seq([hash : 0..made', at : Nat])]
      /\ \A t \in Traces :
            /\ trace'[t].step = "ready" => trace'[t].seq = Len(written'[t])
            /\ trace'[t].step = "appending" => trace'[t].seq = Len(written'[t]) + 1
            /\ trace'[t].step = "gone" => trace'[t].seq - Len(written'[t]) \in {0, 1}
  <2>1. ASSUME NEW t \in Traces, NEW h \in {0, made + 1}, Returns(t, h),
               h # 0 => made' = made + 1
        PROVE  <1>4
    <3>1. h \in Nat /\ made' \in Nat /\ h \in 0..made' /\ made <= made'
      BY <2>1, <1>1, ReturnSteps
    <3>2. trace' \in [Traces -> [step : {"ready", "appending", "gone"}, seq : Nat]]
      BY <2>1, <1>1 DEF Returns
    <3>3. written' \in [Traces -> Seq([hash : 0..made', at : Nat])]
      BY <2>1, <3>1, ReturnFacts
    <3>4. ASSUME NEW u \in Traces
          PROVE  /\ trace'[u].step = "ready" => trace'[u].seq = Len(written'[u])
                 /\ trace'[u].step = "appending" => trace'[u].seq = Len(written'[u]) + 1
                 /\ trace'[u].step = "gone" => trace'[u].seq - Len(written'[u]) \in {0, 1}
      <4>1. CASE u = t
        BY <2>1, <3>1, <4>1, ReturnFacts
      <4>2. CASE u # t
        <5>1. trace'[u] = trace[u] /\ written'[u] = written[u]
          BY <2>1, <3>1, <4>2, ReturnFacts
        <5> QED  BY <5>1 DEF AuditTypes
      <4> QED  BY <4>1, <4>2
    <3> QED  BY <3>2, <3>3, <3>4
  <2>2. CASE UNCHANGED written
    <3>1. written' \in [Traces -> Seq([hash : 0..made', at : Nat])]
      <4> DEFINE S == [hash : 0..made, at : Nat]
                 T == [hash : 0..made', at : Nat]
      <4>1. S \subseteq T  BY <1>1, ReturnSteps
      <4>2. written \in [Traces -> Seq(S)]  BY DEF AuditTypes
      <4> HIDE DEF S, T
      <4>3. \A t \in Traces : written[t] \in Seq(T)
        <5> TAKE t \in Traces
        <5>1. written[t] \in Seq(S)  BY <4>2
        <5> QED  BY <5>1, <4>1, SeqMonotonic
      <4>4. written \in [Traces -> Seq(T)]  BY <4>2, <4>3
      <4> QED  BY <4>4, <2>2 DEF T
    <3>2. ASSUME NEW t \in Traces, Event(t)  PROVE <1>4
      <4>1. /\ trace[t].step = "ready"
            /\ trace' = [trace EXCEPT ![t].step = "appending", ![t].seq = @ + 1]
        BY <3>2 DEF Event
      <4>2. trace' \in [Traces -> [step : {"ready", "appending", "gone"}, seq : Nat]]
        BY <4>1, <1>1
      <4>3. /\ trace'[t].step = "appending" /\ trace'[t].seq = trace[t].seq + 1
            /\ \A u \in Traces : u # t => trace'[u] = trace[u]
        BY <4>1, <1>1
      <4>4. ASSUME NEW u \in Traces
            PROVE  /\ trace'[u].step = "ready" => trace'[u].seq = Len(written'[u])
                   /\ trace'[u].step = "appending" => trace'[u].seq = Len(written'[u]) + 1
                   /\ trace'[u].step = "gone" => trace'[u].seq - Len(written'[u]) \in {0, 1}
        <5>1. CASE u = t
          BY <5>1, <4>1, <4>3, <2>2 DEF AuditTypes
        <5>2. CASE u # t
          BY <5>2, <4>3, <2>2 DEF AuditTypes
        <5> QED  BY <5>1, <5>2
      <4> QED  BY <4>2, <4>4, <3>1
    <3>3. CASE RestartProcess
      <4>1. trace' = [t \in Traces |-> IF trace[t].seq = 0 THEN trace[t]
                                       ELSE [trace[t] EXCEPT !.step = "gone"]]
        BY <3>3 DEF RestartProcess
      <4>2. trace' \in [Traces -> [step : {"ready", "appending", "gone"}, seq : Nat]]
        BY <4>1, <1>1
      <4>3. \A t \in Traces : \/ trace'[t] = trace[t]
                              \/ trace'[t].step = "gone" /\ trace'[t].seq = trace[t].seq
        BY <4>1, <1>1
      <4>4. ASSUME NEW t \in Traces  PROVE trace[t].seq - Len(written[t]) \in {0, 1}
        <5>1. Len(written[t]) \in Nat  BY LenProperties DEF AuditTypes
        <5>2. trace[t].step \in {"ready", "appending", "gone"}  BY <1>1
        <5>3. /\ trace[t].step = "ready" => trace[t].seq = Len(written[t])
              /\ trace[t].step = "appending" => trace[t].seq = Len(written[t]) + 1
              /\ trace[t].step = "gone" => trace[t].seq - Len(written[t]) \in {0, 1}
          BY DEF AuditTypes
        <5> QED  BY <5>1, <5>2, <5>3
      <4>5. ASSUME NEW u \in Traces
            PROVE  /\ trace'[u].step = "ready" => trace'[u].seq = Len(written'[u])
                   /\ trace'[u].step = "appending" => trace'[u].seq = Len(written'[u]) + 1
                   /\ trace'[u].step = "gone" => trace'[u].seq - Len(written'[u]) \in {0, 1}
        <5>1. CASE trace'[u] = trace[u]
          BY <5>1, <2>2 DEF AuditTypes
        <5>2. CASE trace'[u].step = "gone" /\ trace'[u].seq = trace[u].seq
          BY <5>2, <4>4, <2>2
        <5> QED  BY <5>1, <5>2, <4>3
      <4> QED  BY <4>2, <4>5, <3>1
    <3>4. CASE UNCHANGED trace
      BY <3>1, <3>4, <2>2 DEF AuditTypes
    <3>5. \A t \in Traces : GivesUp(t) \/ WritesLine(t) \/ WritesNone(t) \/ WritesTorn(t)
                            => \E h \in {0, made + 1} : Returns(t, h) /\ (h # 0 => made' = made + 1)
      BY DEF GivesUp, WritesLine, WritesNone, WritesTorn, Records
    <3> QED  BY <2>1, <3>2, <3>3, <3>4, <3>5, Kinds DEF CloseSink, Tick, ClockStepsBack, Reads,
                ReaderStarts, ReadsFile, FileIsGone, auditVars, logVars
  <2> QED  BY <2>1, <2>2, ReturnSteps
<1>5. clock' \in 0..MaxClock /\ made' \in Nat
  <2>1. UNCHANGED clock \/ Tick \/ ClockStepsBack
    BY Kinds DEF WritesLine, WritesNone, WritesTorn, Records, GivesUp, Event, CloseSink,
                 RestartProcess, Reads, ReaderStarts, ReadsFile, FileIsGone, auditVars, logVars
  <2> QED  BY <2>1, <1>1, ReturnSteps DEF Tick, ClockStepsBack
<1>6. failures' \in Seq(Kinds6)
  <2>1. failures' = failures \/ \E k \in Kinds6 : failures' = Append(failures, k)
    BY Kinds DEF WritesLine, WritesNone, WritesTorn, Records, GivesUp, Event, CloseSink,
                 RestartProcess, Tick, ClockStepsBack, Fails, Reads, ReaderStarts, ReadsFile,
                 FileIsGone, auditVars, logVars
  <2> HIDE DEF Kinds6
  <2> QED  BY SMTT(30), <2>1, <1>1, AppendProperties
<1>7. /\ reader' = [step |-> reader'.step, todo |-> reader'.todo, got |-> reader'.got]
      /\ reader'.step \in {"none", "reading", "failed"}
      /\ reader'.todo \subseteq Days /\ AreFiles(reader'.got)
  <2>1. CASE UNCHANGED reader
    BY <2>1 DEF AuditTypes
  <2>2. CASE Reads
    <3>1. DOMAIN log \subseteq Days /\ reader.todo \subseteq Days /\ reader.step \in {"none", "reading", "failed"}
      BY <1>1 DEF AuditTypes, AreFiles
    <3> QED  BY <2>2, <3>1, <1>1, ReadSteps DEF ReadsDay
  <2> QED  BY <2>1, <2>2, Kinds DEF WritesLine, WritesNone, WritesTorn, Records, GivesUp, auditVars
<1> QED  BY <1>2, <1>3, <1>4, <1>5, <1>6, <1>7 DEF AuditTypes

----------------------------------------------------------------------------
(* The parts of the invariant that hold in spite of faults.                *)

(* Hashes go on ascending.                                                 *)
LEMMA StepHashes ==
    AuditTypes /\ AuditTypes' /\ HashesAscend /\ [AuditNext]_auditVars => HashesAscend'
<1> SUFFICES ASSUME AuditTypes, AuditTypes', HashesAscend, [AuditNext]_auditVars
             PROVE  HashesAscend'
  OBVIOUS
<1>1. CASE UNCHANGED written
  BY <1>1 DEF HashesAscend
<1>2. ASSUME NEW v \in Traces, NEW h \in {0, made + 1}, Returns(v, h)
      PROVE  HashesAscend'
  <2> DEFINE n == trace[v].seq
  <2>0. made \in Nat /\ h \in Nat
    BY SMTT(30) DEF AuditTypes
  <2>1. /\ \A u \in Traces : u # v => written'[u] = written[u]
        /\ \A i \in DOMAIN written[v] : written'[v][i] = written[v][i] /\ i < n
        /\ DOMAIN written'[v] = DOMAIN written[v] \cup {n} /\ n \notin DOMAIN written[v]
    BY <1>2, <2>0, ReturnFacts
  <2>2. written'[v][n].hash = h
    <3>1. written'[v][n] = [hash |-> h, at |-> clock]
      BY <1>2, <2>0, ReturnFacts
    <3> QED  BY <3>1
  <2>3. \A u \in Traces : \A i \in DOMAIN written[u] :
           written[u][i].hash \in 0..made /\ i \in Nat
    BY HashFacts
  <2>4. n \in Nat
    BY DEF AuditTypes
  <2> HIDE DEF n
  <2>5. \A u \in Traces : \A i \in DOMAIN written'[u] :
           \/ i \in DOMAIN written[u] /\ written'[u][i].hash = written[u][i].hash
           \/ u = v /\ i = n /\ written'[u][i].hash = h
    BY <2>1, <2>2
  <2>6. ASSUME NEW t \in Traces, NEW u \in Traces,
               NEW i \in DOMAIN written'[t], NEW j \in DOMAIN written'[u],
               written'[t][i].hash = written'[u][j].hash, written'[t][i].hash # 0
        PROVE  t = u /\ i = j
    <3>1. CASE i \in DOMAIN written[t] /\ written'[t][i].hash = written[t][i].hash
      <4>1. CASE j \in DOMAIN written[u] /\ written'[u][j].hash = written[u][j].hash
        <5>1. written[t][i].hash = written[u][j].hash /\ written[t][i].hash # 0
          BY <3>1, <4>1, <2>6
        <5> QED  BY <5>1, <3>1, <4>1 DEF HashesAscend
      <4>2. CASE u = v /\ j = n /\ written'[u][j].hash = h
        <5>1. written[t][i].hash = made + 1  BY <3>1, <4>2, <2>6
        <5> QED  BY <5>1, <3>1, <2>0, <2>3
      <4> QED  BY <4>1, <4>2, <2>5
    <3>2. CASE t = v /\ i = n /\ written'[t][i].hash = h
      <4>1. CASE j \in DOMAIN written[u] /\ written'[u][j].hash = written[u][j].hash
        <5>1. written[u][j].hash = made + 1  BY <3>2, <4>1, <2>6
        <5> QED  BY <5>1, <4>1, <2>0, <2>3
      <4>2. CASE u = v /\ j = n
        BY <3>2, <4>2
      <4> QED  BY <4>1, <4>2, <2>5
    <3> QED  BY <3>1, <3>2, <2>5
  <2>7. ASSUME NEW t \in Traces, NEW i \in DOMAIN written'[t], NEW j \in DOMAIN written'[t],
               i < j, written'[t][i].hash # 0, written'[t][j].hash # 0
        PROVE  written'[t][i].hash < written'[t][j].hash
    <3>1. CASE i \in DOMAIN written[t] /\ written'[t][i].hash = written[t][i].hash
      <4>1. CASE j \in DOMAIN written[t] /\ written'[t][j].hash = written[t][j].hash
        BY <3>1, <4>1, <2>7 DEF HashesAscend
      <4>2. CASE t = v /\ j = n /\ written'[t][j].hash = h
        BY <3>1, <4>2, <2>0, <2>3, <2>7
      <4> QED  BY <4>1, <4>2, <2>5
    <3>2. CASE t = v /\ i = n
      <4>1. j \in DOMAIN written[t]  BY <3>2, <2>4, <2>5, <2>7
      <4> QED  BY <4>1, <3>2, <2>1, <2>3, <2>4, <2>7
    <3> QED  BY <3>1, <3>2, <2>5
  <2> QED  BY <2>6, <2>7 DEF HashesAscend
<1> QED  BY <1>1, <1>2, ReturnSteps

(* Only a new process changes the chain, and which traces are gone.        *)
LEMMA ChainSteps ==
    ASSUME AuditTypes, [AuditNext]_auditVars
    PROVE  \/ /\ sink'.chain = sink.chain
              /\ \A t \in Traces : trace'[t].step = "gone" <=> trace[t].step = "gone"
           \/ RestartProcess
<1>1. /\ sink \in [chain : Nat, prev : Nat, date : Int, file : {"nil", "open", "closed"}]
      /\ trace \in [Traces -> [step : {"ready", "appending", "gone"}, seq : Nat]]
  BY DEF AuditTypes
<1>2. sink'.chain = sink.chain \/ RestartProcess
  BY <1>1, Kinds DEF WritesLine, WritesNone, WritesTorn, GivesUp, Event, CloseSink, Tick,
              ClockStepsBack, Reads, ReaderStarts, ReadsFile, FileIsGone, auditVars, logVars, Opened
<1>3. ASSUME NEW t \in Traces, Returns(t, 0) \/ Returns(t, made + 1)
      PROVE  \A u \in Traces : trace'[u].step = "gone" <=> trace[u].step = "gone"
  BY <1>1, <1>3 DEF Returns
<1>4. ASSUME NEW t \in Traces, Event(t)
      PROVE  \A u \in Traces : trace'[u].step = "gone" <=> trace[u].step = "gone"
  BY <1>1, <1>4 DEF Event
<1>5. \/ \A t \in Traces : trace'[t].step = "gone" <=> trace[t].step = "gone"
      \/ RestartProcess
  BY <1>3, <1>4, Kinds DEF WritesLine, WritesNone, WritesTorn, Records, GivesUp, CloseSink, Tick,
              ClockStepsBack, Reads, ReaderStarts, ReadsFile, FileIsGone, auditVars, logVars
<1> QED  BY <1>2, <1>5

(* A line stays the line of its event.                                     *)
LEMMA LinesKeepTheirEvent ==
    ASSUME AuditTypes, AuditTypes', [AuditNext]_auditVars,
           NEW l, NEW t \in Traces, NEW n \in Nat, IsLineOf(l, t, n)
    PROVE  IsLineOf(l, t, n)'
<1>1. n \in DOMAIN written'[t] /\ written'[t][n] = written[t][n]
  BY WrittenGrows DEF IsLineOf
<1>2. CASE /\ sink'.chain = sink.chain
           /\ \A u \in Traces : trace'[u].step = "gone" <=> trace[u].step = "gone"
  BY <1>1, <1>2 DEF IsLineOf
<1>3. CASE RestartProcess
  <2>1. n \in 1..Len(written[t]) /\ Len(written[t]) \in Nat
    BY LenProperties DEF AuditTypes, IsLineOf
  <2>2. trace[t].step \in {"ready", "appending", "gone"} /\ trace[t].seq \in Nat
    BY DEF AuditTypes
  <2>3. trace[t].seq # 0
    <3>1. /\ trace[t].step = "ready" => trace[t].seq = Len(written[t])
          /\ trace[t].step = "appending" => trace[t].seq = Len(written[t]) + 1
          /\ trace[t].step = "gone" => trace[t].seq - Len(written[t]) \in {0, 1}
      BY DEF AuditTypes
    <3> QED  BY <3>1, <2>1, <2>2
  <2>4. trace'[t].step = "gone"
    BY <2>2, <2>3, <1>3 DEF RestartProcess, AuditTypes
  <2> QED  BY <2>4, <1>1 DEF IsLineOf
<1> QED  BY <1>2, <1>3, ChainSteps

(* The line that is written is that of its event.                          *)
LEMMA NewLineIsOfItsEvent ==
    ASSUME AuditTypes, NEW t \in Traces, WritesLine(t),
           NEW l, l = Line(t), NEW n \in Nat, n = trace[t].seq
    PROVE  IsLineOf(l, t, n)'
<1>1. Returns(t, made + 1) /\ made + 1 \in Nat
  BY DEF WritesLine, Records, AuditTypes
<1>2. sink'.chain = sink.chain
  BY DEF WritesLine, Opened, AuditTypes
<1>3. /\ DOMAIN written'[t] = DOMAIN written[t] \cup {trace[t].seq}
      /\ written'[t][trace[t].seq] = [hash |-> made + 1, at |-> clock]
  BY <1>1, ReturnFacts
<1>4. n \in DOMAIN written'[t] /\ written'[t][n] = [hash |-> made + 1, at |-> clock]
  BY <1>3
<1>5. /\ l.hash = made + 1 /\ l.at = clock /\ l.chain = sink.chain
      /\ l.trace = IdOf[t] /\ l.seq = n
  BY NewLines
<1> QED  BY <1>2, <1>4, <1>5 DEF IsLineOf

(* Every line stays genuine.                                               *)
LEMMA StepGenuine ==
    ASSUME AuditTypes, AuditTypes', ReadInOrder, LinesAreGenuine, [AuditNext]_auditVars
    PROVE  LinesAreGenuine'
<1> SUFFICES ASSUME NEW l \in AllLines', l # Torn
             PROVE  /\ l.prev < l.hash /\ l.chain <= sink'.chain
                    /\ \E t \in Traces : \E n \in Nat : IsLineOf(l, t, n)'
  BY DEF LinesAreGenuine
<1>0. /\ sink.chain \in Nat /\ sink'.chain \in Nat /\ sink.prev <= made /\ sink.prev \in Nat
      /\ made \in Nat
  BY DEF AuditTypes
<1>1. sink.chain <= sink'.chain
  BY <1>0, ChainSteps DEF RestartProcess, NewSink
<1>2. CASE l \in AllLines
  <2>1. /\ l.prev < l.hash /\ l.chain <= sink.chain /\ l \in Lines
        /\ \E t \in Traces : \E n \in Nat : IsLineOf(l, t, n)
    BY <1>2, LineFacts
  <2>2. \E t \in Traces : \E n \in Nat : IsLineOf(l, t, n)'
    BY <2>1, LinesKeepTheirEvent
  <2> QED  BY <2>1, <2>2, <1>0, <1>1 DEF Lines
<1>3. ASSUME NEW t \in Traces, WritesLine(t), l = Line(t)
      PROVE  /\ l.prev < l.hash /\ l.chain <= sink'.chain
             /\ \E u \in Traces : \E n \in Nat : IsLineOf(l, u, n)'
  <2>1. trace[t].seq \in Nat  BY DEF AuditTypes
  <2>2. \E n \in Nat : IsLineOf(l, t, n)'
    BY <2>1, <1>3, NewLineIsOfItsEvent
  <2>3. l.prev = sink.prev /\ l.hash = made + 1 /\ l.chain = sink.chain
    BY <1>3, NewLines
  <2> QED  BY <2>2, <2>3, <1>0, <1>1
<1> QED  BY <1>2, <1>3, LineSources

(* A trace keeps to its chain.                                             *)
LEMMA StepOneChainPerTrace ==
    ASSUME AuditTypes, AuditTypes', ReadInOrder, HashesAscend', LinesAreGenuine,
           OneChainPerTrace, [AuditNext]_auditVars
    PROVE  OneChainPerTrace'
<1>1. \A l, t, i : IsLineOf(l, t, i)' =>
         /\ i \in DOMAIN written'[t] /\ l.hash = written'[t][i].hash /\ l.seq = i
  BY DEF IsLineOf
<1>2. ASSUME NEW l \in AllLines', NEW t \in Traces, NEW i \in Nat, IsLineOf(l, t, i)'
      PROVE  \/ l \in AllLines /\ IsLineOf(l, t, i)
             \/ WritesLine(t) /\ l = Line(t)
  <2>1. l # Torn
    <3>1. i # 0
      BY <1>1, <1>2, HashFactsNext
    <3>2. Torn.seq = 0  BY DEF Torn
    <3> QED  BY <3>1, <3>2, <1>1, <1>2
  <2>2. CASE l \in AllLines
    <3>1. PICK u \in Traces, n \in Nat : IsLineOf(l, u, n)
      BY <2>1, <2>2, LineFacts
    <3>2. IsLineOf(l, u, n)'
      BY <3>1, LinesKeepTheirEvent
    <3>3. l.hash # 0
      BY <2>1, <2>2, LineFacts, HashFacts
    <3>4. u = t /\ n = i
      BY <3>2, <3>3, <1>1, <1>2 DEF HashesAscend
    <3> QED  BY <2>2, <3>1, <3>4
  <2>3. CASE \E u \in Traces : WritesLine(u) /\ l = Line(u)
    <3>1. PICK u \in Traces : WritesLine(u) /\ l = Line(u)
      BY <2>3
    <3>2. trace[u].seq \in Nat  BY DEF AuditTypes
    <3>3. PICK n \in Nat : IsLineOf(l, u, n)'
      BY <3>1, <3>2, NewLineIsOfItsEvent
    <3>4. l.hash # 0
      BY <3>1, NewLines, HashFacts
    <3>5. u = t
      BY <3>3, <3>4, <1>1, <1>2 DEF HashesAscend
    <3> QED  BY <3>1, <3>5
  <2> QED  BY <2>1, <2>2, <2>3, LineSources
<1>3. ASSUME NEW k, NEW t \in Traces, NEW i \in Nat, IsLineOf(k, t, i), WritesLine(t)
      PROVE  k.chain = sink.chain
  <2>1. trace[t].step = "appending"
    BY <1>3 DEF WritesLine, Records, Returns
  <2> QED  BY <2>1, <1>3 DEF IsLineOf
<1>4. ASSUME NEW k \in AllLines', NEW l \in AllLines', NEW t \in Traces,
             NEW i \in Nat, NEW j \in Nat, IsLineOf(k, t, i)', IsLineOf(l, t, j)'
      PROVE  k.chain = l.chain
  <2>1. \/ k \in AllLines /\ IsLineOf(k, t, i)
        \/ WritesLine(t) /\ k = Line(t)
    BY <1>2, <1>4
  <2>2. \/ l \in AllLines /\ IsLineOf(l, t, j)
        \/ WritesLine(t) /\ l = Line(t)
    BY <1>2, <1>4
  <2>3. WritesLine(t) => Line(t).chain = sink.chain
    BY NewLines
  <2> QED  BY <2>1, <2>2, <2>3, <1>3 DEF OneChainPerTrace
<1> QED  BY <1>4 DEF OneChainPerTrace

(* What the files are after a step.                                        *)
LEMMA LogSteps ==
    ASSUME AuditTypes, [AuditNext]_auditVars
    PROVE  \/ UNCHANGED log
           \/ \E t \in Traces : /\ log' = LogWith(<<Line(t)>>) /\ WritesLine(t)
           \/ \E t \in Traces : /\ log' = LogWith(<< >>) /\ WritesNone(t)
           \/ \E t \in Traces : /\ log' = LogWith(<<Torn>>) /\ WritesTorn(t)
BY Kinds DEF WritesLine, WritesNone, WritesTorn, Records, GivesUp, Event, CloseSink,
             RestartProcess, Tick, ClockStepsBack, Reads, ReaderStarts, ReadsFile, FileIsGone,
             auditVars, logVars

(* Where lines stand after a write: where they stood, or, one at most, new *)
(* in today's file.                                                        *)
LEMMA PlacesAfterWrite ==
    ASSUME AuditTypes, NEW lines \in Seq(Lines), Len(lines) \in {0, 1},
           log' = LogWith(lines)
    PROVE  /\ \A p \in Places(log)' :
                 \/ p \in Places(log) /\ At(log', p) = At(log, p)
                 \/ /\ p[1] = Today /\ p[2] = OldLength + 1 /\ p = <<p[1], p[2]>>
                    /\ Len(lines) = 1 /\ At(log', p) = lines[1]
           /\ \A p \in Places(log) :
                 /\ p[1] = Today => p[2] <= OldLength
                 /\ p[1] \in DOMAIN log' => p \in Places(log)' /\ At(log', p) = At(log, p)
           /\ Len(lines) = 1 => Has(log, lines[1].hash)'
           /\ \A d \in DOMAIN log', e \in DOMAIN log \ DOMAIN log' : d # Today => e < d
           /\ Today \in DOMAIN log' /\ DOMAIN log' \subseteq DOMAIN log \cup {Today}
           /\ OldLength \in Nat
<1> DEFINE es == LogWith(lines)
<1>1. /\ AreFiles(es) /\ OldLength \in Nat
      /\ Today \in DOMAIN es /\ DOMAIN es \subseteq DOMAIN log \cup {Today}
      /\ \A d \in DOMAIN es, e \in DOMAIN log \ DOMAIN es : d # Today => e < d
      /\ \A p \in Places(log) :
            /\ p[1] = Today => p[2] <= OldLength
            /\ p[1] \in DOMAIN es => p \in Places(es) /\ At(es, p) = At(log, p)
      /\ \A p \in Places(es) :
            \/ p \in Places(log) /\ At(es, p) = At(log, p)
            \/ /\ p[1] = Today /\ OldLength < p[2]
               /\ p[2] - OldLength \in 1..Len(lines)
               /\ At(es, p) = lines[p[2] - OldLength]
      /\ \A i \in 1..Len(lines) :
            /\ <<Today, OldLength + i>> \in Places(es)
            /\ At(es, <<Today, OldLength + i>>) = lines[i]
  BY LogWithFacts
<1>2. log' = es
  OBVIOUS
<1> HIDE DEF es
<1>3. Places(log)' = Places(es)
  BY <1>2 DEF Places
<1>4. ASSUME NEW p \in Places(es)
      PROVE  \/ p \in Places(log) /\ At(es, p) = At(log, p)
             \/ /\ p[1] = Today /\ p[2] = OldLength + 1 /\ p = <<p[1], p[2]>>
                /\ Len(lines) = 1 /\ At(es, p) = lines[1]
  <2>1. CASE p \in Places(log) /\ At(es, p) = At(log, p)
    BY <2>1
  <2>2. CASE /\ p[1] = Today /\ OldLength < p[2]
             /\ p[2] - OldLength \in 1..Len(lines)
             /\ At(es, p) = lines[p[2] - OldLength]
    <3>1. p[2] \in Nat /\ p = <<p[1], p[2]>>  BY <1>1, PlaceTypes
    <3>2. Len(lines) = 1 /\ p[2] - OldLength = 1  BY <2>2
    <3> QED  BY <3>1, <3>2, <2>2, <1>1
  <2> QED  BY <2>1, <2>2, <1>1
<1>5. Len(lines) = 1 => Has(log, lines[1].hash)'
  <2>1. Len(lines) = 1 => /\ <<Today, OldLength + 1>> \in Places(es)
                          /\ At(es, <<Today, OldLength + 1>>) = lines[1]
    BY <1>1
  <2> QED  BY <2>1, <1>2, <1>3 DEF Has
<1> QED  BY <1>1, <1>2, <1>3, <1>4, <1>5

(* The files after any step, with what is known of a new line.             *)
LEMMA PlaceSteps ==
    ASSUME AuditTypes, [AuditNext]_auditVars, log' # log
    PROVE  /\ \A p \in Places(log)' :
                 \/ p \in Places(log) /\ At(log', p) = At(log, p)
                 \/ /\ p[1] = Today /\ p[2] = OldLength + 1 /\ p = <<p[1], p[2]>>
                    /\ \E t \in Traces : \/ WritesLine(t) /\ At(log', p) = Line(t)
                                         \/ WritesTorn(t) /\ At(log', p) = Torn
           /\ \A p \in Places(log) :
                 /\ p[1] = Today => p[2] <= OldLength
                 /\ p[1] \in DOMAIN log' => p \in Places(log)' /\ At(log', p) = At(log, p)
           /\ \A d \in DOMAIN log', e \in DOMAIN log \ DOMAIN log' : d # Today => e < d
           /\ Today \in DOMAIN log' /\ DOMAIN log' \subseteq DOMAIN log \cup {Today}
           /\ OldLength \in Nat
           /\ UNCHANGED <<clock, reader>>
<1>1. ASSUME NEW t \in Traces, WritesLine(t)
      PROVE  \E lines \in Seq(Lines) :
                /\ Len(lines) = 1 /\ lines[1] = Line(t) /\ log' = LogWith(lines)
  BY <1>1, NewLines DEF WritesLine, Records
<1>2. ASSUME NEW t \in Traces, WritesTorn(t)
      PROVE  \E lines \in Seq(Lines) :
                /\ Len(lines) = 1 /\ lines[1] = Torn /\ log' = LogWith(lines)
  BY <1>2, NewLines DEF WritesTorn, Records
<1>3. ASSUME NEW t \in Traces, WritesNone(t)
      PROVE  \E lines \in Seq(Lines) : Len(lines) = 0 /\ log' = LogWith(lines)
  BY <1>3, NewLines DEF WritesNone, Records
<1> DEFINE Comes(lines) == \E t \in Traces : \/ WritesLine(t) /\ lines[1] = Line(t)
                                             \/ WritesTorn(t) /\ lines[1] = Torn
<1>4. PICK lines \in Seq(Lines) :
         /\ Len(lines) \in {0, 1} /\ log' = LogWith(lines)
         /\ Len(lines) = 1 => Comes(lines)
  <2>1. CASE \E t \in Traces : WritesLine(t)
    BY <2>1, <1>1
  <2>2. CASE \E t \in Traces : WritesTorn(t)
    BY <2>2, <1>2
  <2>3. CASE \E t \in Traces : WritesNone(t)
    <3>1. PICK lines \in Seq(Lines) : Len(lines) = 0 /\ log' = LogWith(lines)
      BY <2>3, <1>3
    <3>2. Len(lines) \in {0, 1} /\ (Len(lines) = 1 => Comes(lines))
      BY <3>1
    <3> QED  BY <3>1, <3>2
  <2> QED  BY <2>1, <2>2, <2>3, LogSteps
<1>5. UNCHANGED <<clock, reader>>
  BY LogSteps DEF WritesLine, WritesNone, WritesTorn, Records
<1>6. \A p \in Places(log)' :
         \/ p \in Places(log) /\ At(log', p) = At(log, p)
         \/ /\ p[1] = Today /\ p[2] = OldLength + 1 /\ p = <<p[1], p[2]>>
            /\ \E t \in Traces : \/ WritesLine(t) /\ At(log', p) = Line(t)
                                 \/ WritesTorn(t) /\ At(log', p) = Torn
  BY <1>4, PlacesAfterWrite
<1> QED  BY <1>4, <1>5, <1>6, PlacesAfterWrite

(* Hashes stay unique in the files, and lines name earlier ones.           *)
LEMMA StepUnforged ==
    ASSUME AuditTypes, AuditTypes', LinesAreGenuine, LinesAreGenuine', Unforged(log),
           [AuditNext]_auditVars
    PROVE  Unforged(log)'
<1>1. CASE log' = log
  BY <1>1 DEF Unforged
<1>2. CASE log' # log
  <2>1. \A p \in Places(log)' : At(log', p) # Torn => At(log', p).prev < At(log', p).hash
    <3>1. \A p \in Places(log)' : At(log', p) \in AllLines'
      BY DEF AllLines, LinesOf
    <3> QED  BY <3>1 DEF LinesAreGenuine
  <2>2. \A p \in Places(log) : At(log, p) # Torn => At(log, p).hash \in 1..made
    <3>1. \A p \in Places(log) : At(log, p) \in AllLines
      BY DEF AllLines, LinesOf
    <3> QED  BY <3>1, LineFacts, HashFacts
  <2>3. made \in Nat /\ Torn.hash = 0
    BY HashFacts DEF Torn
  <2>4. \A t \in Traces : Line(t).hash = made + 1
    BY NewLines
  <2>5. ASSUME NEW p \in Places(log)', NEW q \in Places(log)', At(log', p) # Torn,
               At(log', p).hash = At(log', q).hash
        PROVE  p = q
    <3> DEFINE Stays(r) == r \in Places(log) /\ At(log', r) = At(log, r)
               IsNew(r) == /\ r[1] = Today /\ r[2] = OldLength + 1 /\ r = <<r[1], r[2]>>
                           /\ \E t \in Traces : \/ WritesLine(t) /\ At(log', r) = Line(t)
                                                \/ WritesTorn(t) /\ At(log', r) = Torn
    <3>1. (Stays(p) \/ IsNew(p)) /\ (Stays(q) \/ IsNew(q))
      BY <1>2, PlaceSteps
    <3>2. CASE Stays(p) /\ Stays(q)
      BY <3>2, <2>5 DEF Unforged
    <3>3. CASE IsNew(p) /\ IsNew(q)
      BY <3>3
    <3>4. CASE Stays(p) /\ IsNew(q)
      <4>1. At(log', p).hash \in 1..made  BY <3>4, <2>2, <2>5
      <4>2. At(log', q).hash \in {0, made + 1}  BY <3>4, <2>3, <2>4
      <4> QED  BY <4>1, <4>2, <2>3, <2>5
    <3>5. CASE IsNew(p) /\ Stays(q)
      <4>1. At(log', p).hash = made + 1  BY <3>5, <2>4, <2>5
      <4>2. At(log', q) # Torn  BY <4>1, <2>3, <2>5
      <4>3. At(log', q).hash \in 1..made  BY <4>2, <3>5, <2>2
      <4> QED  BY <4>1, <4>3, <2>3, <2>5
    <3> QED  BY <3>1, <3>2, <3>3, <3>4, <3>5
  <2> QED  BY <2>1, <2>5 DEF Unforged
<1> QED  BY <1>1, <1>2

(* Files are read in their order.                                          *)
LEMMA StepReadInOrder ==
    AuditTypes /\ ReadInOrder /\ [AuditNext]_auditVars => ReadInOrder'
<1> SUFFICES ASSUME AuditTypes, ReadInOrder, [AuditNext]_auditVars
             PROVE  ReadInOrder'
  OBVIOUS
<1>1. CASE UNCHANGED reader
  BY <1>1 DEF ReadInOrder
<1>2. CASE Reads
  <2>1. CASE reader'.step = "reading" /\ reader'.got = reader.got /\ DOMAIN reader.got = {}
    BY <2>1 DEF ReadInOrder
  <2>2. ASSUME NEW d \in DOMAIN log, ReadsDay(d)  PROVE ReadInOrder'
    <3>1. reader.step # "none"
      BY <2>2 DEF ReadsDay, ReadInOrder
    <3>2. \A e \in reader'.todo : d < e /\ e \in reader.todo
      BY <2>2 DEF ReadsDay
    <3>3. \A c \in DOMAIN reader.got, e \in reader.todo : c < e
      BY DEF ReadInOrder
    <3>4. DOMAIN reader'.got = DOMAIN reader.got \cup {d} /\ reader'.step = reader.step
      BY <2>2 DEF ReadsDay
    <3> QED  BY <3>1, <3>2, <3>3, <3>4 DEF ReadInOrder
  <2>3. CASE reader'.step = "failed" /\ DOMAIN reader'.got = {}
    BY <2>3 DEF ReadInOrder
  <2> QED  BY <2>1, <2>2, <2>3, <1>2, ReadSteps
<1> QED  BY <1>1, <1>2, Kinds DEF WritesLine, WritesNone, WritesTorn, Records, GivesUp, auditVars

----------------------------------------------------------------------------
(* The parts of the invariant that hold as long as no fault excuses a log  *)
(* that does not verify.                                                   *)

(* A step without such a fault.                                            *)
LEMMA UndisturbedSteps ==
    ASSUME AuditTypes, AuditTypes', [AuditNext]_auditVars, Undisturbed'
    PROVE  /\ Undisturbed /\ ~ ClockStepsBack
           /\ \A t \in Traces : /\ ~ WritesTorn(t)
                                /\ WritesLine(t) => sink' = [Opened EXCEPT !.prev = made + 1]
<1> DEFINE Kinds6 == {"close", "open", "write", "torn", "sync", "clock"}
           Bad == {"torn", "sync", "clock"}
<1>1. failures \in Seq(Kinds6)
  BY DEF AuditTypes
<1>2. ASSUME NEW kind \in Kinds6, failures' = Append(failures, kind)
      PROVE  kind \notin Bad /\ \A i \in DOMAIN failures : failures'[i] = failures[i] /\ i \in DOMAIN failures'
  <2>1. /\ Len(failures) \in Nat /\ DOMAIN failures = 1..Len(failures)
        /\ DOMAIN failures' = 1..(Len(failures) + 1)
        /\ failures'[Len(failures) + 1] = kind
        /\ \A i \in 1..Len(failures) : failures'[i] = failures[i]
    BY <1>1, <1>2, LenProperties, AppendProperties
  <2> QED  BY <2>1 DEF Undisturbed
<1>3. \/ UNCHANGED failures
      \/ \E kind \in Kinds6 : failures' = Append(failures, kind)
  BY Kinds DEF WritesLine, WritesNone, WritesTorn, GivesUp, Event, CloseSink, RestartProcess,
               Tick, ClockStepsBack, Fails, Reads, ReaderStarts, ReadsFile, FileIsGone,
               auditVars, logVars
<1>4. Undisturbed
  BY <1>2, <1>3 DEF Undisturbed
<1>5. ~ ClockStepsBack
  BY <1>2 DEF ClockStepsBack, Fails
<1>6. ASSUME NEW t \in Traces
      PROVE  /\ ~ WritesTorn(t)
             /\ WritesLine(t) => sink' = [Opened EXCEPT !.prev = made + 1]
  BY <1>2 DEF WritesTorn, WritesLine
<1> QED  BY <1>4, <1>5, <1>6

(* Then the clock is never set back, and only a write or a new process     *)
(* changes what the sink remembers.                                        *)
LEMMA QuietSteps ==
    ASSUME AuditTypes, AuditTypes', [AuditNext]_auditVars, Undisturbed'
    PROVE  /\ clock \in Nat /\ clock' \in Nat /\ clock <= clock'
           /\ Today \in Nat /\ Today' \in Nat /\ Today <= Today'
           /\ log' = log \/ \E t \in Traces : WritesLine(t) \/ WritesNone(t)
           /\ (\A t \in Traces : ~ WritesLine(t)) =>
                 \/ sink'.prev = sink.prev /\ sink'.chain = sink.chain
                 \/ RestartProcess
<1>1. ~ ClockStepsBack /\ \A t \in Traces : ~ WritesTorn(t)
  BY UndisturbedSteps
<1>2. clock \in Nat /\ clock' \in Nat
  BY AuditAssumptions DEF AuditTypes
<1>3. clock <= clock'
  <2>1. clock' = clock \/ clock' = clock + 1
    <3>1. ASSUME NEW t \in Traces, WritesLine(t) \/ WritesNone(t) \/ GivesUp(t) \/ Event(t)
          PROVE  clock' = clock
      BY <3>1 DEF WritesLine, WritesNone, Records, GivesUp, Event
    <3>2. Reads \/ CloseSink \/ RestartProcess \/ UNCHANGED auditVars => clock' = clock
      BY DEF CloseSink, RestartProcess, Reads, ReaderStarts, ReadsFile, FileIsGone,
             auditVars, logVars
    <3>3. Tick => clock' = clock + 1
      BY DEF Tick
    <3> QED  BY <3>1, <3>2, <3>3, <1>1, Kinds
  <2> QED  BY <2>1, <1>2
<1>4. Today \in Nat /\ Today' \in Nat /\ Today <= Today'
  BY <1>2, <1>3, DaysAreMonotone DEF Today
<1>5. log' = log \/ \E t \in Traces : WritesLine(t) \/ WritesNone(t)
  BY <1>1, LogSteps
<1>6. (\A t \in Traces : ~ WritesLine(t)) =>
         \/ sink'.prev = sink.prev /\ sink'.chain = sink.chain
         \/ RestartProcess
  <2>1. sink \in [chain : Nat, prev : Nat, date : Int, file : {"nil", "open", "closed"}]
    BY DEF AuditTypes
  <2> QED
    BY <2>1, <1>1, Kinds DEF WritesNone, GivesUp, Event, CloseSink, Tick, Reads,
        ReaderStarts, ReadsFile, FileIsGone, auditVars, logVars, Opened
<1> QED  BY <1>2, <1>3, <1>4, <1>5, <1>6

(* The files after a write, if no line is torn.                            *)
LEMMA WriteSteps ==
    ASSUME AuditTypes, NEW t \in Traces, WritesLine(t) \/ WritesNone(t)
    PROVE  /\ \A p \in Places(log)' :
                 \/ p \in Places(log) /\ At(log', p) = At(log, p)
                 \/ /\ p[1] = Today /\ p[2] = OldLength + 1 /\ p = <<p[1], p[2]>>
                    /\ WritesLine(t) /\ At(log', p) = Line(t)
           /\ \A p \in Places(log) :
                 /\ p[1] = Today => p[2] <= OldLength
                 /\ p[1] \in DOMAIN log' => p \in Places(log)' /\ At(log', p) = At(log, p)
           /\ \A d \in DOMAIN log', e \in DOMAIN log \ DOMAIN log' : d # Today => e < d
           /\ Today \in DOMAIN log' /\ DOMAIN log' \subseteq DOMAIN log \cup {Today}
           /\ OldLength \in Nat
           /\ WritesLine(t) => Has(log', made + 1)
           /\ UNCHANGED <<clock, reader>>
<1>1. CASE WritesLine(t)
  <2> DEFINE one == <<Line(t)>>
  <2>1. /\ one \in Seq(Lines) /\ Len(one) = 1 /\ one[1] = Line(t) /\ log' = LogWith(one)
        /\ Line(t).hash = made + 1
    BY <1>1, NewLines DEF WritesLine, Records
  <2>3. UNCHANGED <<clock, reader>>
    BY <1>1 DEF WritesLine, Records
  <2> HIDE DEF one
  <2>4. Has(log', one[1].hash)
    BY <2>1, PlacesAfterWrite DEF Has, Places
  <2>5. Has(log', made + 1)
    BY <2>1, <2>4
  <2>6. /\ \A p \in Places(log)' :
              \/ p \in Places(log) /\ At(log', p) = At(log, p)
              \/ /\ p[1] = Today /\ p[2] = OldLength + 1 /\ p = <<p[1], p[2]>>
                 /\ Len(one) = 1 /\ At(log', p) = one[1]
        /\ \A p \in Places(log) :
              /\ p[1] = Today => p[2] <= OldLength
              /\ p[1] \in DOMAIN log' => p \in Places(log)' /\ At(log', p) = At(log, p)
        /\ \A d \in DOMAIN log', e \in DOMAIN log \ DOMAIN log' : d # Today => e < d
        /\ Today \in DOMAIN log' /\ DOMAIN log' \subseteq DOMAIN log \cup {Today}
        /\ OldLength \in Nat
    BY <2>1, PlacesAfterWrite
  <2> QED  BY <1>1, <2>1, <2>3, <2>5, <2>6
<1>2. CASE WritesNone(t)
  <2> DEFINE none == << >>
  <2>1. none \in Seq(Lines) /\ Len(none) = 0 /\ log' = LogWith(none)
    BY <1>2, NewLines DEF WritesNone, Records
  <2>2. UNCHANGED <<clock, reader>>
    BY <1>2 DEF WritesNone, Records
  <2>3. ~ WritesLine(t)
    BY <1>2 DEF WritesNone, WritesLine, Records, Returns
  <2> HIDE DEF none
  <2>4. /\ \A p \in Places(log)' :
              \/ p \in Places(log) /\ At(log', p) = At(log, p)
              \/ /\ p[1] = Today /\ p[2] = OldLength + 1 /\ p = <<p[1], p[2]>>
                 /\ Len(none) = 1 /\ At(log', p) = none[1]
        /\ \A p \in Places(log) :
              /\ p[1] = Today => p[2] <= OldLength
              /\ p[1] \in DOMAIN log' => p \in Places(log)' /\ At(log', p) = At(log, p)
        /\ \A d \in DOMAIN log', e \in DOMAIN log \ DOMAIN log' : d # Today => e < d
        /\ Today \in DOMAIN log' /\ DOMAIN log' \subseteq DOMAIN log \cup {Today}
        /\ OldLength \in Nat
    BY <2>1, PlacesAfterWrite
  <2> QED  BY <2>1, <2>2, <2>3, <2>4
<1> QED  BY <1>1, <1>2

(* What is known of every line while nothing is torn.                      *)
LEMMA SettledLines ==
    ASSUME AuditTypes, LinesAreGenuine, Dated(log), Dated(reader.got), NEW l \in AllLines
    PROVE  /\ l # Torn /\ l \in Lines /\ l.hash \in Hashes /\ l.hash \in 1..made
           /\ l.hash \in Nat /\ l.prev \in Nat /\ l.chain \in Nat /\ l.chain <= sink.chain
<1>1. l # Torn
  BY DEF AllLines, LinesOf, Dated
<1> QED  BY <1>1, LineFacts, HashFacts DEF Lines

(* A step records one event with the next hash, or none.                   *)
LEMMA QuietLines ==
    ASSUME AuditTypes, AuditTypes', ReadInOrder, [AuditNext]_auditVars, Undisturbed'
    PROVE  \/ \E t \in Traces : /\ WritesLine(t) /\ AllLines' \subseteq AllLines \cup {Line(t)}
                                /\ Hashes' = Hashes \cup {made + 1}
           \/ /\ \A t \in Traces : ~ WritesLine(t)
              /\ AllLines' \subseteq AllLines /\ Hashes' = Hashes
<1>1. CASE \E t \in Traces : WritesLine(t)
  BY <1>1, LineSources, WrittenGrows
<1>2. CASE \A t \in Traces : ~ WritesLine(t)
  <2>1. AllLines' \subseteq AllLines
    BY <1>2, LineSources, UndisturbedSteps
  <2>2. Hashes' = Hashes
    BY <1>2, WrittenGrows
  <2> QED  BY <1>2, <2>1, <2>2
<1> QED  BY <1>1, <1>2

(* Which days there are after a step.                                      *)
LEMMA DaySteps ==
    ASSUME AuditTypes, AuditTypes', ReadInOrder, [AuditNext]_auditVars, Undisturbed'
    PROVE  /\ DOMAIN log' \subseteq DOMAIN log \cup {Today}
           /\ DOMAIN reader'.got \subseteq DOMAIN reader.got \cup DOMAIN log
           /\ reader'.todo \subseteq reader.todo \cup DOMAIN log
<1>1. DOMAIN log' \subseteq DOMAIN log \cup {Today}
  BY QuietSteps, WriteSteps
<1>2. CASE UNCHANGED reader
  BY <1>1, <1>2
<1>3. CASE Reads
  BY <1>1, <1>3, ReadSteps DEF ReadsDay
<1> QED  BY <1>2, <1>3, Kinds DEF WritesLine, WritesNone, WritesTorn, Records, GivesUp, auditVars

(* Time goes on.                                                           *)
LEMMA StepTime ==
    ASSUME AuditTypes, AuditTypes', ReadInOrder, TimeAscends,
           [AuditNext]_auditVars, Undisturbed'
    PROVE  TimeAscends'
<1>1. /\ clock \in Nat /\ clock' \in Nat /\ clock <= clock'
      /\ Today \in Nat /\ Today' \in Nat /\ Today <= Today'
  BY QuietSteps
<1>2. \A d \in DOMAIN log' \cup DOMAIN reader'.got \cup reader'.todo : d <= Today'
  <2>1. \A d \in DOMAIN log \cup DOMAIN reader.got \cup reader.todo : d <= Today /\ d \in Nat
    BY LastDay DEF TimeAscends, AuditTypes, AreFiles, Days
  <2>2. ASSUME NEW d \in DOMAIN log' \cup DOMAIN reader'.got \cup reader'.todo
        PROVE  d <= Today'
    <3>1. d = Today \/ d \in DOMAIN log \cup DOMAIN reader.got \cup reader.todo
      BY DaySteps
    <3> QED  BY <3>1, <2>1, <1>1
  <2> QED  BY <2>2
<1>3. \A t \in Traces : \A i \in DOMAIN written[t] :
         /\ written[t][i].hash \in 0..made /\ written[t][i].at \in Nat
         /\ written[t][i].at <= clock
  BY HashFacts DEF TimeAscends
<1>4. CASE UNCHANGED written
  <2>1. \A t \in Traces : \A i \in DOMAIN written'[t] : written'[t][i].at <= clock'
    BY <1>1, <1>3, <1>4
  <2> QED  BY <2>1, <1>2, <1>4 DEF TimeAscends
<1>5. ASSUME NEW v \in Traces, NEW h \in {0, made + 1}, Returns(v, h), UNCHANGED clock
      PROVE  TimeAscends'
  <2> DEFINE n == trace[v].seq
  <2>0. made \in Nat /\ h \in Nat
    BY SMTT(30) DEF AuditTypes
  <2>1. /\ \A u \in Traces : u # v => written'[u] = written[u]
        /\ \A i \in DOMAIN written[v] : written'[v][i] = written[v][i]
        /\ DOMAIN written'[v] = DOMAIN written[v] \cup {n}
        /\ written'[v][n] = [hash |-> h, at |-> clock]
    BY <1>5, <2>0, ReturnFacts
  <2> HIDE DEF n
  <2>2. \A u \in Traces : \A i \in DOMAIN written'[u] :
           \/ i \in DOMAIN written[u] /\ written'[u][i] = written[u][i]
           \/ u = v /\ i = n /\ written'[u][i] = [hash |-> h, at |-> clock]
    BY <2>1
  <2>3. \A t \in Traces : \A i \in DOMAIN written'[t] :
           written'[t][i].at <= clock /\ written'[t][i].at \in Nat
    BY <2>2, <1>1, <1>3
  <2>4. ASSUME NEW t \in Traces, NEW u \in Traces,
               NEW i \in DOMAIN written'[t], NEW j \in DOMAIN written'[u],
               written'[t][i].hash # 0, written'[t][i].hash < written'[u][j].hash
        PROVE  written'[t][i].at <= written'[u][j].at
    <3>1. CASE j \in DOMAIN written[u] /\ written'[u][j] = written[u][j]
      <4>1. CASE i \in DOMAIN written[t] /\ written'[t][i] = written[t][i]
        BY <3>1, <4>1, <2>4 DEF TimeAscends
      <4>2. CASE t = v /\ i = n /\ written'[t][i] = [hash |-> h, at |-> clock]
        <5>1. written'[t][i].hash = made + 1  BY <4>2, <2>4
        <5>2. written'[u][j].hash \in 0..made  BY <3>1, <1>3
        <5> QED  BY <5>1, <5>2, <2>0, <2>4
      <4> QED  BY <4>1, <4>2, <2>2
    <3>2. CASE written'[u][j] = [hash |-> h, at |-> clock]
      BY <3>2, <2>3
    <3> QED  BY <3>1, <3>2, <2>2
  <2>5. clock' = clock
    BY <1>5
  <2> QED  BY <2>3, <2>4, <2>5, <1>2 DEF TimeAscends
<1> QED  BY <1>4, <1>5, ReturnSteps

(* Files keep the lines of their days.                                     *)
LEMMA StepDatedLog ==
    ASSUME AuditTypes, AuditTypes', LinesAreGenuine, Dated(log), Dated(reader.got),
           [AuditNext]_auditVars, Undisturbed'
    PROVE  Dated(log)'
<1>1. CASE log' = log
  BY <1>1 DEF Dated
<1>2. ASSUME NEW t \in Traces, WritesLine(t) \/ WritesNone(t)
      PROVE  Dated(log)'
  <2> DEFINE Stays(p) == p \in Places(log) /\ At(log', p) = At(log, p)
             IsNew(p) == /\ p[1] = Today /\ p[2] = OldLength + 1
                         /\ WritesLine(t) /\ At(log', p) = Line(t)
  <2>1. \A p \in Places(log)' : Stays(p) \/ IsNew(p)
    BY <1>2, WriteSteps
  <2>2. /\ Line(t).hash = made + 1 /\ Line(t).at = clock /\ Line(t) # Torn
        /\ made \in Nat /\ OldLength \in Nat
    BY <1>2, NewLines, HashFacts, WriteSteps
  <2>3. \A p \in Places(log) : At(log, p).hash \in 1..made
    BY SettledLines DEF AllLines, LinesOf
  <2>4. \A p \in Places(log) : p[1] = Today => p[2] <= OldLength
    BY <1>2, WriteSteps
  <2>5. ASSUME NEW p \in Places(log)'
        PROVE  At(log', p) # Torn /\ At(log', p).at \div TicksPerDay = p[1]
    <3>1. CASE Stays(p)
      BY <3>1 DEF Dated
    <3>2. CASE IsNew(p)
      BY <3>2, <2>2 DEF Today
    <3> QED  BY <3>1, <3>2, <2>1
  <2>6. ASSUME NEW p \in Places(log)', NEW q \in Places(log)', p[1] = q[1], p[2] < q[2]
        PROVE  At(log', p).hash < At(log', q).hash
    <3>0. AreFiles(log') /\ p \in Places(log') /\ q \in Places(log')
      BY DEF AuditTypes, Places
    <3>1. p[2] \in Nat /\ q[2] \in Nat
      BY <3>0, PlaceTypes
    <3>2. CASE Stays(p) /\ Stays(q)
      BY <3>2, <2>6 DEF Dated
    <3>3. CASE Stays(p) /\ IsNew(q)
      BY <3>3, <2>2, <2>3
    <3>4. CASE IsNew(p) /\ Stays(q)
      BY <3>4, <3>1, <2>2, <2>4, <2>6
    <3>5. CASE IsNew(p) /\ IsNew(q)
      BY <3>5, <3>1, <2>6
    <3> QED  BY <3>2, <3>3, <3>4, <3>5, <2>1
  <2> QED  BY <2>5, <2>6 DEF Dated
<1> QED  BY <1>1, <1>2, QuietSteps

(* ... and so do those that were read.                                     *)
LEMMA StepDatedRead ==
    ASSUME AuditTypes, ReadInOrder, Dated(log), Dated(reader.got), [AuditNext]_auditVars
    PROVE  Dated(reader'.got)
<1>1. CASE UNCHANGED reader
  BY <1>1 DEF Dated
<1>2. CASE reader'.got = reader.got
  BY <1>2 DEF Dated
<1>3. CASE \E d \in DOMAIN log : ReadsDay(d)
  <2>1. PICK d \in DOMAIN log : ReadsDay(d)
    BY <1>3
  <2>2. \A p \in Places(reader'.got) :
           \/ p \in Places(reader.got) /\ p[1] # d /\ At(reader'.got, p) = At(reader.got, p)
           \/ p \in Places(log) /\ p[1] = d /\ At(reader'.got, p) = At(log, p)
    BY <2>1 DEF ReadsDay
  <2> QED  BY <2>2 DEF Dated
<1>4. CASE DOMAIN reader'.got = {}
  BY <1>4 DEF Dated, Places
<1> QED  BY <1>1, <1>2, <1>3, <1>4, ReadSteps, Kinds
         DEF WritesLine, WritesNone, WritesTorn, Records, GivesUp, auditVars

(* Lines go on naming their predecessors.                                  *)
LEMMA StepLinked ==
    ASSUME AuditTypes, AuditTypes', ReadInOrder, LinesAreGenuine,
           Dated(log), Dated(reader.got), Linked, SinkIsCurrent,
           [AuditNext]_auditVars, Undisturbed'
    PROVE  Linked'
<1>0. made \in Nat /\ sink.prev \in Nat /\ sink.chain \in Nat
  BY DEF AuditTypes
<1>1. \A l \in AllLines : /\ l.hash \in 1..made /\ l.hash \in Nat /\ l.prev \in Nat
                          /\ l.chain \in Nat /\ l.chain <= sink.chain
  BY SettledLines
<1>2. CASE AllLines' \subseteq AllLines /\ Hashes' = Hashes
  BY <1>2 DEF Linked
<1>3. ASSUME NEW t \in Traces, AllLines' \subseteq AllLines \cup {Line(t)},
             Hashes' = Hashes \cup {made + 1}
      PROVE  Linked'
  <2> DEFINE new == Line(t)
  <2>1. new.hash = made + 1 /\ new.prev = sink.prev /\ new.chain = sink.chain
    BY NewLines
  <2> HIDE DEF new
  <2>2. AllLines' \subseteq AllLines \cup {new}
    BY <1>3 DEF new
  <2>3. Hashes \subseteq 1..made
    BY HashFacts
  <2>4. ASSUME NEW l \in AllLines', l.prev # 0
        PROVE  l.prev \in Hashes' /\ \A h \in Hashes' : ~ (l.prev < h /\ h < l.hash)
    <3>1. CASE l \in AllLines
      <4>1. l.prev \in Hashes /\ \A h \in Hashes : ~ (l.prev < h /\ h < l.hash)
        BY <2>4, <3>1 DEF Linked
      <4>2. ~ (made + 1 < l.hash)
        BY <3>1, <1>0, <1>1
      <4> QED  BY <4>1, <4>2, <1>3
    <3>2. CASE l = new
      <4>1. l.prev \in Hashes /\ \A h \in Hashes : h <= l.prev
        BY <2>1, <2>4, <3>2 DEF SinkIsCurrent
      <4> QED  BY <4>1, <3>2, <2>1, <2>3, <1>0, <1>3
    <3> QED  BY <3>1, <3>2, <2>2
  <2>5. ASSUME NEW l \in AllLines', NEW k \in AllLines', k.hash < l.hash
        PROVE  k.chain <= l.chain /\ (l.prev = 0 => k.chain < l.chain)
    <3>1. CASE k \in AllLines /\ l \in AllLines
      BY <3>1, <2>5 DEF Linked
    <3>2. CASE k \in AllLines /\ l = new
      BY <3>2, <2>1, <1>1 DEF SinkIsCurrent
    <3>3. CASE k = new
      BY <3>3, <2>1, <2>2, <2>5, <1>0, <1>1
    <3> QED  BY <3>1, <3>2, <3>3, <2>2
  <2> QED  BY <2>4, <2>5 DEF Linked
<1> QED  BY <1>2, <1>3, QuietLines

(* The sink goes on knowing the hash recorded last.                        *)
LEMMA StepSink ==
    ASSUME AuditTypes, AuditTypes', ReadInOrder, LinesAreGenuine,
           Dated(log), Dated(reader.got), SinkIsCurrent,
           [AuditNext]_auditVars, Undisturbed'
    PROVE  SinkIsCurrent'
<1>0. /\ made \in Nat /\ sink.prev \in Nat /\ sink.chain \in Nat
      /\ sink \in [chain : Nat, prev : Nat, date : Int, file : {"nil", "open", "closed"}]
  BY DEF AuditTypes
<1>1. \A l \in AllLines : l.chain \in Nat /\ l.chain <= sink.chain
  BY SettledLines
<1>2. ASSUME NEW t \in Traces, WritesLine(t), Hashes' = Hashes \cup {made + 1}
      PROVE  SinkIsCurrent'
  <2>1. sink'.prev = made + 1
    BY <1>0, <1>2, UndisturbedSteps DEF Opened
  <2>2. Hashes \subseteq 1..made
    BY HashFacts
  <2> QED  BY <2>1, <2>2, <1>0, <1>2 DEF SinkIsCurrent
<1>3. ASSUME \A t \in Traces : ~ WritesLine(t), AllLines' \subseteq AllLines, Hashes' = Hashes
      PROVE  SinkIsCurrent'
  <2>1. CASE sink'.prev = sink.prev /\ sink'.chain = sink.chain
    BY <1>3, <2>1 DEF SinkIsCurrent
  <2>2. CASE RestartProcess
    <3>1. sink'.prev = 0 /\ sink'.chain = sink.chain + 1
      BY <2>2 DEF RestartProcess, NewSink
    <3> QED  BY <3>1, <1>0, <1>1, <1>3 DEF SinkIsCurrent
  <2> QED  BY <2>1, <2>2, <1>3, QuietSteps
<1> QED  BY <1>2, <1>3, QuietLines

(* In the log, and in what was read, the order of places is that of hashes.*)
LEMMA HashesInOrder ==
    ASSUME AuditTypes, HashesAscend, LinesAreGenuine, TimeAscends,
           Dated(log), Dated(reader.got)
    PROVE  /\ \A p, q \in Places(log) : /\ p[1] \in Nat
                                        /\ p[1] < q[1] => At(log, p).hash < At(log, q).hash
           /\ \A p \in Places(log) : /\ At(log, p).hash \in Nat /\ At(log, p).hash \in 1..made
                                     /\ p[1] \in DOMAIN log
           /\ \A p \in Places(reader.got) :
                 /\ At(reader.got, p).hash \in Nat /\ At(reader.got, p).hash \in 1..made
                 /\ p[1] \in DOMAIN reader.got /\ p[1] \in Nat
<1>1. AreFiles(log) /\ AreFiles(reader.got)
  BY DEF AuditTypes
<1>2. LinesOf(log) \subseteq AllLines /\ LinesOf(reader.got) \subseteq AllLines
  BY DEF AllLines
<1>3. \A p, q \in Places(log) : Before(p, q) <=> At(log, p).hash < At(log, q).hash
  BY <1>1, <1>2, PlacesFollowHashes
<1>4. \A p \in Places(log) : p[1] \in Nat /\ p[1] \in DOMAIN log
  BY <1>1, PlaceTypes
<1>5. \A p \in Places(reader.got) : p[1] \in DOMAIN reader.got /\ p[1] \in Nat
  BY <1>1, PlaceTypes
<1>6. \A l \in AllLines : l.hash \in Nat /\ l.hash \in 1..made
  BY SettledLines
<1> QED  BY <1>2, <1>3, <1>4, <1>5, <1>6 DEF Before, Earlier, LinesOf

(* The log goes on having every event since its first line.                *)
LEMMA StepSuffix ==
    ASSUME AuditTypes, AuditTypes', ReadInOrder, HashesAscend, LinesAreGenuine, TimeAscends,
           Dated(log), Dated(reader.got), LogIsSuffix,
           [AuditNext]_auditVars, Undisturbed'
    PROVE  LogIsSuffix'
<1>0. made \in Nat /\ Hashes \subseteq 1..made /\ Today \in Nat
  BY HashFacts, QuietSteps
<1>1. CASE log' = log /\ Hashes' = Hashes
  BY <1>1 DEF LogIsSuffix, Has
<1>2. ASSUME NEW t \in Traces, WritesLine(t) \/ WritesNone(t),
             Hashes' = Hashes \/ (WritesLine(t) /\ Hashes' = Hashes \cup {made + 1})
      PROVE  LogIsSuffix'
  <2>1. /\ \A p \in Places(log)' :
              \/ p \in Places(log) /\ At(log', p) = At(log, p)
              \/ p[1] = Today /\ At(log', p) = Line(t)
        /\ \A p \in Places(log) : p[1] \in DOMAIN log' =>
              p \in Places(log)' /\ At(log', p) = At(log, p)
        /\ \A d \in DOMAIN log', e \in DOMAIN log \ DOMAIN log' : d # Today => e < d
        /\ Today \in DOMAIN log'
        /\ WritesLine(t) => Has(log', made + 1)
    BY <1>2, WriteSteps
  <2>2. Line(t).hash = made + 1
    BY NewLines
  <2>3. ASSUME NEW p \in Places(log'), NEW h \in Hashes', At(log', p).hash <= h
        PROVE  Has(log', h)
    <3>0. p \in Places(log)'
      BY DEF Places
    <3>1. CASE h = made + 1 /\ WritesLine(t)
      BY <3>1, <2>1
    <3>2. CASE h \in Hashes
      <4>1. p \in Places(log) /\ At(log', p) = At(log, p)
        <5>1. At(log', p).hash # made + 1
          BY <3>2, <2>3, <1>0
        <5> QED  BY <5>1, <3>0, <2>1, <2>2
      <4>2. PICK q \in Places(log) : At(log, q).hash = h
        BY <4>1, <3>2, <2>3 DEF LogIsSuffix, Has
      <4>3. q[1] \in DOMAIN log'
        <5> SUFFICES ASSUME q[1] \notin DOMAIN log'  PROVE FALSE
          OBVIOUS
        <5>1. q[1] \in DOMAIN log \ DOMAIN log' /\ q[1] \in Nat /\ p[1] \in Nat /\ p[1] \in DOMAIN log
          BY <4>1, HashesInOrder
        <5>2. AreFiles(log') /\ p[1] \in DOMAIN log'
          BY PlaceTypes DEF AuditTypes
        <5>3. q[1] < p[1]
          <6>1. CASE p[1] # Today
            BY <6>1, <5>1, <5>2, <2>1
          <6>2. CASE p[1] = Today
            <7>1. q[1] <= Today /\ q[1] # Today
              BY <5>1, <2>1 DEF TimeAscends
            <7> QED  BY <7>1, <6>2, <5>1, <1>0
          <6> QED  BY <6>1, <6>2
        <5>4. At(log, q).hash < At(log, p).hash
          BY <5>3, <4>1, HashesInOrder
        <5>5. At(log, p).hash \in Nat /\ h \in Nat
          BY <4>1, <4>2, HashesInOrder
        <5> QED  BY <5>4, <5>5, <4>1, <4>2, <2>3
      <4> QED  BY <4>2, <4>3, <2>1 DEF Has, Places
    <3> QED  BY <3>1, <3>2, <1>2
  <2> QED  BY <2>3 DEF LogIsSuffix, Has, Places, At
<1>3. CASE \E t \in Traces : WritesLine(t) /\ Hashes' = Hashes \cup {made + 1}
  BY <1>2, <1>3
<1>4. CASE (\A t \in Traces : ~ WritesLine(t)) /\ Hashes' = Hashes
  BY <1>1, <1>2, <1>4, QuietSteps
<1> QED  BY <1>3, <1>4, QuietLines

(* What was read goes on having every event between two of its lines.      *)
LEMMA StepContiguous ==
    ASSUME AuditTypes, AuditTypes', ReadInOrder, HashesAscend, LinesAreGenuine, TimeAscends,
           Dated(log), Dated(reader.got), LogIsSuffix, Contiguous(reader.got), ReadingContinues,
           [AuditNext]_auditVars, Undisturbed'
    PROVE  Contiguous(reader.got)'
<1>0. made \in Nat /\ Hashes \subseteq 1..made
  BY HashFacts
<1>1. CASE reader'.got = reader.got
  <2>1. ASSUME NEW p \in Places(reader.got), NEW q \in Places(reader.got), NEW h \in Hashes',
               At(reader.got, p).hash <= h, h <= At(reader.got, q).hash
        PROVE  Has(reader.got, h)
    <3>1. h \in Hashes
      <4>1. At(reader.got, q).hash \in 1..made /\ h \in Hashes \cup {made + 1}
        BY HashesInOrder, QuietLines
      <4> QED  BY <4>1, <2>1, <1>0
    <3> QED  BY <3>1, <2>1 DEF Contiguous
  <2> QED  BY <2>1, <1>1 DEF Contiguous, Has, Places, At
<1>2. CASE DOMAIN reader'.got = {}
  BY <1>2 DEF Contiguous, Places
<1>3. ASSUME NEW d \in DOMAIN log, ReadsDay(d)
      PROVE  Contiguous(reader.got)'
  <2> DEFINE got == reader.got
             next == reader'.got
  <2>1. /\ d \in reader.todo /\ IsNext(d) /\ d \in Nat
        /\ UNCHANGED logVars
        /\ AreFiles(next)
        /\ \A p \in Places(next) :
              \/ p \in Places(got) /\ At(next, p) = At(got, p)
              \/ p \in Places(log) /\ p[1] = d /\ At(next, p) = At(log, p)
        /\ \A p \in Places(got) : p[1] # d => p \in Places(next) /\ At(next, p) = At(got, p)
        /\ \A p \in Places(log) : p[1] = d => p \in Places(next) /\ At(next, p) = At(log, p)
    BY <1>3 DEF ReadsDay, IsNext, Earlier, AuditTypes, AreFiles, Days
  <2>2. Dated(next) /\ LinesOf(next) \subseteq AllLines
    BY <2>1, StepDatedRead DEF LinesOf, AllLines
  <2> HIDE DEF next, got
  <2>3. \A p, q \in Places(next) : Before(p, q) <=> At(next, p).hash < At(next, q).hash
    BY <2>1, <2>2, PlacesFollowHashes
  <2>4. Hashes' = Hashes
    BY <2>1 DEF Hashes, HashesIn, logVars
  <2>5. \A p \in Places(got) : /\ p[1] < d /\ p[1] \in Nat
                               /\ At(got, p).hash \in Nat
    BY <2>1, HashesInOrder DEF ReadInOrder, got
  <2>6. \A p \in Places(got) : p \in Places(next) /\ At(next, p) = At(got, p)
    BY <2>1, <2>5
  <2>7. \A p \in Places(log) : p[1] \in Nat /\ At(log, p).hash \in Nat /\ At(log, p).hash \in 1..made
    BY HashesInOrder
  <2>8. ASSUME NEW p \in Places(next), NEW q \in Places(next), NEW h \in Hashes,
               At(next, p).hash <= h, h <= At(next, q).hash
        PROVE  Has(next, h)
    <3> DEFINE Old(r) == r \in Places(got) /\ At(next, r) = At(got, r)
               Fresh(r) == r \in Places(log) /\ r[1] = d /\ At(next, r) = At(log, r)
    <3>0. h \in Nat /\ (Old(p) \/ Fresh(p)) /\ (Old(q) \/ Fresh(q))
      BY <1>0, <2>1
    <3>1. CASE Old(p) /\ Old(q)
      <4>1. Has(got, h)  BY <3>1, <2>8 DEF Contiguous, got
      <4> QED  BY <4>1, <2>6 DEF Has
    <3>2. ASSUME Fresh(q), NEW m \in Places(log), At(log, m).hash = h, d <= m[1]
          PROVE  Has(next, h)
      <4>1. ~ (d < m[1])
        BY <3>2, <3>0, <2>7, <2>8, HashesInOrder
      <4>2. m[1] = d
        BY <4>1, <3>2, <2>1, <2>7
      <4> QED  BY <4>2, <3>2, <2>1 DEF Has
    <3>3. CASE Fresh(p) /\ Fresh(q)
      <4>1. PICK m \in Places(log) : At(log, m).hash = h
        BY <3>3, <2>8 DEF LogIsSuffix, Has
      <4>2. ~ (m[1] < d)
        BY <4>1, <3>0, <3>3, <2>7, <2>8, HashesInOrder
      <4> QED  BY <4>1, <4>2, <3>2, <3>3, <2>1, <2>7
    <3>4. CASE Old(p) /\ Fresh(q)
      <4>1. \/ Has(got, h)
            \/ \E m \in Places(log) : At(log, m).hash = h /\ d <= m[1]
        BY <3>4, <2>1, <2>8 DEF ReadingContinues, got
      <4> QED  BY <4>1, <3>2, <3>4, <2>6 DEF Has
    <3>5. CASE Fresh(p) /\ Old(q)
      <4>1. Before(q, p)
        BY <3>5, <2>5 DEF Before, Earlier
      <4>2. At(next, q).hash < At(next, p).hash
        BY <4>1, <2>3
      <4>3. At(next, q).hash \in Nat /\ At(next, p).hash \in Nat
        BY <3>5, <2>5, <2>7
      <4> QED  BY <4>2, <4>3, <3>0, <2>8
    <3> QED  BY <3>0, <3>1, <3>3, <3>4, <3>5
  <2> QED  BY <2>4, <2>8 DEF Contiguous, Has, Places, At, next
<1>4. CASE UNCHANGED reader
  BY <1>1, <1>4
<1> QED  BY <1>1, <1>2, <1>3, <1>4, ReadSteps, Kinds
         DEF WritesLine, WritesNone, WritesTorn, Records, GivesUp, auditVars

(* What is to be read goes on continuing what was read.                    *)
LEMMA StepReading ==
    ASSUME AuditTypes, AuditTypes', ReadInOrder, HashesAscend, LinesAreGenuine, TimeAscends,
           Dated(log), Dated(reader.got), LogIsSuffix, ReadingContinues,
           [AuditNext]_auditVars, Undisturbed'
    PROVE  ReadingContinues'
<1>0. /\ made \in Nat /\ Hashes \subseteq 1..made
      /\ Today \in Nat /\ Today' \in Nat /\ Today <= Today'
      /\ \A d \in DOMAIN log \cup reader.todo : d \in Nat /\ d <= Today
  <2>1. \A d \in DOMAIN log \cup reader.todo : d \in Nat
    BY LastDay DEF AuditTypes, AreFiles, Days
  <2>2. \A d \in DOMAIN log \cup reader.todo : d <= Today
    BY DEF TimeAscends
  <2> QED  BY <2>1, <2>2, HashFacts, QuietSteps
<1>1. CASE UNCHANGED <<log, reader>> /\ Hashes' = Hashes
  <2>1. (Today \in reader.todo => Today \in DOMAIN log)'
    <3>1. Today' \in reader.todo => Today' = Today
      BY <1>0
    <3> QED  BY <3>1, <1>1 DEF ReadingContinues
  <2> QED  BY <2>1, <1>1 DEF ReadingContinues, IsNext, Earlier, Has, Places, At
<1>2. ASSUME NEW t \in Traces, WritesLine(t) \/ WritesNone(t),
             Hashes' = Hashes \/ (WritesLine(t) /\ Hashes' = Hashes \cup {made + 1})
      PROVE  ReadingContinues'
  <2>1. /\ \A p \in Places(log)' :
              \/ p \in Places(log) /\ At(log', p) = At(log, p)
              \/ p[1] = Today /\ At(log', p) = Line(t)
        /\ \A p \in Places(log) : p[1] \in DOMAIN log' =>
              p \in Places(log)' /\ At(log', p) = At(log, p)
        /\ \A d \in DOMAIN log', e \in DOMAIN log \ DOMAIN log' : d # Today => e < d
        /\ Today \in DOMAIN log' /\ DOMAIN log' \subseteq DOMAIN log \cup {Today}
        /\ WritesLine(t) => Has(log', made + 1)
        /\ UNCHANGED <<clock, reader>>
    BY <1>2, WriteSteps
  <2>2. Places(log)' = Places(log')
    BY DEF Places
  <2>3. Today' = Today
    BY <2>1 DEF Today
  <2>4. ASSUME NEW d \in DOMAIN log' \ reader.todo
        PROVE  (\A e \in reader.todo : d < e) \/ (\A e \in reader.todo : e < d)
    <3>1. CASE d \in DOMAIN log
      BY <3>1 DEF ReadingContinues
    <3>2. CASE d = Today
      <4>1. \A e \in reader.todo : e # d /\ e <= d /\ e \in Nat
        BY <3>2, <1>0
      <4> QED  BY <4>1, <3>2, <1>0
    <3> QED  BY <3>1, <3>2, <2>1
  <2>5. ASSUME NEW d \in reader.todo \cap DOMAIN log', IsNext(d),
               NEW p \in Places(reader.got), NEW h \in Hashes', At(reader.got, p).hash <= h
        PROVE  \/ Has(reader.got, h)
               \/ \E q \in Places(log') : At(log', q).hash = h /\ d <= q[1]
    <3>1. d \in DOMAIN log
      BY <2>1 DEF ReadingContinues
    <3>2. CASE h \in Hashes
      <4>1. CASE Has(reader.got, h)
        BY <4>1
      <4>2. ASSUME NEW q \in Places(log), At(log, q).hash = h, d <= q[1]
            PROVE  \E m \in Places(log') : At(log', m).hash = h /\ d <= m[1]
        <5>1. q[1] \in DOMAIN log /\ q[1] \in Nat
          BY HashesInOrder
        <5>2. q[1] \in DOMAIN log'
          <6> SUFFICES ASSUME q[1] \notin DOMAIN log'  PROVE FALSE
            OBVIOUS
          <6>1. q[1] # Today /\ q[1] # d /\ q[1] <= Today
            BY <2>1, <5>1, <1>0
          <6>2. d # Today
            BY <6>1, <5>1, <4>2, <1>0
          <6>3. q[1] < d
            BY <6>2, <5>1, <2>1
          <6> QED  BY <6>3, <4>2, <5>1, <3>1, <1>0
        <5> QED  BY <5>2, <4>2, <2>1, <2>2
      <4> QED  BY <4>1, <4>2, <3>1, <3>2, <2>5 DEF ReadingContinues
    <3>3. CASE h = made + 1 /\ WritesLine(t)
      <4>1. PICK q \in Places(log') : At(log', q).hash = made + 1
        BY <3>3, <2>1 DEF Has
      <4>2. q[1] = Today
        <5>1. \A m \in Places(log) : At(log, m).hash \in 1..made
          BY HashesInOrder
        <5> QED  BY <5>1, <4>1, <2>1, <2>2, <1>0
      <4> QED  BY <4>1, <4>2, <3>1, <3>3, <1>0
    <3> QED  BY <3>2, <3>3, <1>2
  <2> QED  BY <2>1, <2>2, <2>3, <2>4, <2>5 DEF ReadingContinues, IsNext, Earlier, Has, Places, At
<1>3. CASE reader'.todo = DOMAIN log /\ reader'.got = reader.got /\ DOMAIN reader.got = {}
           /\ UNCHANGED logVars
  <2>1. Places(reader'.got) = {} /\ log' = log
    BY <1>3 DEF Places, logVars
  <2> QED  BY <2>1, <1>3 DEF ReadingContinues, Places
<1>4. CASE reader'.todo = {}
  BY <1>4 DEF ReadingContinues
<1>5. ASSUME NEW d \in DOMAIN log, ReadsDay(d)
      PROVE  ReadingContinues'
  <2> DEFINE got == reader.got
             next == reader'.got
  <2>1. /\ d \in reader.todo /\ IsNext(d) /\ d \in Nat /\ \A e \in reader.todo : e = d \/ d < e
        /\ UNCHANGED logVars /\ reader'.todo = reader.todo \ {d}
        /\ AreFiles(next)
        /\ \A p \in Places(next) :
              \/ p \in Places(got) /\ At(next, p) = At(got, p)
              \/ p \in Places(log) /\ p[1] = d /\ At(next, p) = At(log, p)
        /\ \A p \in Places(got) : p[1] # d => p \in Places(next) /\ At(next, p) = At(got, p)
        /\ \A p \in Places(log) : p[1] = d => p \in Places(next) /\ At(next, p) = At(log, p)
    BY <1>5 DEF ReadsDay, IsNext, Earlier, AuditTypes, AreFiles, Days
  <2> HIDE DEF next, got
  <2>2. log' = log /\ Today' = Today /\ Hashes' = Hashes
    BY <2>1 DEF logVars, Today, Hashes, HashesIn
  <2>3. \A p \in Places(got) : p \in Places(next) /\ At(next, p) = At(got, p)
    BY <2>1, HashesInOrder DEF ReadInOrder, got
  <2>4. \A p \in Places(log) : p[1] \in Nat /\ p[1] \in DOMAIN log /\ At(log, p).hash \in Nat
    BY HashesInOrder
  <2>5. \A c \in DOMAIN log \ reader.todo : \/ \A e \in reader.todo : c < e
                                            \/ \A e \in reader.todo : e < c
    BY DEF ReadingContinues
  <2>6. ASSUME NEW c \in DOMAIN log \ reader'.todo
        PROVE  (\A e \in reader'.todo : c < e) \/ (\A e \in reader'.todo : e < c)
    BY <2>1, <2>5
  <2>7. ASSUME NEW c \in reader'.todo, \A e \in reader'.todo : e = c \/ c < e,
               NEW q \in Places(log), d <= q[1]
        PROVE  q[1] = d \/ c <= q[1]
    <3>1. c \in Nat /\ d < c /\ c \in reader.todo
      BY <2>7, <2>1, <1>0
    <3>2. CASE q[1] \in reader.todo
      BY <3>1, <3>2, <2>1, <2>4, <2>7
    <3>3. CASE q[1] \notin reader.todo
      <4>1. (\A e \in reader.todo : q[1] < e) \/ (\A e \in reader.todo : e < q[1])
        BY <3>3, <2>4, <2>5
      <4>2. ~ (q[1] < d)
        BY <2>1, <2>4, <2>7
      <4>3. c < q[1]
        BY <4>1, <4>2, <3>1, <2>1
      <4> QED  BY <4>3, <3>1, <2>4
    <3> QED  BY <3>2, <3>3
  <2>8. ASSUME NEW c \in reader'.todo \cap DOMAIN log,
               \A e \in reader'.todo : e = c \/ c < e,
               NEW p \in Places(next), NEW h \in Hashes, At(next, p).hash <= h
        PROVE  \/ Has(next, h)
               \/ \E q \in Places(log) : At(log, q).hash = h /\ c <= q[1]
    <3>1. ASSUME NEW q \in Places(log), At(log, q).hash = h, d <= q[1]
          PROVE  \/ Has(next, h)
                 \/ \E m \in Places(log) : At(log, m).hash = h /\ c <= m[1]
      <4>1. CASE q[1] = d
        BY <4>1, <3>1, <2>1 DEF Has
      <4>2. CASE c <= q[1]
        BY <4>2, <3>1
      <4> QED  BY <4>1, <4>2, <3>1, <2>7, <2>8
    <3>2. CASE p \in Places(got) /\ At(next, p) = At(got, p)
      <4>1. \/ Has(got, h)
            \/ \E q \in Places(log) : At(log, q).hash = h /\ d <= q[1]
        BY <3>2, <2>1, <2>8 DEF ReadingContinues, got
      <4> QED  BY <4>1, <3>1, <2>3 DEF Has
    <3>3. CASE p \in Places(log) /\ p[1] = d /\ At(next, p) = At(log, p)
      <4>1. PICK q \in Places(log) : At(log, q).hash = h
        BY <3>3, <2>8 DEF LogIsSuffix, Has
      <4>2. ~ (q[1] < d)
        BY <4>1, <3>3, <2>4, <2>8, <1>0, HashesInOrder
      <4> QED  BY <4>1, <4>2, <3>1, <2>1, <2>4
    <3> QED  BY <3>2, <3>3, <2>1
  <2>9. (Today \in reader.todo => Today \in DOMAIN log)'
    BY <2>1, <2>2 DEF ReadingContinues
  <2> QED  BY <2>2, <2>6, <2>8, <2>9 DEF ReadingContinues, IsNext, Earlier, Has, Places, At, next
<1>6. CASE Reads
  BY <1>3, <1>4, <1>5, <1>6, ReadSteps
<1>7. CASE UNCHANGED reader
  <2>1. CASE \E t \in Traces : WritesLine(t) /\ Hashes' = Hashes \cup {made + 1}
    BY <2>1, <1>2
  <2>2. CASE (\A t \in Traces : ~ WritesLine(t)) /\ Hashes' = Hashes
    BY <2>2, <1>1, <1>2, <1>7, QuietSteps
  <2> QED  BY <2>1, <2>2, QuietLines
<1> QED  BY <1>6, <1>7, Kinds DEF WritesLine, WritesNone, WritesTorn, Records, GivesUp, auditVars

(* All of it.                                                              *)
LEMMA StepOrderly ==
    ASSUME AuditTypes, AuditTypes', HashesAscend, LinesAreGenuine, ReadInOrder, Orderly,
           [AuditNext]_auditVars, Undisturbed'
    PROVE  Orderly'
<1>1. /\ TimeAscends /\ Dated(log) /\ Dated(reader.got) /\ Linked /\ SinkIsCurrent
      /\ LogIsSuffix /\ Contiguous(reader.got) /\ ReadingContinues
  BY DEF Orderly
<1>2. TimeAscends' /\ Dated(log)'
  BY <1>1, StepTime, StepDatedLog
<1>3. Dated(reader.got)'
  BY <1>1, StepDatedRead DEF Dated
<1>4. Linked' /\ SinkIsCurrent'
  BY <1>1, StepLinked, StepSink
<1>5. LogIsSuffix' /\ Contiguous(reader.got)' /\ ReadingContinues'
  BY <1>1, StepSuffix, StepContiguous, StepReading
<1> QED  BY <1>2, <1>3, <1>4, <1>5 DEF Orderly

----------------------------------------------------------------------------
(* The invariant, and what follows from it.                                *)

(* Nothing is written and nothing is read at first.                        *)
LEMMA AuditStarts ==
    AuditInit => AuditInv /\ OneChainPerTrace
<1> SUFFICES ASSUME AuditInit  PROVE AuditInv /\ OneChainPerTrace
  OBVIOUS
<1> USE DEF AuditInit
<1>1. DOMAIN log = {} /\ DOMAIN reader.got = {} /\ reader.todo = {} /\ reader.step = "none"
  OBVIOUS
<1>2. \A t \in Traces : written[t] = << >> /\ DOMAIN written[t] = {} /\ Len(written[t]) = 0
  OBVIOUS
<1>3. AreFiles(log) /\ AreFiles(reader.got)
  BY DEF AreFiles
<1>4. AuditTypes
  <2>1. << >> \in Seq([hash : 0..made, at : Nat])
    OBVIOUS
  <2>2. written \in [Traces -> Seq([hash : 0..made, at : Nat])]
    BY <2>1
  <2>3. clock \in 0..MaxClock
    BY AuditAssumptions
  <2>4. failures \in Seq({"close", "open", "write", "torn", "sync", "clock"})
    OBVIOUS
  <2>5. /\ sink \in [chain : Nat, prev : Nat, date : Int, file : {"nil", "open", "closed"}]
        /\ sink.prev <= made
    BY DEF NewSink
  <2>6. /\ trace \in [Traces -> [step : {"ready", "appending", "gone"}, seq : Nat]]
        /\ \A t \in Traces : trace[t].step = "ready" /\ trace[t].seq = Len(written[t])
    BY <1>2
  <2>7. /\ reader = [step |-> reader.step, todo |-> reader.todo, got |-> reader.got]
        /\ reader.step \in {"none", "reading", "failed"} /\ reader.todo \subseteq Days
    OBVIOUS
  <2> QED  BY <1>3, <2>2, <2>3, <2>4, <2>5, <2>6, <2>7 DEF AuditTypes
<1>5. Places(log) = {} /\ Places(reader.got) = {} /\ AllLines = {}
  BY <1>1 DEF Places, AllLines, LinesOf
<1>6. Hashes = {}
  BY <1>2 DEF Hashes, HashesIn
<1> HIDE DEF AuditInit
<1>7. HashesAscend
  BY <1>2 DEF HashesAscend
<1>8. LinesAreGenuine /\ OneChainPerTrace
  BY <1>5 DEF LinesAreGenuine, OneChainPerTrace
<1>9. ReadInOrder /\ Unforged(log)
  BY <1>1, <1>5 DEF ReadInOrder, Unforged
<1>10. Orderly
  <2>1. TimeAscends
    BY <1>1, <1>2 DEF TimeAscends
  <2>2. Dated(log) /\ Dated(reader.got) /\ Linked
    BY <1>5 DEF Dated, Linked
  <2>3. SinkIsCurrent
    BY <1>5 DEF SinkIsCurrent, AuditInit, NewSink
  <2>4. LogIsSuffix /\ Contiguous(reader.got) /\ ReadingContinues
    BY <1>1, <1>5 DEF LogIsSuffix, Contiguous, ReadingContinues
  <2> QED  BY <2>1, <2>2, <2>3, <2>4 DEF Orderly
<1> QED  BY <1>4, <1>7, <1>8, <1>9, <1>10 DEF AuditInv

(* Every step keeps it.                                                    *)
LEMMA AuditKeeps ==
    AuditInv /\ OneChainPerTrace /\ [AuditNext]_auditVars => AuditInv' /\ OneChainPerTrace'
<1> SUFFICES ASSUME AuditInv, OneChainPerTrace, [AuditNext]_auditVars
             PROVE  AuditInv' /\ OneChainPerTrace'
  OBVIOUS
<1>1. /\ AuditTypes /\ HashesAscend /\ LinesAreGenuine /\ ReadInOrder /\ Unforged(log)
      /\ Undisturbed => Orderly
  BY DEF AuditInv
<1>2. AuditTypes'
  BY <1>1, StepAuditTypes
<1>3. HashesAscend' /\ LinesAreGenuine' /\ ReadInOrder'
  BY <1>1, <1>2, StepHashes, StepGenuine, StepReadInOrder
<1>4. Unforged(log)'
  BY <1>1, <1>2, <1>3, StepUnforged
<1>5. OneChainPerTrace'
  BY <1>1, <1>2, <1>3, StepOneChainPerTrace
<1>6. Undisturbed' => Orderly'
  BY <1>1, <1>2, UndisturbedSteps, StepOrderly
<1> QED  BY <1>2, <1>3, <1>4, <1>5, <1>6 DEF AuditInv

(* The invariant holds in every state.                                     *)
LEMMA AuditInvariant == AuditSpec => [](AuditInv /\ OneChainPerTrace)
<1>1. AuditInit => AuditInv /\ OneChainPerTrace
  BY AuditStarts
<1>2. AuditInv /\ OneChainPerTrace /\ [AuditNext]_auditVars
      => (AuditInv /\ OneChainPerTrace)'
  BY AuditKeeps
<1> QED  BY <1>1, <1>2, PTL DEF AuditSpec

(* The parts of the state are what they should be; above all, a trace's    *)
(* number is that of its events, one ahead while an event is appended.     *)
THEOREM AuditTypeCorrect == AuditSpec => []AuditTypeOK
<1>1. AuditInv => AuditTypeOK
  <2> SUFFICES ASSUME AuditInv  PROVE AuditTypeOK
    OBVIOUS
  <2>1. AuditTypes
    BY DEF AuditInv
  <2>2. DOMAIN log \subseteq 0..(MaxClock \div TicksPerDay)
    BY <2>1 DEF AuditTypes, AreFiles, Days
  <2>3. sink.file \in {"nil", "open", "closed"} /\ sink.prev <= made
    BY <2>1 DEF AuditTypes
  <2>4. ASSUME NEW t \in Traces
        PROVE  /\ trace[t].step \in {"ready", "appending", "gone"}
               /\ trace[t].seq - Len(written[t]) \in {0, 1}
    <3>1. /\ trace[t].step \in {"ready", "appending", "gone"} /\ trace[t].seq \in Nat
          /\ written[t] \in Seq([hash : 0..made, at : Nat])
      BY <2>1 DEF AuditTypes
    <3>2. Len(written[t]) \in Nat
      BY <3>1, LenProperties
    <3>3. /\ trace[t].step = "ready" => trace[t].seq = Len(written[t])
          /\ trace[t].step = "appending" => trace[t].seq = Len(written[t]) + 1
          /\ trace[t].step = "gone" => trace[t].seq - Len(written[t]) \in {0, 1}
      BY <2>1 DEF AuditTypes
    <3> QED  BY <3>1, <3>2, <3>3
  <2> QED  BY <2>2, <2>3, <2>4 DEF AuditTypeOK
<1> QED  BY <1>1, AuditInvariant, PTL

(* The verifier raises no false alarm (audit.go:97-154, read.go:35-60): if *)
(* traces have different identifiers, the files verify at any time, over   *)
(* midnights, restarts, retention, a sink closed and used again, and any   *)
(* interleaving of requests, unless a line is torn, an event is missing, a *)
(* Sync failed or the clock was set back.                                  *)
THEOREM LogsVerify ==
    ASSUME IdsDiffer
    PROVE  AuditSpec => []LogVerifies
<1>1. AuditInv => LogVerifies
  BY InvariantVerifies
<1> QED  BY <1>1, AuditInvariant, PTL

(* ... and so does what mygpt-audit has read, though files are made and    *)
(* removed between its steps (read.go:10-43).                              *)
THEOREM ReadersVerify ==
    ASSUME IdsDiffer
    PROVE  AuditSpec => []ReaderVerifies
<1>1. AuditInv => ReaderVerifies
  BY InvariantVerifies
<1> QED  BY <1>1, AuditInvariant, PTL

(* A log that verifies stops verifying when an event between two others of *)
(* its chain is deleted or two events of a chain are exchanged.            *)
THEOREM TamperingIsShown == AuditSpec => []TamperingShows
<1>1. AuditInv => TamperingShows
  BY InvariantShowsTampering
<1> QED  BY <1>1, AuditInvariant, PTL

(* A log with an event of a request before, and one after, an event that   *)
(* could not be appended does not verify, if no other request has the      *)
(* identifier of this one: the number is spent (audit.go:75-80).           *)
THEOREM LossIsShown == AuditSpec => []LossShows
<1>1. AuditInv /\ OneChainPerTrace => LossShows
  BY InvariantShowsLoss
<1> QED  BY <1>1, AuditInvariant, PTL

=============================================================================

------------------------ MODULE PMTraceConsumerProofs ------------------------
(***************************************************************************)
(* PMTraceConsumer for every kind of trace, that is for events of any      *)
(* thread in any order: the consumer's state is of the code's types, and   *)
(* the presents of a swap chain are delivered in order.                    *)
(*                                                                         *)
(* That what was delivered is in order is not inductive: it stays so only  *)
(* because a swap chain's deque is in order too, and because what was      *)
(* delivered of the chain is older than what still waits (Order).  A       *)
(* consumer of n presents is Good when it is of the types and in order;    *)
(* every helper takes a good consumer to a good one, every handler is a    *)
(* composition of helpers, and Fine says that the consumer is Good for     *)
(* some n.                                                                 *)
(*                                                                         *)
(* The second part is about what is kept of every present (Neat): where it *)
(* is, what finds it, and what may not change in it once it was published. *)
(* It shows that the helpers which look a present up, track a new one and  *)
(* give one up keep it; PMTraceConsumerAccounting goes on with completions *)
(* and the handlers.                                                       *)
(***************************************************************************)
EXTENDS PMTraceConsumer, FiniteSetTheorems, SequenceTheorems, TLAPS

-----------------------------------------------------------------------------
(* Numbers, and the stack machine of CompletePresent.                      *)

\* A set of numbers has a least, and a greatest when it is bounded.
LEMMA LeastOf ==
    ASSUME NEW T \in SUBSET Nat, T # {}
    PROVE  \E m \in T : \A k \in T : m <= k
  <1>. DEFINE D == {0..m : m \in T}
              R == StrictSubsetOrdering(Nat)
  <1>1. D \subseteq FiniteSubsetsOf(Nat) /\ D # {}
    <2>1. ASSUME NEW m \in T PROVE 0..m \in SUBSET Nat /\ IsFiniteSet(0..m)
      BY FS_Interval
    <2>. QED  BY <2>1 DEF FiniteSubsetsOf
  <1>2. PICK d \in D : \A e \in D : ~ <<e, d>> \in R
    <2>. HIDE DEF D
    <2>. QED  BY <1>1, FS_StrictSubsetOrderingWellFounded, WFMin
  <1>3. PICK m \in T : d = 0..m
    OBVIOUS
  <1>4. ASSUME NEW k \in T, ~(m <= k) PROVE FALSE
    <2>1. 0..k \in D /\ k \in Nat /\ m \in Nat /\ k < m
      BY <1>4
    <2>2. 0..k \in SUBSET Nat /\ 0..m \in SUBSET Nat
      OBVIOUS
    <2>3. 0..k \subseteq 0..m /\ m \in 0..m /\ m \notin 0..k
      BY <2>1
    <2>4. <<0..k, 0..m>> \in R
      BY <2>2, <2>3 DEF StrictSubsetOrdering
    <2>. QED  BY <1>2, <1>3, <2>1, <2>4
  <1>. QED  BY <1>4


\* A completion goes on from where its last step left it.
Starting(c, p) == State(c, <<Job("call", p)>>)

\* The first n steps of a completion.
Prefix(f, n, c, p) ==
  /\ f = [i \in 0..n |-> f[i]] /\ f[0] = Starting(c, p)
  /\ \A i \in 1..n : f[i] = Continue(f[i - 1])

\* The functions below are limits of such prefixes: one exists up to every number,
LEMMA PrefixesExist ==
    ASSUME NEW c, NEW p, NEW n \in Nat
    PROVE  \E f : Prefix(f, n, c, p)
  <1>. DEFINE T == {m \in Nat : ~ \E f : Prefix(f, m, c, p)}
  <1>1. SUFFICES ASSUME T # {} PROVE FALSE
    OBVIOUS
  <1>2. PICK m \in T : \A k \in T : m <= k
    BY <1>1, LeastOf
  <1>3. m # 0
    <2>1. Prefix([i \in 0..0 |-> Starting(c, p)], 0, c, p)
      BY DEF Prefix
    <2>. QED  BY <2>1
  <1>4. PICK f : Prefix(f, m - 1, c, p)
    <2>1. m - 1 \in Nat /\ ~(m <= m - 1)
      BY <1>3
    <2>. QED  BY <1>2, <2>1
  <1>. DEFINE g == [i \in 0..m |-> IF i = m THEN Continue(f[m - 1]) ELSE f[i]]
  <1>5. Prefix(g, m, c, p)
    <2>1. m - 1 \in 0..m /\ m \in 1..m /\ 0 \in 0..m
      BY <1>3
    <2>2. f[0] = Starting(c, p) /\ \A i \in 1..m - 1 : f[i] = Continue(f[i - 1])
      BY <1>4 DEF Prefix
    <2>3. g = [i \in 0..m |-> g[i]] /\ g[0] = Starting(c, p)
      BY <1>3, <2>1, <2>2
    <2>4. ASSUME NEW i \in 1..m PROVE g[i] = Continue(g[i - 1])
      <3>1. i \in 0..m /\ i - 1 \in 0..m /\ i - 1 # m
        OBVIOUS
      <3>2. g[i - 1] = f[i - 1]
        BY <3>1
      <3>3. CASE i = m
        BY <3>1, <3>2, <3>3
      <3>4. CASE i # m
        <4>1. i \in 1..m - 1
          BY <3>4
        <4>. QED  BY <2>2, <3>1, <3>2, <3>4, <4>1
      <3>. QED  BY <3>3, <3>4
    <2>. HIDE DEF g
    <2>. QED  BY <2>3, <2>4 DEF Prefix
  <1>. QED  BY <1>5

\* and two agree wherever both are defined.
LEMMA PrefixesAgree ==
    ASSUME NEW c, NEW p, NEW n \in Nat, NEW m \in Nat, NEW f, NEW g,
           Prefix(f, n, c, p), Prefix(g, m, c, p), NEW k \in Nat, k <= n, k <= m
    PROVE  f[k] = g[k]
  <1>. DEFINE T == {i \in 0..k : f[i] # g[i]}
  <1>1. SUFFICES ASSUME T # {} PROVE FALSE
    OBVIOUS
  <1>2. PICK i \in T : \A j \in T : i <= j
    <2>1. T \subseteq Nat
      OBVIOUS
    <2>. QED  BY <1>1, <2>1, LeastOf
  <1>3. i # 0
    BY DEF Prefix
  <1>4. f[i - 1] = g[i - 1]
    <2>1. i - 1 \in 0..k /\ ~(i <= i - 1)
      BY <1>3
    <2>. QED  BY <1>2, <2>1
  <1>5. i \in 1..n /\ i \in 1..m
    BY <1>3
  <1>6. f[i] = Continue(f[i - 1]) /\ g[i] = Continue(g[i - 1])
    BY <1>5 DEF Prefix
  <1>. QED  BY <1>4, <1>6

\* CompletePresent's stack machine: a completion has a state after every number of jobs.
LEMMA CompletingRuns ==
    ASSUME NEW c, NEW p
    PROVE  /\ Completing(c, p)[0] = Starting(c, p)
           /\ \A n \in Nat : Completing(c, p)[n + 1] = Continue(Completing(c, p)[n])
  <1>. DEFINE F == [n \in Nat |-> (CHOOSE f : Prefix(f, n, c, p))[n]]
              Fix(r) == r = [n \in Nat |-> IF n = 0 THEN State(c, <<Job("call", p)>>)
                                           ELSE Continue(r[n - 1])]
  <1>1. ASSUME NEW n \in Nat PROVE Prefix(CHOOSE f : Prefix(f, n, c, p), n, c, p)
    BY PrefixesExist
  <1>2. F[0] = Starting(c, p)
    BY <1>1 DEF Prefix
  <1>3. ASSUME NEW n \in Nat, n # 0 PROVE F[n] = Continue(F[n - 1])
    <2>. DEFINE f == CHOOSE v : Prefix(v, n, c, p)
                g == CHOOSE v : Prefix(v, n - 1, c, p)
    <2>1. n - 1 \in Nat /\ n \in 1..n
      BY <1>3
    <2>2. Prefix(f, n, c, p) /\ Prefix(g, n - 1, c, p)
      BY <1>1, <2>1
    <2>3. f[n] = Continue(f[n - 1])
      BY <2>1, <2>2 DEF Prefix
    <2>4. f[n - 1] = g[n - 1]
      BY <2>1, <2>2, PrefixesAgree
    <2>5. F[n] = f[n] /\ F[n - 1] = g[n - 1]
      BY <2>1
    <2>. QED  BY <2>3, <2>4, <2>5
  <1>4. Fix(F)
    <2>1. ASSUME NEW n \in Nat
          PROVE  F[n] = IF n = 0 THEN State(c, <<Job("call", p)>>) ELSE Continue(F[n - 1])
      <3>. HIDE DEF F
      <3>. QED  BY <1>2, <1>3 DEF Starting
    <2>2. F = [n \in Nat |-> F[n]]
      OBVIOUS
    <2>. HIDE DEF F
    <2>. QED  BY <2>1, <2>2
  <1>5. Completing(c, p) = CHOOSE r : Fix(r)
    BY DEF Completing
  <1>6. Fix(Completing(c, p))
    BY <1>4, <1>5
  <1>. QED  BY <1>6 DEF Starting

-----------------------------------------------------------------------------
(* The consumer's types, and sequences that lose elements.                 *)

Slots == 0..RingSize - 1
Chains == Processes \X (SwapChains \cup {None})
Owners == {ProcessOf(t) : t \in Threads}

\* The records of the presents when there are n.
Records(n) ==
  [process : Owners, thread : Threads, runtime : Runtimes,
   swap : SwapChains \cup {None}, doNotSequence : BOOLEAN,
   mode : Modes, final : Results, screen : BOOLEAN,
   hwnd : Hwnds \cup {None}, token : Tokens \cup {None}, win32k : Tokens \cup {None},
   blitToken : Tokens \cup {None}, submit : SubmitSeqs \cup {None},
   context : Contexts \cup {None}, batchThread : Threads \cup {None},
   mmio : BOOLEAN, seenDxgk : BOOLEAN, seenWin32K : BOOLEAN,
   completed : BOOLEAN, lost : BOOLEAN, slot : Slots, deps : Seq(1..n),
   inDwmWaiting : BOOLEAN]

\* One that counts as displayed has its time.
Presents(n) ==
  {e \in Records(n) : TimesAreTold /\ e.final = "Presented" => e.screen}

Consumers(n) ==
  [presents : [1..n -> Presents(n)],
   ring : [Slots -> 0..n], next : Slots,
   byThread : [Threads -> 0..n], byProcess : SUBSET (1..n),
   bySwapChain : [Chains -> Seq(1..n)],
   bySubmit : [SubmitSeqs -> 0..n], win32k : [Tokens -> 0..n], dxgk : [Tokens -> 0..n],
   blits : [Contexts -> 0..n], window : [Hwnds -> 0..n], legacyBlit : [Tokens -> 0..n],
   waiting : Seq(1..n), dwmProcess : Processes \cup {None},
   dwmThread : Threads \cup {None}, delivered : Seq(1..n), lost : SUBSET (0..n),
   failed : SUBSET Nat, hung : BOOLEAN]

\* What numbers the elements of a set is a sequence of them.
LEMMA NumberedIsSeq ==
    ASSUME NEW S, NEW n \in Nat, NEW f \in [1..n -> S]
    PROVE  f \in Seq(S)
  BY SeqDef

\* There are n presents.
LEMMA PresentsLength ==
    ASSUME NEW n \in Nat, NEW c \in Consumers(n)
    PROVE  c.presents \in Seq(Presents(n)) /\ Len(c.presents) = n /\ DOMAIN c.presents = 1..n
  <1>1. c.presents \in [1..n -> Presents(n)]
    BY DEF Consumers
  <1>. QED  BY <1>1, SeqDef

\* A present stays one of the code's while its outcome stays.
LEMMA OutcomeKept ==
    ASSUME NEW n \in Nat, NEW e \in Presents(n), NEW f \in Records(n),
           f.final = e.final, f.screen = e.screen
    PROVE  f \in Presents(n)
  BY DEF Presents

\* Its record has every field.
LEMMA PresentIsRecord ==
    ASSUME NEW n \in Nat, NEW e \in Presents(n)
    PROVE  e \in Records(n) /\ (TimesAreTold /\ e.final = "Presented" => e.screen)
  BY DEF Presents

\* Erasing from a collection leaves a collection.
LEMMA Erased ==
    ASSUME NEW n \in Nat, NEW K, NEW map \in [K -> 0..n], NEW k, k = None \/ k \in K, NEW p
    PROVE  EraseIf(map, k, p) \in [K -> 0..n]
  BY DEF EraseIf, NoPresent

\* A present can be replaced by one of the same kind.
LEMMA Edited ==
    ASSUME NEW n \in Nat, NEW c \in Consumers(n), NEW p \in 1..n, NEW e \in Presents(n)
    PROVE  [c EXCEPT !.presents[p] = e] \in Consumers(n)
  BY DEF Consumers

\* r is s without some of its elements.
Part(r, s) ==
  \E g \in [1..Len(r) -> 1..Len(s)] :
    /\ \A i, j \in 1..Len(r) : i < j => g[i] < g[j]
    /\ \A i \in 1..Len(r) : r[i] = s[g[i]]

\* A sequence is a part of itself, so is what is left when the first m are gone,
LEMMA PartOfItself == ASSUME NEW S, NEW s \in Seq(S) PROVE Part(s, s)
  <1>. DEFINE g == [i \in 1..Len(s) |-> i]
  <1>1. g \in [1..Len(s) -> 1..Len(s)]
    OBVIOUS
  <1>2. Len(s) \in Nat
    OBVIOUS
  <1>. QED  BY <1>1, <1>2 DEF Part

\* the m first taken off,
LEMMA PartFrom ==
    ASSUME NEW S, NEW s \in Seq(S), NEW m \in 0..Len(s)
    PROVE  /\ SubSeq(s, m + 1, Len(s)) \in Seq(S) /\ Part(SubSeq(s, m + 1, Len(s)), s)
           /\ Len(SubSeq(s, m + 1, Len(s))) = Len(s) - m
           /\ \A i \in 1..Len(s) - m : SubSeq(s, m + 1, Len(s))[i] = s[m + i]
  <1>. DEFINE r == SubSeq(s, m + 1, Len(s))
              g == [i \in 1..Len(s) - m |-> m + i]
  <1>1. Len(s) \in Nat /\ m \in Nat /\ m <= Len(s) /\ \A i \in 1..Len(s) : s[i] \in S
    BY ElementOfSeq
  <1>2. r \in Seq(S) /\ Len(r) = Len(s) - m /\ \A i \in 1..Len(s) - m : r[i] = s[m + i]
    <2>1. \A i \in m + 1..Len(s) : s[i] \in S
      BY <1>1
    <2>2. /\ r \in Seq(S)
          /\ Len(r) = IF m + 1 <= Len(s) THEN Len(s) - (m + 1) + 1 ELSE 0
          /\ \A i \in 1..Len(s) - (m + 1) + 1 : r[i] = s[m + 1 + i - 1]
      BY <1>1, <2>1, SubSeqProperties
    <2>. HIDE DEF r
    <2>. QED  BY <1>1, <2>2
  <1>3. g \in [1..Len(r) -> 1..Len(s)]
    BY <1>1, <1>2
  <1>4. \A i, j \in 1..Len(r) : i < j => g[i] < g[j]
    BY <1>1, <1>2
  <1>5. \A i \in 1..Len(r) : r[i] = s[g[i]]
    BY <1>2
  <1>6. Part(r, s)
    <2>. HIDE DEF r, g
    <2>. QED  BY <1>3, <1>4, <1>5 DEF Part
  <1>. QED  BY <1>2, <1>6

\* The sequence r is s without its element k.
MovedUp(r, s, k) == \A i \in 1..Len(s) - 1 : r[i] = s[IF i < k THEN i ELSE i + 1]

\* When an element is removed the others move up,
LEMMA RemovedAt ==
    ASSUME NEW S, NEW s \in Seq(S), NEW x, \E i \in 1..Len(s) : s[i] = x
    PROVE  /\ RemoveFirst(s, x) \in Seq(S) /\ Len(s) \in Nat
           /\ Len(RemoveFirst(s, x)) = Len(s) - 1
           /\ \E k \in 1..Len(s) : s[k] = x /\ MovedUp(RemoveFirst(s, x), s, k)
  <1>. DEFINE I == {i \in 1..Len(s) : s[i] = x}
              k == Min(I)
              a == SubSeq(s, 1, k - 1)
              b == SubSeq(s, k + 1, Len(s))
              g == [i \in 1..Len(s) - 1 |-> IF i < k THEN i ELSE i + 1]
  <1>0. I # {}
    OBVIOUS
  <1>1. k \in I
    <2>1. I \in SUBSET Nat
      OBVIOUS
    <2>2. \E m \in I : \A i \in I : m <= i
      BY <1>0, <2>1, LeastOf
    <2>. HIDE DEF I
    <2>. QED  BY <2>2 DEF Min
  <1>2. RemoveFirst(s, x) = a \o b
    BY <1>0 DEF RemoveFirst, RemoveAt, SelectInSeq
  <1>3. k \in 1..Len(s) /\ Len(s) \in Nat /\ s[k] = x /\ \A i \in 1..Len(s) : s[i] \in S
    BY <1>1, ElementOfSeq
  <1>. HIDE DEF k
  <1>4. /\ a \in Seq(S) /\ Len(a) = k - 1 /\ \A i \in 1..k - 1 : a[i] = s[i]
    <2>1. /\ a \in Seq(S)
          /\ Len(a) = IF 1 <= k - 1 THEN k - 1 - 1 + 1 ELSE 0
          /\ \A i \in 1..k - 1 - 1 + 1 : a[i] = s[1 + i - 1]
      <3>1. \A i \in 1..k - 1 : s[i] \in S
        BY <1>3
      <3>. QED  BY <1>3, <3>1, SubSeqProperties
    <2>. HIDE DEF a
    <2>. QED  BY <1>3, <2>1
  <1>5. b \in Seq(S) /\ Len(b) = Len(s) - k /\ \A i \in 1..Len(s) - k : b[i] = s[k + i]
    BY <1>3, PartFrom
  <1>. HIDE DEF a, b
  <1>6. /\ a \o b \in Seq(S) /\ Len(a \o b) = Len(s) - 1
        /\ \A i \in 1..Len(s) - 1 : (a \o b)[i] = s[g[i]]
    <2>1. /\ a \o b \in Seq(S) /\ Len(a \o b) = Len(a) + Len(b)
          /\ \A i \in 1..Len(a) + Len(b) :
               (a \o b)[i] = IF i <= Len(a) THEN a[i] ELSE b[i - Len(a)]
      BY <1>4, <1>5, ConcatProperties
    <2>2. ASSUME NEW i \in 1..Len(s) - 1 PROVE (a \o b)[i] = s[g[i]]
      <3>1. CASE i < k
        BY <1>3, <1>4, <1>5, <2>1, <3>1
      <3>2. CASE ~(i < k)
        <4>1. i - (k - 1) \in 1..Len(s) - k /\ k + (i - (k - 1)) = i + 1
          BY <1>3, <3>2
        <4>2. i \in 1..Len(a) + Len(b) /\ ~(i <= Len(a)) /\ Len(a) = k - 1 /\ g[i] = i + 1
          BY <1>3, <1>4, <1>5, <3>2
        <4>3. (a \o b)[i] = b[i - (k - 1)]
          BY <2>1, <4>2
        <4>. QED  BY <1>5, <4>1, <4>2, <4>3
      <3>. QED  BY <3>1, <3>2
    <2>. QED  BY <1>3, <1>4, <1>5, <2>1, <2>2
  <1>7. MovedUp(a \o b, s, k)
    BY <1>6 DEF MovedUp
  <1>. QED  BY <1>2, <1>3, <1>6, <1>7

\* so that what is left is a part,
LEMMA PartRemoved ==
    ASSUME NEW S, NEW s \in Seq(S), NEW x
    PROVE  RemoveFirst(s, x) \in Seq(S) /\ Part(RemoveFirst(s, x), s)
  <1>1. CASE ~ \E i \in 1..Len(s) : s[i] = x
    BY <1>1, PartOfItself DEF RemoveFirst
  <1>2. CASE \E i \in 1..Len(s) : s[i] = x
    <2>1. PICK r : r = RemoveFirst(s, x)
      OBVIOUS
    <2>2. r \in Seq(S) /\ Len(s) \in Nat /\ Len(r) = Len(s) - 1
      BY <1>2, <2>1, RemovedAt
    <2>3. PICK k \in 1..Len(s) : MovedUp(r, s, k)
      BY <1>2, <2>1, RemovedAt
    <2>. DEFINE g == [i \in 1..Len(r) |-> IF i < k THEN i ELSE i + 1]
    <2>4. g \in [1..Len(r) -> 1..Len(s)] /\ \A i, j \in 1..Len(r) : i < j => g[i] < g[j]
      BY <2>2
    <2>5. \A i \in 1..Len(r) : r[i] = s[g[i]]
      BY <2>2, <2>3 DEF MovedUp
    <2>. HIDE DEF g
    <2>6. Part(r, s)
      BY <2>4, <2>5 DEF Part
    <2>. QED  BY <2>1, <2>2, <2>6
  <1>. QED  BY <1>1, <1>2

\* and of a sequence in order exactly the one goes.
LEMMA RemovedOne ==
    ASSUME NEW n \in Nat, NEW s \in Seq(1..n), NEW x, Contains(s, x),
           \A i, j \in 1..Len(s) : i < j => s[i] < s[j]
    PROVE  \A y : Contains(RemoveFirst(s, x), y) <=> Contains(s, y) /\ y # x
  <1>. SUFFICES ASSUME NEW y PROVE Contains(RemoveFirst(s, x), y) <=> Contains(s, y) /\ y # x
    OBVIOUS
  <1>1. PICK r : r = RemoveFirst(s, x)
    OBVIOUS
  <1>2. \E i \in 1..Len(s) : s[i] = x
    BY DEF Contains
  <1>3. r \in Seq(1..n) /\ Len(s) \in Nat /\ Len(r) = Len(s) - 1
    BY <1>1, <1>2, RemovedAt
  <1>4. PICK k \in 1..Len(s) : s[k] = x /\ MovedUp(r, s, k)
    BY <1>1, <1>2, RemovedAt
  <1>5. \A i \in 1..Len(s) - 1 : r[i] = s[IF i < k THEN i ELSE i + 1]
    BY <1>4 DEF MovedUp
  <1>6. \A i \in 1..Len(s) : s[i] \in 1..n /\ (s[i] = x => i = k)
    <2>. TAKE i \in 1..Len(s)
    <2>1. s[i] \in 1..n /\ s[k] \in 1..n
      BY ElementOfSeq
    <2>2. i < k \/ i = k \/ k < i
      BY <1>3
    <2>. QED  BY <1>4, <2>1, <2>2
  <1>7. ASSUME Contains(r, y) PROVE Contains(s, y) /\ y # x
    <2>1. PICK i \in 1..Len(s) - 1 : r[i] = y
      BY <1>3, <1>7 DEF Contains
    <2>2. PICK j : j = IF i < k THEN i ELSE i + 1
      OBVIOUS
    <2>3. j \in 1..Len(s) /\ j # k
      BY <1>3, <2>2
    <2>4. s[j] = y
      BY <1>5, <2>1, <2>2
    <2>. QED  BY <1>6, <2>3, <2>4 DEF Contains
  <1>8. ASSUME Contains(s, y), y # x PROVE Contains(r, y)
    <2>1. PICK j \in 1..Len(s) : s[j] = y
      BY <1>8 DEF Contains
    <2>2. j # k
      BY <1>4, <1>8, <2>1
    <2>3. PICK i : i = IF j < k THEN j ELSE j - 1
      OBVIOUS
    <2>4. i \in 1..Len(s) - 1 /\ j = IF i < k THEN i ELSE i + 1
      BY <1>3, <2>2, <2>3
    <2>5. r[i] = y
      BY <1>5, <2>1, <2>4
    <2>. QED  BY <1>3, <2>4, <2>5 DEF Contains
  <1>. QED  BY <1>1, <1>7, <1>8

\* RemovePresentFromTemporaryTrackingCollections leaves a consumer.
LEMMA UntrackTyped ==
    ASSUME NEW n \in Nat, NEW c \in Consumers(n), NEW p \in 1..n
    PROVE  Untrack(c, p) \in Consumers(n)
  <1>. DEFINE e == c.presents[p]
  <1>1. e \in Presents(n) /\ c.waiting \in Seq(1..n)
    BY DEF Consumers
  <1>2. e.thread \in Threads /\ e.batchThread \in Threads \cup {None}
    BY <1>1 DEF Presents, Records
  <1>3. EraseIf(EraseIf(c.byThread, e.thread, p), e.batchThread, p) \in [Threads -> 0..n]
    <2>1. c.byThread \in [Threads -> 0..n]
      BY DEF Consumers
    <2>. HIDE DEF e
    <2>2. EraseIf(c.byThread, e.thread, p) \in [Threads -> 0..n]
      BY <1>2, <2>1, Erased
    <2>. QED  BY <1>2, <2>2, Erased
  <1>4. EraseIf(c.bySubmit, e.submit, p) \in [SubmitSeqs -> 0..n]
    BY <1>1, Erased DEF Consumers, Presents, Records
  <1>5. /\ EraseIf(c.win32k, e.win32k, p) \in [Tokens -> 0..n]
        /\ EraseIf(c.dxgk, e.token, p) \in [Tokens -> 0..n]
        /\ EraseIf(c.legacyBlit, e.blitToken, p) \in [Tokens -> 0..n]
    BY <1>1, Erased DEF Consumers, Presents, Records
  <1>6. EraseIf(c.blits, e.context, p) \in [Contexts -> 0..n]
    BY <1>1, Erased DEF Consumers, Presents, Records
  <1>7. EraseIf(c.window, e.hwnd, p) \in [Hwnds -> 0..n]
    BY <1>1, Erased DEF Consumers, Presents, Records
  <1>8. (IF e.inDwmWaiting THEN RemoveFirst(c.waiting, p) ELSE c.waiting) \in Seq(1..n)
    BY <1>1, PartRemoved
  <1>9. (e.inDwmWaiting /\ ~Contains(c.waiting, p)) \in BOOLEAN
    BY <1>1 DEF Presents, Records
  <1>. DEFINE th == EraseIf(EraseIf(c.byThread, e.thread, p), e.batchThread, p)
              su == EraseIf(c.bySubmit, e.submit, p)
              wi == EraseIf(c.win32k, e.win32k, p)
              dx == EraseIf(c.dxgk, e.token, p)
              bl == EraseIf(c.blits, e.context, p)
              wn == EraseIf(c.window, e.hwnd, p)
              wa == IF e.inDwmWaiting THEN RemoveFirst(c.waiting, p) ELSE c.waiting
              lb == EraseIf(c.legacyBlit, e.blitToken, p)
              in == e.inDwmWaiting /\ ~Contains(c.waiting, p)
              ps == [c.presents EXCEPT ![p] = [e EXCEPT !.inDwmWaiting = in]]
  <1>10. Untrack(c, p) =
           [c EXCEPT !.byThread = th, !.bySubmit = su, !.win32k = wi, !.dxgk = dx, !.blits = bl,
                     !.window = wn, !.waiting = wa, !.presents = ps, !.legacyBlit = lb]
    BY DEF Untrack
  <1>11. /\ th \in [Threads -> 0..n] /\ su \in [SubmitSeqs -> 0..n] /\ wi \in [Tokens -> 0..n]
         /\ dx \in [Tokens -> 0..n] /\ bl \in [Contexts -> 0..n] /\ wn \in [Hwnds -> 0..n]
         /\ wa \in Seq(1..n) /\ lb \in [Tokens -> 0..n] /\ in \in BOOLEAN
    BY <1>3, <1>4, <1>5, <1>6, <1>7, <1>8, <1>9
  <1>12. ps \in [1..n -> Presents(n)]
    <2>1. [e EXCEPT !.inDwmWaiting = in] \in Presents(n)
      <3>. HIDE DEF in, e
      <3>1. e \in Records(n)
        BY <1>1, PresentIsRecord
      <3>2. PICK f : f = [e EXCEPT !.inDwmWaiting = in]
        OBVIOUS
      <3>3. f \in Records(n) /\ f.final = e.final /\ f.screen = e.screen
        BY <1>11, <3>1, <3>2 DEF Records
      <3>. QED  BY <1>1, <3>2, <3>3, OutcomeKept
    <2>. HIDE DEF e, in
    <2>. QED  BY <2>1 DEF Consumers
  <1>. HIDE DEF th, su, wi, dx, bl, wn, wa, lb, ps
  <1>13. PICK d : d = [c EXCEPT !.byThread = th, !.bySubmit = su, !.win32k = wi, !.dxgk = dx]
    OBVIOUS
  <1>14. d \in Consumers(n)
    BY <1>11, <1>13 DEF Consumers
  <1>15. PICK f : f = [d EXCEPT !.blits = bl, !.window = wn, !.legacyBlit = lb]
    OBVIOUS
  <1>16. f \in Consumers(n)
    BY <1>11, <1>14, <1>15 DEF Consumers
  <1>17. Untrack(c, p) = [f EXCEPT !.waiting = wa, !.presents = ps]
    BY <1>10, <1>13, <1>15 DEF Consumers
  <1>18. wa \in Seq(1..n)
    BY <1>11
  <1>. QED
    BY <1>18, <1>12, <1>16, <1>17 DEF Consumers

-----------------------------------------------------------------------------
(* The order of a swap chain's presents.                                   *)

Increasing(s) == \A i, j \in 1..Len(s) : i < j => s[i] < s[j]

\* A swap chain's deque holds presents of it in the order they were made, and what was
\* delivered of it, in order, is older than all of them.
Order(c) ==
  /\ \A k \in Chains :
       /\ Increasing(c.bySwapChain[k])
       /\ \A i \in 1..Len(c.bySwapChain[k]) : Key(c, c.bySwapChain[k][i]) = k
       /\ \A i \in 1..Len(c.delivered), j \in 1..Len(c.bySwapChain[k]) :
            Key(c, c.delivered[i]) = k => c.delivered[i] < c.bySwapChain[k][j]
  /\ \A i, j \in 1..Len(c.delivered) :
       i < j /\ Key(c, c.delivered[i]) = Key(c, c.delivered[j]) => c.delivered[i] < c.delivered[j]

Good(c, n) == c \in Consumers(n) /\ Order(c)

\* A present's swap chain has a deque.
LEMMA KeyTyped ==
    ASSUME NEW n \in Nat, NEW c \in Consumers(n), NEW p \in 1..n
    PROVE  /\ Key(c, p) \in Chains /\ Deque(c, p) \in Seq(1..n) /\ Len(Deque(c, p)) \in Nat
           /\ Deque(c, p) = c.bySwapChain[Key(c, p)]
  <1>1. c.presents[p] \in Presents(n)
    BY DEF Consumers
  <1>2. c.presents[p].process \in Processes /\ c.presents[p].swap \in SwapChains \cup {None}
    BY <1>1, TrackingAssumption DEF Presents, Records, Owners
  <1>3. Key(c, p) \in Chains
    BY <1>2 DEF Key, Chains
  <1>4. c.bySwapChain[Key(c, p)] \in Seq(1..n)
    BY <1>3 DEF Consumers
  <1>. QED  BY <1>3, <1>4, LenProperties DEF Deque

\* The same presents wait, the same were delivered, and all are whose they were.
SameQueues(c, d, n) ==
  /\ d.bySwapChain = c.bySwapChain /\ d.delivered = c.delivered
  /\ \A p \in 1..n : Key(d, p) = Key(c, p)

\* What changes no deque and delivers nothing keeps the order.
LEMMA OrderKept ==
    ASSUME NEW n \in Nat, NEW c, NEW d, Good(c, n), d \in Consumers(n), SameQueues(c, d, n)
    PROVE  Good(d, n)
  <1>1. /\ c.bySwapChain \in [Chains -> Seq(1..n)] /\ c.delivered \in Seq(1..n)
    BY DEF Good, Consumers
  <1>2. \A k \in Chains : \A i \in 1..Len(c.bySwapChain[k]) : c.bySwapChain[k][i] \in 1..n
    BY <1>1, ElementOfSeq
  <1>3. \A i \in 1..Len(c.delivered) : c.delivered[i] \in 1..n
    BY <1>1, ElementOfSeq
  <1>. QED  BY <1>2, <1>3 DEF Good, Order, SameQueues

\* A present may change, but not the process and the swap chain it is of.
LEMMA EditGood ==
    ASSUME NEW n \in Nat, NEW c, Good(c, n), NEW p \in 1..n, NEW e \in Presents(n),
           e.process = c.presents[p].process, e.swap = c.presents[p].swap
    PROVE  Good([c EXCEPT !.presents[p] = e], n)
  <1>. DEFINE d == [c EXCEPT !.presents[p] = e]
  <1>1. d \in Consumers(n)
    BY Edited DEF Good
  <1>2. SameQueues(c, d, n)
    BY DEF SameQueues, Good, Consumers, Key
  <1>. QED  BY <1>1, <1>2, OrderKept

\* A deque may lose presents.
LEMMA ThinGood ==
    ASSUME NEW n \in Nat, NEW c, Good(c, n), NEW k \in Chains, NEW s \in Seq(1..n),
           Part(s, c.bySwapChain[k])
    PROVE  Good([c EXCEPT !.bySwapChain[k] = s], n)
  <1>. DEFINE d == [c EXCEPT !.bySwapChain[k] = s]
              q == c.bySwapChain[k]
  <1>1. d \in Consumers(n) /\ q \in Seq(1..n)
    BY DEF Good, Consumers
  <1>2. PICK g \in [1..Len(s) -> 1..Len(q)] :
          /\ \A i, j \in 1..Len(s) : i < j => g[i] < g[j]
          /\ \A i \in 1..Len(s) : s[i] = q[g[i]]
    BY DEF Part
  <1>3. d.delivered = c.delivered /\ \A p : Key(d, p) = Key(c, p)
    BY DEF Good, Consumers, Key
  <1>4. d.bySwapChain[k] = s /\ \A m \in Chains \ {k} : d.bySwapChain[m] = c.bySwapChain[m]
    BY DEF Good, Consumers
  <1>9. /\ \A i, j \in 1..Len(q) : i < j => q[i] < q[j]
        /\ \A i \in 1..Len(q) : Key(c, q[i]) = k
        /\ \A i \in 1..Len(c.delivered), j \in 1..Len(q) :
             Key(c, c.delivered[i]) = k => c.delivered[i] < q[j]
    BY DEF Good, Order, Increasing
  <1>. HIDE DEF d, q
  <1>5. Increasing(s)
    BY <1>2, <1>9 DEF Increasing
  <1>6. \A i \in 1..Len(s) : Key(d, s[i]) = k
    BY <1>2, <1>3, <1>9
  <1>7. \A i \in 1..Len(d.delivered), j \in 1..Len(s) :
          Key(d, d.delivered[i]) = k => d.delivered[i] < s[j]
    <2>. TAKE i \in 1..Len(d.delivered), j \in 1..Len(s)
    <2>1. s[j] = q[g[j]] /\ g[j] \in 1..Len(q) /\ i \in 1..Len(c.delivered)
      BY <1>2, <1>3
    <2>2. Key(c, c.delivered[i]) = k => c.delivered[i] < q[g[j]]
      BY <1>9, <2>1
    <2>. QED  BY <1>3, <2>1, <2>2
  <1>8. Order(d)
    <2>1. ASSUME NEW m \in Chains
          PROVE  /\ Increasing(d.bySwapChain[m])
                 /\ \A i \in 1..Len(d.bySwapChain[m]) : Key(d, d.bySwapChain[m][i]) = m
                 /\ \A i \in 1..Len(d.delivered), j \in 1..Len(d.bySwapChain[m]) :
                      Key(d, d.delivered[i]) = m => d.delivered[i] < d.bySwapChain[m][j]
      <3>1. CASE m = k
        BY <1>4, <1>5, <1>6, <1>7, <3>1
      <3>2. CASE m # k
        BY <1>3, <1>4, <3>2 DEF Good, Order
      <3>. QED  BY <3>1, <3>2
    <2>2. \A i, j \in 1..Len(d.delivered) :
            i < j /\ Key(d, d.delivered[i]) = Key(d, d.delivered[j])
              => d.delivered[i] < d.delivered[j]
      BY <1>3 DEF Good, Order
    <2>. QED  BY <2>1, <2>2 DEF Order
  <1>. QED  BY <1>1, <1>8 DEF Good, d

\* RemovePresentFromTemporaryTrackingCollections keeps the order,
LEMMA UntrackGood ==
    ASSUME NEW n \in Nat, NEW c, Good(c, n), NEW p \in 1..n
    PROVE  /\ Good(Untrack(c, p), n) /\ SameQueues(c, Untrack(c, p), n)
           /\ \A q \in 1..n : Untrack(c, p).presents[q].slot = c.presents[q].slot
  <1>1. Untrack(c, p) \in Consumers(n)
    BY UntrackTyped DEF Good
  <1>2. SameQueues(c, Untrack(c, p), n)
    BY DEF SameQueues, Untrack, Good, Consumers, Key, Presents, Records
  <1>3. \A q \in 1..n : Untrack(c, p).presents[q].slot = c.presents[q].slot
    BY DEF Untrack, Good, Consumers, Presents, Records
  <1>. QED  BY <1>1, <1>2, <1>3, OrderKept

\* and so does an assert, that only leaves its line when it fails.
LEMMA AssertGood ==
    ASSUME NEW n \in Nat, NEW c, Good(c, n), NEW line \in Nat, NEW holds
    PROVE  Good(Assert_(c, line, holds), n) /\ Assert_(c, line, holds).presents = c.presents
  <1>1. CASE holds
    BY <1>1 DEF Assert_
  <1>2. CASE ~holds
    <2>. DEFINE d == [c EXCEPT !.failed = c.failed \cup {line}]
    <2>1. Assert_(c, line, holds) = d
      BY <1>2 DEF Assert_
    <2>2. d \in Consumers(n) /\ d.presents = c.presents
      BY DEF Good, Consumers
    <2>3. SameQueues(c, d, n)
      BY DEF SameQueues, Good, Consumers, Key
    <2>. QED  BY <2>1, <2>2, <2>3, OrderKept
  <1>. QED  BY <1>1, <1>2

-----------------------------------------------------------------------------
(* Presents that are given up, and presents that are delivered.            *)

\* RemoveLostPresent takes one present off its deque.
LEMMA GiveUpGood ==
    ASSUME NEW n \in Nat, NEW c, Good(c, n), NEW p \in 1..n
    PROVE  Good(GiveUp(c, p), n)
  <1>. DEFINE k == Key(c, p)
              slot == c.presents[p].slot
  <1>1. k \in Chains /\ c.bySwapChain[k] \in Seq(1..n) /\ Deque(c, p) = c.bySwapChain[k]
    BY KeyTyped DEF Good
  <1>2. PICK a : a = Assert_(c, 1395, Contains(Deque(c, p), p))
    OBVIOUS
  <1>3. Good(a, n) /\ a.bySwapChain = c.bySwapChain
    <2>1. 1395 \in Nat
      OBVIOUS
    <2>2. a.bySwapChain = c.bySwapChain
      BY <1>2 DEF Assert_, Good, Consumers
    <2>. QED  BY <1>2, <2>1, <2>2, AssertGood
  <1>4. GiveUp(c, p) = [a EXCEPT !.byProcess = @ \ {p}, !.bySwapChain[k] = RemoveFirst(@, p),
                                 !.lost = @ \cup {c.ring[slot]}, !.ring[slot] = NoPresent]
    BY <1>2 DEF GiveUp
  <1>5. PICK s : s = RemoveFirst(a.bySwapChain[k], p)
    OBVIOUS
  <1>6. s \in Seq(1..n) /\ Part(s, a.bySwapChain[k])
    BY <1>1, <1>3, <1>5, PartRemoved
  <1>7. slot \in Slots /\ c.ring[slot] \in 0..n
    BY DEF Good, Consumers, Presents, Records
  <1>. HIDE DEF k, slot
  <1>8. PICK b : b = [a EXCEPT !.bySwapChain[k] = s]
    OBVIOUS
  <1>9. Good(b, n)
    BY <1>1, <1>3, <1>6, <1>8, ThinGood
  <1>10. PICK lost : lost = b.lost \cup {c.ring[slot]}
    OBVIOUS
  <1>11. PICK d : d = [b EXCEPT !.byProcess = @ \ {p}, !.lost = lost, !.ring[slot] = NoPresent]
    OBVIOUS
  <1>12. d \in Consumers(n)
    <2>1. lost \in SUBSET (0..n)
      BY <1>7, <1>9, <1>10 DEF Good, Consumers
    <2>2. NoPresent \in 0..n
      BY DEF NoPresent
    <2>. QED  BY <1>7, <1>9, <1>11, <2>1, <2>2 DEF Good, Consumers
  <1>13. SameQueues(b, d, n)
    BY <1>9, <1>11 DEF Good, Consumers, SameQueues, Key
  <1>14. GiveUp(c, p) = d
    BY <1>3, <1>4, <1>5, <1>8, <1>10, <1>11 DEF Good, Consumers
  <1>. QED  BY <1>9, <1>12, <1>13, <1>14, OrderKept

\* RemoveLostPresent keeps the order.
LEMMA RemoveLostGood ==
    ASSUME NEW n \in Nat, NEW c, Good(c, n), NEW p \in 1..n
    PROVE  Good(RemoveLost(c, p), n)
  <1>. DEFINE e == c.presents[p]
              marked == [c EXCEPT !.presents[p].lost = TRUE]
              shown == e.completed /\ e.final = "Presented"
              a == Assert_(marked, 1371, ~shown)
  <1>1. Good(marked, n)
    <2>1. e \in Presents(n)
      BY DEF Good, Consumers
    <2>2. PICK f : f = [e EXCEPT !.lost = TRUE]
      OBVIOUS
    <2>3. f \in Presents(n) /\ f.process = e.process /\ f.swap = e.swap
      <3>. HIDE DEF e
      <3>. QED  BY <2>1, <2>2 DEF Presents, Records
    <2>4. marked = [c EXCEPT !.presents[p] = f]
      BY <2>2 DEF Good, Consumers
    <2>. QED  BY <2>3, <2>4, EditGood
  <1>. HIDE DEF marked
  <1>2. Good(a, n)
    <2>1. 1371 \in Nat
      OBVIOUS
    <2>. QED  BY <1>1, <2>1, AssertGood
  <1>. HIDE DEF a
  <1>3. Good(Untrack(a, p), n)
    BY <1>2, UntrackGood
  <1>. QED  BY <1>3, GiveUpGood DEF RemoveLost, a, marked

\* The ready prefix of a deque is no longer than the deque.
LEMMA ReadyBounded ==
    ASSUME NEW c, NEW s, Len(s) \in Nat, DOMAIN s = 1..Len(s)
    PROVE  Cardinality({i \in DOMAIN s : \A j \in 1..i : c.presents[s[j]].completed}) \in 0..Len(s)
  <1>. DEFINE R == {i \in DOMAIN s : \A j \in 1..i : c.presents[s[j]].completed}
  <1>1. IsFiniteSet(1..Len(s)) /\ Cardinality(1..Len(s)) = Len(s)
    <2>1. PICK l \in Nat : l = Len(s)
      OBVIOUS
    <2>2. IsFiniteSet(1..l) /\ Cardinality(1..l) = IF 1 > l THEN 0 ELSE l - 1 + 1
      <3>1. 1 \in Int /\ l \in Int
        OBVIOUS
      <3>. QED  BY <3>1, FS_Interval
    <2>. QED  BY <2>1, <2>2
  <1>2. R \subseteq 1..Len(s)
    OBVIOUS
  <1>. HIDE DEF R
  <1>3. IsFiniteSet(R) /\ Cardinality(R) <= Cardinality(1..Len(s))
    BY <1>1, <1>2, FS_Subset
  <1>4. Cardinality(R) \in Nat
    BY <1>3, FS_CardinalityType
  <1>. QED  BY <1>1, <1>3, <1>4 DEF R

\* The delivery moves the ready prefix of one deque, the oldest of its swap chain, to the
\* end of mPresentEvents, whose presents of that chain were all older still.
LEMMA DeliverReadyGood ==
    ASSUME NEW n \in Nat, NEW c, Good(c, n), NEW p \in 1..n
    PROVE  Good(DeliverReady(c, p), n)
  <1>. DEFINE k == Key(c, p)
              d == c.bySwapChain[k]
              m == Cardinality({i \in DOMAIN d : \A j \in 1..i : c.presents[d[j]].completed})
              ready == SubSeq(d, 1, m)
              left == SubSeq(d, m + 1, Len(d))
              ring == [s \in DOMAIN c.ring |->
                         IF \E i \in DOMAIN ready : c.presents[ready[i]].slot = s
                         THEN NoPresent ELSE c.ring[s]]
              z == [c EXCEPT !.bySwapChain[k] = left, !.delivered = c.delivered \o ready,
                             !.ring = ring]
  <1>1. k \in Chains /\ d \in Seq(1..n) /\ Len(d) \in Nat /\ DOMAIN d = 1..Len(d)
    <2>1. k \in Chains /\ d \in Seq(1..n)
      BY KeyTyped DEF Good
    <2>. HIDE DEF d
    <2>. QED  BY <2>1, LenProperties
  <1>2. DeliverReady(c, p) = z
    BY DEF DeliverReady, Deque
  <1>3. m \in 0..Len(d)
    <2>. HIDE DEF d
    <2>. QED  BY <1>1, ReadyBounded
  <1>4. ring \in [Slots -> 0..n]
    <2>. HIDE DEF ready
    <2>. QED  BY DEF Good, Consumers, NoPresent
  <1>5. c.bySwapChain \in [Chains -> Seq(1..n)] /\ c.delivered \in Seq(1..n)
    BY DEF Good, Consumers
  <1>. HIDE DEF m
  <1>6. left \in Seq(1..n) /\ Part(left, d) /\ Len(left) = Len(d) - m
        /\ \A i \in 1..Len(d) - m : left[i] = d[m + i]
    BY <1>1, <1>3, PartFrom
  <1>7. ready \in Seq(1..n) /\ Len(ready) = m /\ \A i \in 1..m : ready[i] = d[i]
    <2>. HIDE DEF d
    <2>1. \A i \in 1..m : d[i] \in 1..n
      BY <1>1, <1>3, ElementOfSeq
    <2>2. /\ SubSeq(d, 1, m) \in Seq(1..n)
          /\ Len(SubSeq(d, 1, m)) = IF 1 <= m THEN m - 1 + 1 ELSE 0
          /\ \A i \in 1..m - 1 + 1 : SubSeq(d, 1, m)[i] = d[1 + i - 1]
      BY <1>1, <1>3, <2>1, SubSeqProperties
    <2>. QED  BY <1>3, <2>2
  <1>. HIDE DEF ready, left, ring, d
  <1>. DEFINE L == Len(c.delivered)
  <1>8. /\ c.delivered \o ready \in Seq(1..n) /\ L \in Nat
        /\ Len(c.delivered \o ready) = L + m
        /\ \A i \in 1..L + m : (c.delivered \o ready)[i] =
                                 IF i <= L THEN c.delivered[i] ELSE d[i - L]
    <2>1. /\ c.delivered \o ready \in Seq(1..n)
          /\ Len(c.delivered \o ready) = L + Len(ready)
          /\ \A i \in 1..L + Len(ready) : (c.delivered \o ready)[i] =
               IF i <= Len(c.delivered) THEN c.delivered[i] ELSE ready[i - L]
      BY <1>5, <1>7, ConcatProperties
    <2>2. L \in Nat
      BY <1>5, LenProperties
    <2>3. ASSUME NEW i \in 1..L + m, ~(i <= L) PROVE ready[i - L] = d[i - L]
      BY <1>3, <1>7, <2>2, <2>3
    <2>. QED  BY <1>7, <2>1, <2>2, <2>3
  <1>9. z \in Consumers(n)
    BY <1>1, <1>4, <1>6, <1>8 DEF Good, Consumers
  <1>10. /\ \A q : Key(z, q) = Key(c, q)
         /\ z.delivered = c.delivered \o ready
         /\ z.bySwapChain = [c.bySwapChain EXCEPT ![k] = left]
    BY DEF Good, Consumers, Key
  <1>. HIDE DEF z
  <1>. HIDE DEF k
  <1>11. /\ \A i, j \in 1..Len(d) : i < j => d[i] < d[j]
         /\ \A i \in 1..Len(d) : Key(c, d[i]) = k
         /\ \A i \in 1..Len(c.delivered), j \in 1..Len(d) :
              Key(c, c.delivered[i]) = k => c.delivered[i] < d[j]
    BY <1>1 DEF Good, Order, Increasing, d
  <1>12. \A i, j \in 1..L : i < j /\ Key(c, c.delivered[i]) = Key(c, c.delivered[j])
                              => c.delivered[i] < c.delivered[j]
    BY DEF Good, Order
  <1>13. \A i \in 1..L : c.delivered[i] \in 1..n
    BY <1>5, <1>8, ElementOfSeq
  <1>14. \A i \in 1..Len(d) : d[i] \in 1..n
    BY <1>1, ElementOfSeq
  <1>15. PICK D : D = z.delivered
    OBVIOUS
  <1>16. \A i \in 1..L + m : D[i] = IF i <= L THEN c.delivered[i] ELSE d[i - L]
    BY <1>8, <1>10, <1>15
  <1>17. Len(D) = L + m /\ m \in Nat /\ L \in Nat
    BY <1>3, <1>8, <1>10, <1>15
  <1>18. ASSUME NEW i \in 1..Len(D), NEW j \in 1..Len(D), i < j, Key(c, D[i]) = Key(c, D[j])
         PROVE  D[i] < D[j]
    <2>1. CASE j <= L
      BY <1>12, <1>16, <1>17, <1>18, <2>1
    <2>2. CASE ~(j <= L) /\ i <= L
      <3>1. j - L \in 1..Len(d) /\ i \in 1..L
        BY <1>1, <1>3, <1>17, <2>2
      <3>4. D[j] = d[j - L] /\ D[i] = c.delivered[i]
        BY <1>16, <1>17, <2>2
      <3>2. Key(c, D[j]) = k
        BY <1>11, <3>1, <3>4
      <3>. QED  BY <1>11, <1>18, <3>1, <3>2, <3>4
    <2>3. CASE ~(i <= L)
      <3>1. /\ i - L \in 1..Len(d) /\ j - L \in 1..Len(d) /\ i - L < j - L
        BY <1>1, <1>3, <1>17, <1>18, <2>3
      <3>2. D[i] = d[i - L] /\ D[j] = d[j - L]
        BY <1>16, <1>17, <1>18, <2>3
      <3>. QED  BY <1>11, <3>1, <3>2
    <2>. QED  BY <2>1, <2>2, <2>3
  <1>19. ASSUME NEW i \in 1..Len(D), NEW j \in 1..Len(left), Key(c, D[i]) = k
         PROVE  D[i] < left[j]
    <2>1. left[j] = d[m + j] /\ m + j \in 1..Len(d)
      BY <1>1, <1>3, <1>6
    <2>2. CASE i <= L
      BY <1>11, <1>16, <1>17, <1>19, <2>1, <2>2
    <2>3. CASE ~(i <= L)
      <3>1. i - L \in 1..Len(d) /\ i - L < m + j /\ D[i] = d[i - L]
        BY <1>1, <1>3, <1>16, <1>17, <2>3
      <3>. QED  BY <1>11, <2>1, <3>1
    <2>. QED  BY <2>2, <2>3
  <1>20. ASSUME NEW h \in Chains, h # k, NEW i \in 1..Len(D), NEW j \in 1..Len(c.bySwapChain[h]),
                Key(c, D[i]) = h
         PROVE  D[i] < c.bySwapChain[h][j]
    <2>1. CASE i <= L
      BY <1>16, <1>17, <1>20, <2>1 DEF Good, Order
    <2>2. CASE ~(i <= L)
      <3>1. i - L \in 1..Len(d) /\ D[i] = d[i - L]
        BY <1>1, <1>3, <1>16, <1>17, <2>2
      <3>. QED  BY <1>11, <1>20, <3>1
    <2>. QED  BY <2>1, <2>2
  <1>21. Increasing(left) /\ \A i \in 1..Len(left) : Key(c, left[i]) = k
    <2>1. ASSUME NEW i \in 1..Len(left)
          PROVE  left[i] = d[m + i] /\ m + i \in 1..Len(d)
      BY <1>1, <1>3, <1>6
    <2>2. \A i, j \in 1..Len(left) : i < j => left[i] < left[j]
      <3>. TAKE i, j \in 1..Len(left)
      <3>1. i < j => m + i < m + j
        BY <1>1, <1>3, <1>6
      <3>. QED  BY <1>11, <2>1, <3>1
    <2>. QED  BY <1>11, <2>1, <2>2 DEF Increasing
  <1>22. Order(z)
    <2>1. ASSUME NEW h \in Chains
          PROVE  /\ Increasing(z.bySwapChain[h])
                 /\ \A i \in 1..Len(z.bySwapChain[h]) : Key(z, z.bySwapChain[h][i]) = h
                 /\ \A i \in 1..Len(D), j \in 1..Len(z.bySwapChain[h]) :
                      Key(z, D[i]) = h => D[i] < z.bySwapChain[h][j]
      <3>1. CASE h = k
        <4>1. z.bySwapChain[h] = left
          BY <1>1, <1>5, <1>10, <3>1
        <4>. QED  BY <1>10, <1>19, <1>21, <3>1, <4>1
      <3>2. CASE h # k
        <4>1. z.bySwapChain[h] = c.bySwapChain[h]
          BY <1>1, <1>5, <1>10, <3>2
        <4>2. /\ Increasing(c.bySwapChain[h])
              /\ \A i \in 1..Len(c.bySwapChain[h]) : Key(c, c.bySwapChain[h][i]) = h
          BY DEF Good, Order
        <4>. QED  BY <1>10, <1>20, <3>2, <4>1, <4>2
      <3>. QED  BY <3>1, <3>2
    <2>. QED  BY <1>10, <1>15, <1>18, <2>1 DEF Order
  <1>. QED  BY <1>2, <1>9, <1>22 DEF Good, z, left, ready, ring, m, d, k

-----------------------------------------------------------------------------
(* CompletePresent, one job at a time.                                     *)

JobsFor(n) == [do : {"call", "ride", "untrack", "older", "deliver"}, p : 1..n, of : 1..n]

\* A completion under way leaves the consumer in order, and goes on with presents
\* that exist.
Underway(s, n) == Good(s.c, n) /\ s.todo \in Seq(JobsFor(n))

\* The stack of a completion holds jobs,
LEMMA OneJob ==
    ASSUME NEW n \in Nat, NEW j \in JobsFor(n)
    PROVE  <<j>> \in Seq(JobsFor(n))
  OBVIOUS

\* one for each kind and present.
LEMMA JobTyped ==
    ASSUME NEW n \in Nat, NEW p \in 1..n, NEW do \in {"call", "ride", "untrack", "older", "deliver"}
    PROVE  Job(do, p) \in JobsFor(n)
  BY DEF Job, JobsFor

\* A dependent takes the outcome of the present it rides along with.
LEMMA RideGood ==
    ASSUME NEW n \in Nat, NEW c, Good(c, n), NEW q \in 1..n, NEW p \in 1..n
    PROVE  Underway(Ride(c, q, p), n)
  <1>1. CASE c.presents[q].lost
    BY <1>1 DEF Underway, Ride, State
  <1>2. CASE ~c.presents[q].lost
    <2>1. PICK f : f = [c.presents[q] EXCEPT !.screen = c.presents[p].screen,
                                             !.final = c.presents[p].final]
      OBVIOUS
    <2>2. c.presents[q] \in Presents(n) /\ c.presents[p] \in Presents(n)
      BY DEF Good, Consumers
    <2>3. f \in Presents(n) /\ f.process = c.presents[q].process /\ f.swap = c.presents[q].swap
      <3>1. PICK a, b : a = c.presents[q] /\ b = c.presents[p]
        OBVIOUS
      <3>2. a \in Records(n) /\ b \in Records(n) /\ b \in Presents(n)
        BY <2>2, <3>1, PresentIsRecord
      <3>3. /\ f \in Records(n) /\ f.process = a.process /\ f.swap = a.swap
            /\ f.final = b.final /\ f.screen = b.screen
        <4>1. b.screen \in BOOLEAN /\ b.final \in Results
          BY <3>2 DEF Records
        <4>2. PICK h : h = [a EXCEPT !.screen = b.screen]
          OBVIOUS
        <4>3. h \in Records(n) /\ h.process = a.process /\ h.swap = a.swap /\ h.screen = b.screen
          BY <3>2, <4>1, <4>2 DEF Records
        <4>4. f = [h EXCEPT !.final = b.final]
          BY <2>1, <3>1, <4>2
        <4>. QED  BY <4>1, <4>3, <4>4 DEF Records
      <3>4. f \in Presents(n)
        BY <3>2, <3>3, OutcomeKept
      <3>. QED  BY <3>1, <3>3, <3>4
    <2>4. Good([c EXCEPT !.presents[q] = f], n)
      BY <2>3, EditGood
    <2>5. Ride(c, q, p) = State([c EXCEPT !.presents[q] = f], <<Job("call", q)>>)
      <3>1. [c EXCEPT !.presents[q].screen = c.presents[p].screen,
                      !.presents[q].final = c.presents[p].final] = [c EXCEPT !.presents[q] = f]
        BY <2>1, <2>2 DEF Good, Consumers
      <3>. QED  BY <1>2, <3>1 DEF Ride
    <2>6. <<Job("call", q)>> \in Seq(JobsFor(n))
      BY JobTyped
    <2>. QED  BY <2>4, <2>5, <2>6 DEF Underway, State
  <1>. QED  BY <1>1, <1>2

\* CompletePresent starts with the dependents.
LEMMA CallGood ==
    ASSUME NEW n \in Nat, NEW c, Good(c, n), NEW p \in 1..n
    PROVE  Underway(Call(c, p), n)
  <1>0. c.presents[p] \in Presents(n)
    BY DEF Good, Consumers
  <1>1. CASE c.presents[p].completed
    <2>1. PICK f : f = [c.presents[p] EXCEPT !.final = "Error"]
      OBVIOUS
    <2>2. f \in Presents(n) /\ f.process = c.presents[p].process /\ f.swap = c.presents[p].swap
      BY <1>0, <2>1 DEF Presents, Records, Results
    <2>3. Good([c EXCEPT !.presents[p] = f], n)
      BY <2>2, EditGood
    <2>4. Call(c, p) = State([c EXCEPT !.presents[p] = f], <<>>)
      <3>1. [c EXCEPT !.presents[p].final = "Error"] = [c EXCEPT !.presents[p] = f]
        BY <2>1 DEF Good, Consumers
      <3>. QED  BY <1>1, <3>1 DEF Call
    <2>. QED  BY <2>3, <2>4 DEF Underway, State
  <1>2. CASE ~c.presents[p].completed
    <2>1. PICK deps \in Seq(1..n) : deps = c.presents[p].deps
      BY <1>0 DEF Presents, Records
    <2>2. PICK rides : rides = [i \in DOMAIN deps |-> [do |-> "ride", p |-> deps[i], of |-> p]]
      OBVIOUS
    <2>3. rides \in Seq(JobsFor(n))
      <3>1. DOMAIN deps = 1..Len(deps) /\ Len(deps) \in Nat
        BY <2>1, LenProperties
      <3>2. \A i \in 1..Len(deps) : [do |-> "ride", p |-> deps[i], of |-> p] \in JobsFor(n)
        BY <2>1 DEF JobsFor
      <3>3. rides \in [1..Len(deps) -> JobsFor(n)]
        BY <2>2, <3>1, <3>2
      <3>. QED  BY <3>1, <3>3, NumberedIsSeq
    <2>4. Append(rides, Job("untrack", p)) \in Seq(JobsFor(n))
      BY <2>3, JobTyped
    <2>5. Call(c, p) = State(c, Append(rides, Job("untrack", p)))
      BY <1>2, <2>1, <2>2 DEF Call
    <2>. QED  BY <2>4, <2>5 DEF Underway, State
  <1>. QED  BY <1>1, <1>2

\* Then the present leaves the collections,
LEMMA CompleteUntrackedGood ==
    ASSUME NEW n \in Nat, NEW c, Good(c, n), NEW p \in 1..n
    PROVE  Underway(CompleteUntracked(c, p), n)
  <1>1. PICK f : f = [c.presents[p] EXCEPT !.deps = <<>>]
    OBVIOUS
  <1>2. f \in Presents(n) /\ f.process = c.presents[p].process /\ f.swap = c.presents[p].swap
    <2>1. c.presents[p] \in Presents(n)
      BY DEF Good, Consumers
    <2>2. <<>> \in Seq(1..n)
      OBVIOUS
    <2>. QED  BY <1>1, <2>1, <2>2 DEF Presents, Records
  <1>3. PICK b : b = [c EXCEPT !.presents[p].deps = <<>>]
    OBVIOUS
  <1>4. Good(b, n)
    <2>1. b = [c EXCEPT !.presents[p] = f]
      BY <1>1, <1>3 DEF Good, Consumers
    <2>. QED  BY <1>2, <2>1, EditGood
  <1>5. PICK u : u = Untrack(b, p)
    OBVIOUS
  <1>6. Good(u, n)
    BY <1>4, <1>5, UntrackGood
  <1>7. PICK d : d = [u EXCEPT !.byProcess = @ \ {p}]
    OBVIOUS
  <1>8. Good(d, n)
    <2>1. d \in Consumers(n) /\ SameQueues(u, d, n)
      BY <1>6, <1>7 DEF Good, Consumers, SameQueues, Key
    <2>. QED  BY <1>6, <2>1, OrderKept
  <1>9. PICK a : a = Assert_(d, 1441, Deque(d, p) # <<>> /\ ~d.presents[Head(Deque(d, p))].completed)
    OBVIOUS
  <1>10. Good(a, n)
    BY <1>8, <1>9, AssertGood
  <1>11. CompleteUntracked(c, p) =
           State(a, IF d.presents[p].final = "Presented"
                    THEN <<Job("older", p), Job("deliver", p)>> ELSE <<Job("deliver", p)>>)
    BY <1>3, <1>5, <1>7, <1>9 DEF CompleteUntracked
  <1>12. <<Job("older", p), Job("deliver", p)>> \in Seq(JobsFor(n)) /\ <<Job("deliver", p)>> \in Seq(JobsFor(n))
    <2>1. Job("older", p) \in JobsFor(n) /\ Job("deliver", p) \in JobsFor(n)
      BY JobTyped
    <2>. QED  BY <2>1
  <1>. QED  BY <1>10, <1>11, <1>12 DEF Underway, State

\* the older ones of its swap chain are completed,
LEMMA CompleteOlderGood ==
    ASSUME NEW n \in Nat, NEW c, Good(c, n), NEW p \in 1..n
    PROVE  Underway(CompleteOlder(c, p), n)
  <1>1. PICK d \in Seq(1..n) : d = Deque(c, p)
    BY KeyTyped DEF Good
  <1>2. CASE d = <<>> \/ Head(d) = p
    BY <1>1, <1>2 DEF CompleteOlder, Underway, State
  <1>3. CASE ~(d = <<>> \/ Head(d) = p)
    <2>1. Head(d) \in 1..n
      BY <1>1, <1>3, HeadTailProperties
    <2>2. Job("call", Head(d)) \in JobsFor(n) /\ Job("older", p) \in JobsFor(n)
      BY <2>1, JobTyped
    <2>3. <<Job("call", Head(d)), Job("older", p)>> \in Seq(JobsFor(n))
      BY <2>2
    <2>. QED  BY <1>1, <1>3, <2>3 DEF CompleteOlder, Underway, State
  <1>. QED  BY <1>2, <1>3

\* and what is ready is delivered.
LEMMA DeliverGood ==
    ASSUME NEW n \in Nat, NEW c, Good(c, n), NEW p \in 1..n
    PROVE  Underway(Deliver(c, p), n)
  <1>1. PICK f : f = [c.presents[p] EXCEPT !.completed = TRUE]
    OBVIOUS
  <1>2. f \in Presents(n) /\ f.process = c.presents[p].process /\ f.swap = c.presents[p].swap
    <2>1. c.presents[p] \in Presents(n)
      BY DEF Good, Consumers
    <2>. QED  BY <1>1, <2>1 DEF Presents, Records
  <1>3. PICK b : b = [c EXCEPT !.presents[p].completed = TRUE]
    OBVIOUS
  <1>4. Good(b, n)
    <2>1. b = [c EXCEPT !.presents[p] = f]
      BY <1>1, <1>3 DEF Good, Consumers
    <2>. QED  BY <1>2, <2>1, EditGood
  <1>5. Good(DeliverReady(b, p), n)
    BY <1>4, DeliverReadyGood
  <1>. QED  BY <1>3, <1>5 DEF Deliver, Underway, State

\* Each job of a completion keeps the order,
LEMMA ContinueGood ==
    ASSUME NEW n \in Nat, NEW s, Underway(s, n)
    PROVE  Underway(Continue(s), n)
  <1>1. CASE s.todo = <<>>
    BY <1>1 DEF Continue
  <1>2. CASE s.todo # <<>>
    <2>1. PICK job \in JobsFor(n) : job = Head(s.todo)
      BY <1>2, HeadTailProperties DEF Underway
    <2>2. Tail(s.todo) \in Seq(JobsFor(n))
      BY <1>2, HeadTailProperties DEF Underway
    <2>3. PICK done : done = Do(s.c, job)
      OBVIOUS
    <2>4. Underway(done, n)
      <3>1. Good(s.c, n) /\ job.p \in 1..n /\ job.of \in 1..n
        BY DEF Underway, JobsFor
      <3>2. CASE job.do = "call"
        BY <2>3, <3>1, <3>2, CallGood DEF Do
      <3>3. CASE job.do = "ride"
        BY <2>3, <3>1, <3>3, RideGood DEF Do
      <3>4. CASE job.do = "untrack"
        BY <2>3, <3>1, <3>4, CompleteUntrackedGood DEF Do
      <3>5. CASE job.do = "older"
        BY <2>3, <3>1, <3>5, CompleteOlderGood DEF Do
      <3>6. CASE job.do = "deliver"
        BY <2>3, <3>1, <3>6, DeliverGood DEF Do
      <3>. QED  BY <3>2, <3>3, <3>4, <3>5, <3>6 DEF JobsFor
    <2>5. Continue(s) = State(done.c, done.todo \o Tail(s.todo))
      BY <1>2, <2>1, <2>3 DEF Continue
    <2>6. done.todo \o Tail(s.todo) \in Seq(JobsFor(n))
      BY <2>2, <2>4, ConcatProperties DEF Underway
    <2>. QED  BY <2>4, <2>5, <2>6 DEF Underway, State
  <1>. QED  BY <1>1, <1>2

\* so do any number of them,
LEMMA CompletingGood ==
    ASSUME NEW n \in Nat, NEW c, Good(c, n), NEW p \in 1..n, NEW m \in Nat
    PROVE  Underway(Completing(c, p)[m], n)
  <1>. DEFINE T == {i \in Nat : ~Underway(Completing(c, p)[i], n)}
  <1>1. SUFFICES ASSUME T # {} PROVE FALSE
    OBVIOUS
  <1>2. PICK i \in T : \A j \in T : i <= j
    BY <1>1, LeastOf
  <1>3. i # 0
    <2>1. Underway(Starting(c, p), n)
      BY JobTyped DEF Starting, State, Underway
    <2>. QED  BY <2>1, CompletingRuns
  <1>4. i - 1 \in Nat /\ i - 1 \notin T /\ i = (i - 1) + 1
    BY <1>2, <1>3
  <1>5. Underway(Completing(c, p)[i - 1], n)
    BY <1>4
  <1>6. Underway(Continue(Completing(c, p)[i - 1]), n)
    BY <1>5, ContinueGood
  <1>7. Completing(c, p)[i] = Continue(Completing(c, p)[i - 1])
    BY <1>4, CompletingRuns
  <1>. QED  BY <1>6, <1>7

\* and so does CompletePresent, whether it returns or hangs.
LEMMA CompleteGood ==
    ASSUME NEW n \in Nat, NEW c, Good(c, n), NEW p \in 1..n
    PROVE  Good(Complete(c, p), n)
  <1>1. Jobs(c) \in Nat
    <2>1. Len(c.presents) = n
      BY PresentsLength DEF Good
    <2>2. 2 * n + 5 \in Nat
      OBVIOUS
    <2>3. \A a, b \in Nat : a * b \in Nat
      OBVIOUS
    <2>. QED  BY <2>1, <2>2, <2>3 DEF Jobs
  <1>2. PICK end : end = Completing(c, p)[Jobs(c)]
    OBVIOUS
  <1>3. Good(end.c, n)
    BY <1>1, <1>2, CompletingGood DEF Underway
  <1>4. Good([end.c EXCEPT !.hung = TRUE], n)
    <2>1. PICK d : d = [end.c EXCEPT !.hung = TRUE]
      OBVIOUS
    <2>2. d \in Consumers(n) /\ SameQueues(end.c, d, n)
      BY <1>3, <2>1 DEF Good, Consumers, SameQueues, Key
    <2>. QED  BY <1>3, <2>1, <2>2, OrderKept
  <1>. QED  BY <1>2, <1>3, <1>4 DEF Complete

-----------------------------------------------------------------------------
(* New presents, and presents that are looked up.                          *)

\* Wrapping around the ring gives up a present.
LEMMA EvictGood ==
    ASSUME NEW n \in Nat, NEW c, Good(c, n)
    PROVE  Good(Evict(c), n)
  <1>1. c.ring[c.next] \in 0..n
    BY DEF Good, Consumers
  <1>. QED  BY <1>1, RemoveLostGood DEF Evict, NoPresent

\* What is of the types with n presents is of the types with one more.
LEMMA PresentsGrow ==
    ASSUME NEW n \in Nat
    PROVE  Presents(n) \subseteq Presents(n + 1) /\ Seq(1..n) \subseteq Seq(1..n + 1)
  <1>1. Seq(1..n) \subseteq Seq(1..n + 1)
    <2>1. 1..n \subseteq 1..n + 1
      OBVIOUS
    <2>. QED  BY <2>1, SeqMonotonic
  <1>2. Presents(n) \subseteq Presents(n + 1)
    BY <1>1 DEF Presents, Records
  <1>. QED  BY <1>1, <1>2

\* A new present is the youngest of its swap chain.
LEMMA FileGood ==
    ASSUME NEW n \in Nat, NEW c, Good(c, n), NEW e \in Presents(n)
    PROVE  Good(File(c, e), n + 1)
  <1>. DEFINE k == <<e.process, e.swap>>
              id == Len(c.presents) + 1
              ps == Append(c.presents, [e EXCEPT !.slot = c.next])
              q == Append(c.bySwapChain[k], id)
              chains == [c.bySwapChain EXCEPT ![k] = q]
              ring == [c.ring EXCEPT ![c.next] = id]
              threads == [c.byThread EXCEPT ![e.thread] = IF @ = NoPresent THEN id ELSE @]
  <1>1. /\ c.presents \in [1..n -> Presents(n)] /\ c.presents \in Seq(Presents(n))
        /\ id = n + 1 /\ id \in 1..n + 1 /\ n + 1 \in Nat
    BY PresentsLength DEF Good, Consumers
  <1>. HIDE DEF id
  <1>2. k \in Chains /\ e.thread \in Threads
    BY TrackingAssumption DEF Presents, Records, Owners, Chains
  <1>3. /\ c.bySwapChain \in [Chains -> Seq(1..n)] /\ c.ring \in [Slots -> 0..n]
        /\ c.next \in Slots /\ c.byThread \in [Threads -> 0..n] /\ c.delivered \in Seq(1..n)
    BY DEF Good, Consumers
  <1>4. PICK f : f = [e EXCEPT !.slot = c.next]
    OBVIOUS
  <1>5. f \in Presents(n) /\ f.process = e.process /\ f.swap = e.swap
    BY <1>3, <1>4 DEF Presents, Records
  <1>6. /\ ps \in [1..n + 1 -> Presents(n)] /\ ps[n + 1] = f
        /\ \A p \in 1..n : ps[p] = c.presents[p]
    <2>1. /\ Append(c.presents, f) \in Seq(Presents(n))
          /\ Len(Append(c.presents, f)) = Len(c.presents) + 1
          /\ \A p \in 1..Len(c.presents) : Append(c.presents, f)[p] = c.presents[p]
          /\ Append(c.presents, f)[Len(c.presents) + 1] = f
      BY <1>1, <1>5, AppendProperties
    <2>2. Len(c.presents) = n
      BY PresentsLength DEF Good
    <2>. QED  BY <1>4, <2>1, <2>2, LenProperties
  <1>7. ps \in [1..n + 1 -> Presents(n + 1)]
    BY <1>6, PresentsGrow
  <1>8. /\ q \in Seq(1..n + 1) /\ Len(q) = Len(c.bySwapChain[k]) + 1 /\ Len(c.bySwapChain[k]) \in Nat
        /\ \A i \in 1..Len(c.bySwapChain[k]) : q[i] = c.bySwapChain[k][i]
        /\ q[Len(c.bySwapChain[k]) + 1] = n + 1
    <2>1. c.bySwapChain[k] \in Seq(1..n + 1)
      BY <1>2, <1>3, PresentsGrow
    <2>. QED  BY <1>1, <2>1, AppendProperties, LenProperties
  <1>9. chains \in [Chains -> Seq(1..n + 1)]
    BY <1>2, <1>3, <1>8, PresentsGrow
  <1>10. ring \in [Slots -> 0..n + 1] /\ threads \in [Threads -> 0..n + 1]
    BY <1>1, <1>2, <1>3
  <1>11. (c.next + 1) % RingSize \in Slots
    BY <1>3, TrackingAssumption DEF Slots
  <1>12. PICK next : next = (c.next + 1) % RingSize
    OBVIOUS
  <1>13. File(c, e) = [c EXCEPT !.presents = ps, !.ring = ring, !.next = next,
                                !.byProcess = @ \cup {id}, !.bySwapChain = chains,
                                !.byThread = threads]
    BY <1>12 DEF File, Good, Consumers, id
  <1>14. PICK z : z = File(c, e)
    OBVIOUS
  <1>. HIDE DEF ps, chains, ring, threads, q, k
  <1>15. z = [presents |-> ps, ring |-> ring, next |-> next, byThread |-> threads,
              byProcess |-> c.byProcess \cup {id}, bySwapChain |-> chains,
              bySubmit |-> c.bySubmit, win32k |-> c.win32k, dxgk |-> c.dxgk,
              blits |-> c.blits, window |-> c.window, legacyBlit |-> c.legacyBlit,
              waiting |-> c.waiting, dwmProcess |-> c.dwmProcess, dwmThread |-> c.dwmThread,
              delivered |-> c.delivered, lost |-> c.lost, failed |-> c.failed, hung |-> c.hung]
    BY <1>13, <1>14 DEF Good, Consumers
  <1>16. z \in Consumers(n + 1)
    <2>1. /\ c.bySubmit \in [SubmitSeqs -> 0..n + 1] /\ c.win32k \in [Tokens -> 0..n + 1]
          /\ c.dxgk \in [Tokens -> 0..n + 1] /\ c.blits \in [Contexts -> 0..n + 1]
          /\ c.window \in [Hwnds -> 0..n + 1] /\ c.legacyBlit \in [Tokens -> 0..n + 1]
      BY DEF Good, Consumers
    <2>2. /\ c.byProcess \cup {id} \in SUBSET (1..n + 1) /\ c.lost \in SUBSET (0..n + 1)
      BY <1>1 DEF Good, Consumers
    <2>3. c.waiting \in Seq(1..n + 1) /\ c.delivered \in Seq(1..n + 1)
      BY PresentsGrow DEF Good, Consumers
    <2>4. /\ c.dwmProcess \in Processes \cup {None} /\ c.dwmThread \in Threads \cup {None}
          /\ c.failed \in SUBSET Nat /\ c.hung \in BOOLEAN
      BY DEF Good, Consumers
    <2>. QED  BY <1>7, <1>9, <1>10, <1>11, <1>12, <1>15, <2>1, <2>2, <2>3, <2>4 DEF Consumers
  <1>17. z.delivered = c.delivered /\ z.bySwapChain = chains /\ z.presents = ps
    BY <1>15
  <1>18. (\A p \in 1..n : Key(z, p) = Key(c, p)) /\ Key(z, n + 1) = k
    BY <1>5, <1>6, <1>17 DEF Key, k
  <1>19. \A i \in 1..Len(c.delivered) : c.delivered[i] \in 1..n
    BY <1>3, ElementOfSeq
  <1>20. \A h \in Chains : \A i \in 1..Len(c.bySwapChain[h]) : c.bySwapChain[h][i] \in 1..n
    BY <1>3, ElementOfSeq
  <1>25. \A i \in 1..Len(c.bySwapChain[k]) : q[i] = c.bySwapChain[k][i] /\ q[i] \in 1..n
    BY <1>2, <1>8, <1>20
  <1>21. Increasing(q)
    <2>. SUFFICES ASSUME NEW i \in 1..Len(q), NEW j \in 1..Len(q), i < j PROVE q[i] < q[j]
      BY DEF Increasing
    <2>4. i \in 1..Len(c.bySwapChain[k])
      BY <1>8
    <2>1. q[i] = c.bySwapChain[k][i] /\ q[i] \in 1..n
      BY <1>25, <2>4
    <2>2. CASE j = Len(c.bySwapChain[k]) + 1
      BY <1>8, <2>1, <2>2
    <2>3. CASE j # Len(c.bySwapChain[k]) + 1
      <3>1. j \in 1..Len(c.bySwapChain[k]) /\ q[j] = c.bySwapChain[k][j]
        <4>1. PICK m : m = Len(c.bySwapChain[k])
          OBVIOUS
        <4>2. m \in Nat /\ j \in 1..m + 1 /\ j # m + 1
          BY <1>8, <2>3, <4>1
        <4>3. j \in 1..m
          BY <4>2
        <4>. QED  BY <1>25, <4>1, <4>3
      <3>2. \A a, b \in 1..Len(c.bySwapChain[k]) :
              a < b => c.bySwapChain[k][a] < c.bySwapChain[k][b]
        BY <1>2 DEF Good, Order, Increasing
      <3>. QED  BY <2>1, <2>4, <3>1, <3>2
    <2>. QED  BY <2>2, <2>3
  <1>22. \A i \in 1..Len(q) : Key(z, q[i]) = k
    <2>. TAKE i \in 1..Len(q)
    <2>1. CASE i = Len(c.bySwapChain[k]) + 1
      BY <1>8, <1>18, <2>1
    <2>2. CASE i # Len(c.bySwapChain[k]) + 1
      <3>2. i \in 1..Len(c.bySwapChain[k])
        BY <1>8, <2>2
      <3>1. i \in 1..Len(c.bySwapChain[k]) /\ q[i] = c.bySwapChain[k][i] /\ q[i] \in 1..n
        BY <1>25, <3>2
      <3>. QED  BY <1>2, <1>18, <3>1 DEF Good, Order
    <2>. QED  BY <2>1, <2>2
  <1>23. \A i \in 1..Len(c.delivered), j \in 1..Len(q) :
           Key(z, c.delivered[i]) = k => c.delivered[i] < q[j]
    <2>. TAKE i \in 1..Len(c.delivered), j \in 1..Len(q)
    <2>1. CASE j = Len(c.bySwapChain[k]) + 1
      BY <1>8, <1>19, <2>1
    <2>2. CASE j # Len(c.bySwapChain[k]) + 1
      <3>1. j \in 1..Len(c.bySwapChain[k]) /\ q[j] = c.bySwapChain[k][j]
        BY <1>8, <2>2
      <3>. QED  BY <1>2, <1>18, <1>19, <3>1 DEF Good, Order
    <2>. QED  BY <2>1, <2>2
  <1>24. Order(z)
    <2>1. ASSUME NEW h \in Chains
          PROVE  /\ Increasing(chains[h])
                 /\ \A i \in 1..Len(chains[h]) : Key(z, chains[h][i]) = h
                 /\ \A i \in 1..Len(c.delivered), j \in 1..Len(chains[h]) :
                      Key(z, c.delivered[i]) = h => c.delivered[i] < chains[h][j]
      <3>1. CASE h = k
        <4>1. chains[h] = q
          BY <1>2, <1>3, <3>1 DEF chains
        <4>. QED  BY <1>21, <1>22, <1>23, <3>1, <4>1
      <3>2. CASE h # k
        <4>1. chains[h] = c.bySwapChain[h]
          BY <1>3, <3>2 DEF chains
        <4>. QED  BY <1>18, <1>19, <1>20, <4>1 DEF Good, Order
      <3>. QED  BY <3>1, <3>2
    <2>2. \A i, j \in 1..Len(c.delivered) :
            i < j /\ Key(z, c.delivered[i]) = Key(z, c.delivered[j])
              => c.delivered[i] < c.delivered[j]
      BY <1>18, <1>19 DEF Good, Order
    <2>. QED  BY <1>17, <2>1, <2>2 DEF Order
  <1>. QED  BY <1>14, <1>16, <1>24 DEF Good

\* TrackPresent makes room in the ring first.
LEMMA TrackGood ==
    ASSUME NEW n \in Nat, NEW c, Good(c, n), NEW e \in Presents(n)
    PROVE  Good(Track(c, e), n + 1)
  BY EvictGood, FileGood DEF Track

\* TrackPresentOnThread gives up what the thread was working on first.
LEMMA TrackOnThreadGood ==
    ASSUME NEW n \in Nat, NEW c, Good(c, n), NEW e \in Presents(n)
    PROVE  Good(TrackOnThread(c, e), n + 1)
  <1>1. PICK q : q = c.byThread[e.thread]
    OBVIOUS
  <1>2. q \in 0..n
    BY <1>1 DEF Good, Consumers, Presents, Records
  <1>3. Good(IF q = NoPresent THEN c ELSE RemoveLost(c, q), n)
    BY <1>2, RemoveLostGood DEF NoPresent
  <1>. QED  BY <1>1, <1>3, TrackGood DEF TrackOnThread

\* PresentEvent's constructor makes a present.
LEMMA NewPresentTyped ==
    ASSUME NEW n \in Nat, NEW t \in Threads, NEW runtime \in Runtimes,
           NEW swap \in SwapChains \cup {None}, NEW doNotSequence \in BOOLEAN
    PROVE  NewPresent(t, runtime, swap, doNotSequence) \in Presents(n)
  <1>1. 0 \in Slots /\ <<>> \in Seq(1..n) /\ "Unknown" \in Modes /\ "Unknown" \in Results
    BY TrackingAssumption DEF Slots, Modes, Results
  <1>. QED  BY <1>1 DEF NewPresent, Presents, Records, Owners

\* What a lookup returns: a consumer in order and one of its presents, or none.
Found(f, n) == Good(f.c, n) /\ f.p \in 0..n /\ f = [c |-> f.c, p |-> f.p]

\* FindOrCreatePresent keeps the order and returns a present or none,
LEMMA FindOrCreateGood ==
    ASSUME NEW n \in Nat, NEW c, Good(c, n), NEW t \in Threads
    PROVE  \E m \in Nat : Found(FindOrCreate(c, t), m)
  <1>1. CASE c.byThread[t] # NoPresent
    <2>1. c.byThread[t] \in 0..n
      BY DEF Good, Consumers
    <2>. QED  BY <1>1, <2>1 DEF FindOrCreate, Found
  <1>2. CASE c.byThread[t] = NoPresent /\ ~Tracked(c, ProcessOf(t))
    BY <1>2 DEF FindOrCreate, Found, NoPresent
  <1>3. CASE /\ c.byThread[t] = NoPresent /\ Tracked(c, ProcessOf(t))
             /\ Unclaimed(c, ProcessOf(t)) # {}
    <2>1. PICK U : U = Unclaimed(c, ProcessOf(t))
      OBVIOUS
    <2>2. U # {} /\ U \subseteq 1..n
      BY <1>3, <2>1 DEF Unclaimed, Good, Consumers
    <2>3. PICK p : p = CHOOSE o \in U : \A q \in U : o <= q
      OBVIOUS
    <2>4. p \in U
      <3>1. U \in SUBSET Nat
        BY <2>2
      <3>2. \E m \in U : \A k \in U : m <= k
        BY <2>2, <3>1, LeastOf
      <3>. QED  BY <2>3, <3>2
    <2>5. PICK d : d = [c EXCEPT !.byProcess = @ \ {p}, !.byThread[t] = p]
      OBVIOUS
    <2>6. FindOrCreate(c, t) = [c |-> d, p |-> p]
      BY <1>3, <2>1, <2>3, <2>5 DEF FindOrCreate
    <2>7. d \in Consumers(n) /\ SameQueues(c, d, n)
      <3>1. p \in 1..n /\ p \in 0..n
        BY <2>2, <2>4
      <3>2. d \in Consumers(n)
        BY <2>5, <3>1 DEF Good, Consumers
      <3>3. SameQueues(c, d, n)
        BY <2>5 DEF Good, Consumers, SameQueues, Key
      <3>. QED  BY <3>2, <3>3
    <2>8. Good(d, n) /\ p \in 0..n
      BY <2>2, <2>4, <2>7, OrderKept
    <2>. QED  BY <2>6, <2>8 DEF Found
  <1>4. CASE /\ c.byThread[t] = NoPresent /\ Tracked(c, ProcessOf(t))
             /\ Unclaimed(c, ProcessOf(t)) = {}
    <2>1. PICK d : d = Track(c, NewPresent(t, "Other", None, FALSE))
      OBVIOUS
    <2>2. FindOrCreate(c, t) = [c |-> d, p |-> Len(d.presents)]
      BY <1>4, <2>1 DEF FindOrCreate, Newest
    <2>3. NewPresent(t, "Other", None, FALSE) \in Presents(n)
      BY NewPresentTyped DEF Runtimes
    <2>4. Good(d, n + 1) /\ n + 1 \in Nat
      <3>1. Good(d, n + 1)
        BY <2>1, <2>3, TrackGood
      <3>. QED  BY <3>1
    <2>5. Len(d.presents) = n + 1
      BY <2>4, PresentsLength DEF Good
    <2>. QED  BY <2>2, <2>4, <2>5 DEF Found
  <1>. QED  BY <1>1, <1>2, <1>3, <1>4

\* also when what it finds is stuck and it looks again.
LEMMA FindFreshGood ==
    ASSUME NEW n \in Nat, NEW c, Good(c, n), NEW t \in Threads,
           NEW handler \in {"Blt", "Flip", "History", "Win32K"}
    PROVE  \E m \in Nat : Found(FindFresh(c, t, handler), m)
  <1>1. PICK f : f = FindOrCreate(c, t)
    OBVIOUS
  <1>2. PICK m \in Nat : Found(f, m)
    BY <1>1, FindOrCreateGood
  <1>3. CASE ~(f.p # NoPresent /\ Stuck(handler, f.c.presents[f.p]))
    BY <1>1, <1>2, <1>3 DEF FindFresh, UnlessStuck
  <1>4. CASE f.p # NoPresent /\ Stuck(handler, f.c.presents[f.p])
    <2>1. Good(RemoveLost(f.c, f.p), m)
      BY <1>2, <1>4, RemoveLostGood DEF Found, NoPresent
    <2>2. PICK g : g = FindOrCreate(RemoveLost(f.c, f.p), t)
      OBVIOUS
    <2>3. PICK l \in Nat : Found(g, l)
      BY <2>1, <2>2, FindOrCreateGood
    <2>4. FindFresh(c, t, handler) = CheckFresh(g, handler)
      BY <1>1, <1>4, <2>2 DEF FindFresh, UnlessStuck
    <2>5. PICK fresh : fresh = (g.p = NoPresent \/ ~Stuck(handler, g.c.presents[g.p]))
      OBVIOUS
    <2>6. CheckFresh(g, handler) = [g EXCEPT !.c = Assert_(@, FreshAssert[handler], fresh)]
      BY <2>5 DEF CheckFresh
    <2>7. FreshAssert[handler] \in Nat
      BY DEF FreshAssert
    <2>8. Good(Assert_(g.c, FreshAssert[handler], fresh), l)
      BY <2>3, <2>7, AssertGood DEF Found
    <2>9. PICK a : a = Assert_(g.c, FreshAssert[handler], fresh)
      OBVIOUS
    <2>10. FindFresh(c, t, handler) = [c |-> a, p |-> g.p]
      BY <2>3, <2>4, <2>6, <2>9 DEF Found
    <2>. QED  BY <2>3, <2>8, <2>9, <2>10 DEF Found
  <1>. QED  BY <1>3, <1>4

-----------------------------------------------------------------------------
(* One field at a time.                                                    *)

\* A present of a consumer in order is one of the code's.
LEMMA PresentTyped ==
    ASSUME NEW n \in Nat, NEW c, Good(c, n), NEW p \in 1..n
    PROVE  c.presents[p] \in Presents(n)
  BY DEF Good, Consumers

\* Whatever else of a present changes, its swap chain's order stays.
LEMMA SetPresent ==
    ASSUME NEW n \in Nat, NEW c, Good(c, n), NEW p \in 1..n
    PROVE
      /\ \A v \in Runtimes : Good([c EXCEPT !.presents[p].runtime = v], n)
      /\ \A v \in Modes : Good([c EXCEPT !.presents[p].mode = v], n)
      /\ \A v \in Results : v # "Presented" \/ ~TimesAreTold \/ c.presents[p].screen
                             => Good([c EXCEPT !.presents[p].final = v], n)
      /\ \A v \in BOOLEAN : v \/ ~TimesAreTold \/ c.presents[p].final # "Presented"
                             => Good([c EXCEPT !.presents[p].screen = v], n)
      /\ \A v \in Hwnds \cup {None} : Good([c EXCEPT !.presents[p].hwnd = v], n)
      /\ \A v \in Tokens \cup {None} : Good([c EXCEPT !.presents[p].token = v], n)
      /\ \A v \in Tokens \cup {None} : Good([c EXCEPT !.presents[p].win32k = v], n)
      /\ \A v \in Tokens \cup {None} : Good([c EXCEPT !.presents[p].blitToken = v], n)
      /\ \A v \in SubmitSeqs \cup {None} : Good([c EXCEPT !.presents[p].submit = v], n)
      /\ \A v \in Contexts \cup {None} : Good([c EXCEPT !.presents[p].context = v], n)
      /\ \A v \in Threads \cup {None} : Good([c EXCEPT !.presents[p].batchThread = v], n)
      /\ \A v \in BOOLEAN : Good([c EXCEPT !.presents[p].mmio = v], n)
      /\ \A v \in BOOLEAN : Good([c EXCEPT !.presents[p].seenDxgk = v], n)
      /\ \A v \in BOOLEAN : Good([c EXCEPT !.presents[p].seenWin32K = v], n)
      /\ \A v \in Seq(1..n) : Good([c EXCEPT !.presents[p].deps = v], n)
      /\ \A v \in BOOLEAN : Good([c EXCEPT !.presents[p].inDwmWaiting = v], n)
  <1>1. PICK e \in Presents(n) : e = c.presents[p]
    BY PresentTyped
  <1>0. e \in Records(n) /\ (TimesAreTold /\ e.final = "Presented" => e.screen)
    BY PresentIsRecord
  <1>2. ASSUME NEW f \in Records(n), f.process = e.process, f.swap = e.swap,
               f.final = e.final, f.screen = e.screen
        PROVE  Good([c EXCEPT !.presents[p] = f], n)
    <2>1. f \in Presents(n)
      BY <1>2, OutcomeKept
    <2>. QED  BY <1>1, <1>2, <2>1, EditGood
  <1>3. ASSUME NEW v \in Runtimes PROVE Good([c EXCEPT !.presents[p].runtime = v], n)
    <2>1. [e EXCEPT !.runtime = v] \in Records(n)
      BY <1>0 DEF Records
    <2>. QED  BY <1>0, <1>1, <1>2, <2>1 DEF Records
  <1>4. ASSUME NEW v \in Modes PROVE Good([c EXCEPT !.presents[p].mode = v], n)
    <2>1. [e EXCEPT !.mode = v] \in Records(n)
      BY <1>0 DEF Records
    <2>. QED  BY <1>0, <1>1, <1>2, <2>1 DEF Records
  <1>5. ASSUME NEW v \in Results, v # "Presented" \/ ~TimesAreTold \/ c.presents[p].screen
        PROVE  Good([c EXCEPT !.presents[p].final = v], n)
    <2>1. PICK f : f = [e EXCEPT !.final = v]
      OBVIOUS
    <2>2. f \in Records(n) /\ f.process = e.process /\ f.swap = e.swap
      BY <1>0, <2>1 DEF Records
    <2>3. f \in Presents(n)
      BY <1>0, <1>1, <1>5, <2>1, <2>2 DEF Presents, Records
    <2>. QED  BY <1>1, <2>1, <2>2, <2>3, EditGood
  <1>6. ASSUME NEW v \in BOOLEAN, v \/ ~TimesAreTold \/ c.presents[p].final # "Presented"
        PROVE  Good([c EXCEPT !.presents[p].screen = v], n)
    <2>1. PICK f : f = [e EXCEPT !.screen = v]
      OBVIOUS
    <2>2. f \in Records(n) /\ f.process = e.process /\ f.swap = e.swap
      BY <1>0, <2>1 DEF Records
    <2>3. f \in Presents(n)
      BY <1>0, <1>1, <1>6, <2>1, <2>2 DEF Presents, Records
    <2>. QED  BY <1>1, <2>1, <2>2, <2>3, EditGood
  <1>7. ASSUME NEW v \in Hwnds \cup {None} PROVE Good([c EXCEPT !.presents[p].hwnd = v], n)
    <2>1. [e EXCEPT !.hwnd = v] \in Records(n)
      BY <1>0 DEF Records
    <2>. QED  BY <1>0, <1>1, <1>2, <2>1 DEF Records
  <1>8. ASSUME NEW v \in Tokens \cup {None} PROVE Good([c EXCEPT !.presents[p].token = v], n)
    <2>1. [e EXCEPT !.token = v] \in Records(n)
      BY <1>0 DEF Records
    <2>. QED  BY <1>0, <1>1, <1>2, <2>1 DEF Records
  <1>9. ASSUME NEW v \in Tokens \cup {None} PROVE Good([c EXCEPT !.presents[p].win32k = v], n)
    <2>1. [e EXCEPT !.win32k = v] \in Records(n)
      BY <1>0 DEF Records
    <2>. QED  BY <1>0, <1>1, <1>2, <2>1 DEF Records
  <1>10. ASSUME NEW v \in Tokens \cup {None} PROVE Good([c EXCEPT !.presents[p].blitToken = v], n)
    <2>1. [e EXCEPT !.blitToken = v] \in Records(n)
      BY <1>0 DEF Records
    <2>. QED  BY <1>0, <1>1, <1>2, <2>1 DEF Records
  <1>11. ASSUME NEW v \in SubmitSeqs \cup {None} PROVE Good([c EXCEPT !.presents[p].submit = v], n)
    <2>1. [e EXCEPT !.submit = v] \in Records(n)
      BY <1>0 DEF Records
    <2>. QED  BY <1>0, <1>1, <1>2, <2>1 DEF Records
  <1>12. ASSUME NEW v \in Contexts \cup {None} PROVE Good([c EXCEPT !.presents[p].context = v], n)
    <2>1. [e EXCEPT !.context = v] \in Records(n)
      BY <1>0 DEF Records
    <2>. QED  BY <1>0, <1>1, <1>2, <2>1 DEF Records
  <1>13. ASSUME NEW v \in Threads \cup {None} PROVE Good([c EXCEPT !.presents[p].batchThread = v], n)
    <2>1. [e EXCEPT !.batchThread = v] \in Records(n)
      BY <1>0 DEF Records
    <2>. QED  BY <1>0, <1>1, <1>2, <2>1 DEF Records
  <1>14. ASSUME NEW v \in BOOLEAN PROVE Good([c EXCEPT !.presents[p].mmio = v], n)
    <2>1. [e EXCEPT !.mmio = v] \in Records(n)
      BY <1>0 DEF Records
    <2>. QED  BY <1>0, <1>1, <1>2, <2>1 DEF Records
  <1>15. ASSUME NEW v \in BOOLEAN PROVE Good([c EXCEPT !.presents[p].seenDxgk = v], n)
    <2>1. [e EXCEPT !.seenDxgk = v] \in Records(n)
      BY <1>0 DEF Records
    <2>. QED  BY <1>0, <1>1, <1>2, <2>1 DEF Records
  <1>16. ASSUME NEW v \in BOOLEAN PROVE Good([c EXCEPT !.presents[p].seenWin32K = v], n)
    <2>1. [e EXCEPT !.seenWin32K = v] \in Records(n)
      BY <1>0 DEF Records
    <2>. QED  BY <1>0, <1>1, <1>2, <2>1 DEF Records
  <1>17. ASSUME NEW v \in Seq(1..n) PROVE Good([c EXCEPT !.presents[p].deps = v], n)
    <2>1. [e EXCEPT !.deps = v] \in Records(n)
      BY <1>0 DEF Records
    <2>. QED  BY <1>0, <1>1, <1>2, <2>1 DEF Records
  <1>18. ASSUME NEW v \in BOOLEAN PROVE Good([c EXCEPT !.presents[p].inDwmWaiting = v], n)
    <2>1. [e EXCEPT !.inDwmWaiting = v] \in Records(n)
      BY <1>0 DEF Records
    <2>. QED  BY <1>0, <1>1, <1>2, <2>1 DEF Records
  <1>. QED  BY <1>3, <1>4, <1>5, <1>6, <1>7, <1>8, <1>9, <1>10, <1>11, <1>12, <1>13, <1>14, <1>15, <1>16, <1>17, <1>18

\* None of the collections that find a present has a part in the order,
LEMMA SetCollection ==
    ASSUME NEW n \in Nat, NEW c, Good(c, n), NEW p \in 0..n
    PROVE
      /\ \A k \in Threads : Good([c EXCEPT !.byThread[k] = p], n)
      /\ \A k \in SubmitSeqs : Good([c EXCEPT !.bySubmit[k] = p], n)
      /\ \A k \in Tokens : Good([c EXCEPT !.win32k[k] = p], n)
      /\ \A k \in Tokens : Good([c EXCEPT !.dxgk[k] = p], n)
      /\ \A k \in Contexts : Good([c EXCEPT !.blits[k] = p], n)
      /\ \A k \in Hwnds : Good([c EXCEPT !.window[k] = p], n)
      /\ \A k \in Tokens : Good([c EXCEPT !.legacyBlit[k] = p], n)
  <1>1. ASSUME NEW k \in Threads PROVE Good([c EXCEPT !.byThread[k] = p], n)
    <2>1. [c EXCEPT !.byThread[k] = p] \in Consumers(n)
      BY DEF Good, Consumers
    <2>2. SameQueues(c, [c EXCEPT !.byThread[k] = p], n)
      BY DEF Good, Consumers, SameQueues, Key
    <2>. QED  BY <2>1, <2>2, OrderKept
  <1>2. ASSUME NEW k \in SubmitSeqs PROVE Good([c EXCEPT !.bySubmit[k] = p], n)
    <2>1. [c EXCEPT !.bySubmit[k] = p] \in Consumers(n)
      BY DEF Good, Consumers
    <2>2. SameQueues(c, [c EXCEPT !.bySubmit[k] = p], n)
      BY DEF Good, Consumers, SameQueues, Key
    <2>. QED  BY <2>1, <2>2, OrderKept
  <1>3. ASSUME NEW k \in Tokens PROVE Good([c EXCEPT !.win32k[k] = p], n)
    <2>1. [c EXCEPT !.win32k[k] = p] \in Consumers(n)
      BY DEF Good, Consumers
    <2>2. SameQueues(c, [c EXCEPT !.win32k[k] = p], n)
      BY DEF Good, Consumers, SameQueues, Key
    <2>. QED  BY <2>1, <2>2, OrderKept
  <1>4. ASSUME NEW k \in Tokens PROVE Good([c EXCEPT !.dxgk[k] = p], n)
    <2>1. [c EXCEPT !.dxgk[k] = p] \in Consumers(n)
      BY DEF Good, Consumers
    <2>2. SameQueues(c, [c EXCEPT !.dxgk[k] = p], n)
      BY DEF Good, Consumers, SameQueues, Key
    <2>. QED  BY <2>1, <2>2, OrderKept
  <1>5. ASSUME NEW k \in Contexts PROVE Good([c EXCEPT !.blits[k] = p], n)
    <2>1. [c EXCEPT !.blits[k] = p] \in Consumers(n)
      BY DEF Good, Consumers
    <2>2. SameQueues(c, [c EXCEPT !.blits[k] = p], n)
      BY DEF Good, Consumers, SameQueues, Key
    <2>. QED  BY <2>1, <2>2, OrderKept
  <1>6. ASSUME NEW k \in Hwnds PROVE Good([c EXCEPT !.window[k] = p], n)
    <2>1. [c EXCEPT !.window[k] = p] \in Consumers(n)
      BY DEF Good, Consumers
    <2>2. SameQueues(c, [c EXCEPT !.window[k] = p], n)
      BY DEF Good, Consumers, SameQueues, Key
    <2>. QED  BY <2>1, <2>2, OrderKept
  <1>7. ASSUME NEW k \in Tokens PROVE Good([c EXCEPT !.legacyBlit[k] = p], n)
    <2>1. [c EXCEPT !.legacyBlit[k] = p] \in Consumers(n)
      BY DEF Good, Consumers
    <2>2. SameQueues(c, [c EXCEPT !.legacyBlit[k] = p], n)
      BY DEF Good, Consumers, SameQueues, Key
    <2>. QED  BY <2>1, <2>2, OrderKept
  <1>. QED  BY <1>1, <1>2, <1>3, <1>4, <1>5, <1>6, <1>7

\* nor has any of the rest.
LEMMA SetOther ==
    ASSUME NEW n \in Nat, NEW c, Good(c, n)
    PROVE
      /\ \A v \in Seq(1..n) : Good([c EXCEPT !.waiting = v], n)
      /\ \A v \in [Hwnds -> 0..n] : Good([c EXCEPT !.window = v], n)
      /\ \A v \in Processes \cup {None} : Good([c EXCEPT !.dwmProcess = v], n)
      /\ \A v \in Threads \cup {None} : Good([c EXCEPT !.dwmThread = v], n)
      /\ \A v \in BOOLEAN : Good([c EXCEPT !.hung = v], n)
  <1>1. ASSUME NEW v \in Seq(1..n) PROVE Good([c EXCEPT !.waiting = v], n)
    <2>1. [c EXCEPT !.waiting = v] \in Consumers(n)
      BY DEF Good, Consumers
    <2>2. SameQueues(c, [c EXCEPT !.waiting = v], n)
      BY DEF Good, Consumers, SameQueues, Key
    <2>. QED  BY <2>1, <2>2, OrderKept
  <1>2. ASSUME NEW v \in [Hwnds -> 0..n] PROVE Good([c EXCEPT !.window = v], n)
    <2>1. [c EXCEPT !.window = v] \in Consumers(n)
      BY DEF Good, Consumers
    <2>2. SameQueues(c, [c EXCEPT !.window = v], n)
      BY DEF Good, Consumers, SameQueues, Key
    <2>. QED  BY <2>1, <2>2, OrderKept
  <1>3. ASSUME NEW v \in Processes \cup {None} PROVE Good([c EXCEPT !.dwmProcess = v], n)
    <2>1. [c EXCEPT !.dwmProcess = v] \in Consumers(n)
      BY DEF Good, Consumers
    <2>2. SameQueues(c, [c EXCEPT !.dwmProcess = v], n)
      BY DEF Good, Consumers, SameQueues, Key
    <2>. QED  BY <2>1, <2>2, OrderKept
  <1>4. ASSUME NEW v \in Threads \cup {None} PROVE Good([c EXCEPT !.dwmThread = v], n)
    <2>1. [c EXCEPT !.dwmThread = v] \in Consumers(n)
      BY DEF Good, Consumers
    <2>2. SameQueues(c, [c EXCEPT !.dwmThread = v], n)
      BY DEF Good, Consumers, SameQueues, Key
    <2>. QED  BY <2>1, <2>2, OrderKept
  <1>5. ASSUME NEW v \in BOOLEAN PROVE Good([c EXCEPT !.hung = v], n)
    <2>1. [c EXCEPT !.hung = v] \in Consumers(n)
      BY DEF Good, Consumers
    <2>2. SameQueues(c, [c EXCEPT !.hung = v], n)
      BY DEF Good, Consumers, SameQueues, Key
    <2>. QED  BY <2>1, <2>2, OrderKept
  <1>. QED  BY <1>1, <1>2, <1>3, <1>4, <1>5

-----------------------------------------------------------------------------
(* The handlers of the runtimes' events and of blits.                      *)

\* Of a present that is forgotten the process and the swap chain stay.
LEMMA ForgottenTyped ==
    ASSUME NEW n \in Nat, NEW e \in Presents(n)
    PROVE  /\ Forgotten(e) \in Presents(n)
           /\ Forgotten(e).process = e.process /\ Forgotten(e).swap = e.swap
  <1>0. e \in Records(n)
    BY PresentIsRecord
  <1>1. PICK t : t = CHOOSE i \in Threads : ProcessOf(i) = e.process
    OBVIOUS
  <1>2. t \in Threads /\ ProcessOf(t) = e.process
    BY <1>0, <1>1 DEF Records, Owners
  <1>3. PICK f : f = NewPresent(t, "Other", e.swap, FALSE)
    OBVIOUS
  <1>4. f \in Records(n)
    <2>1. e.swap \in SwapChains \cup {None} /\ "Other" \in Runtimes /\ FALSE \in BOOLEAN
      BY <1>0 DEF Records, Runtimes
    <2>. QED  BY <1>2, <1>3, <2>1, NewPresentTyped, PresentIsRecord
  <1>5. f.process = e.process /\ f.swap = e.swap
    BY <1>2, <1>3 DEF NewPresent
  <1>6. PICK seen \in BOOLEAN : seen = (e.seenDxgk /\ e.mode = "Legacy_Copy")
    <2>1. e.seenDxgk \in BOOLEAN
      BY <1>0 DEF Records
    <2>. QED  BY <2>1
  <1>7. Forgotten(e) =
          [f EXCEPT !.mode = e.mode, !.final = e.final, !.screen = e.screen,
                    !.seenDxgk = seen, !.completed = e.completed, !.lost = e.lost]
    BY <1>1, <1>3, <1>6 DEF Forgotten
  <1>8. PICK g : g = [f EXCEPT !.mode = e.mode, !.final = e.final, !.screen = e.screen]
    OBVIOUS
  <1>9. /\ g \in Records(n) /\ g.process = f.process /\ g.swap = f.swap
        /\ g.final = e.final /\ g.screen = e.screen
    BY <1>0, <1>4, <1>8 DEF Records
  <1>10. PICK h : h = [g EXCEPT !.seenDxgk = seen, !.completed = e.completed, !.lost = e.lost]
    OBVIOUS
  <1>11. /\ h \in Records(n) /\ h.process = g.process /\ h.swap = g.swap
         /\ h.final = g.final /\ h.screen = g.screen
    <2>1. e.completed \in BOOLEAN /\ e.lost \in BOOLEAN /\ seen \in BOOLEAN
      BY <1>0 DEF Records
    <2>2. PICK k : k = [g EXCEPT !.seenDxgk = seen]
      OBVIOUS
    <2>3. /\ k \in Records(n) /\ k.process = g.process /\ k.swap = g.swap
          /\ k.final = g.final /\ k.screen = g.screen
      BY <1>9, <2>1, <2>2 DEF Records
    <2>4. h = [k EXCEPT !.completed = e.completed, !.lost = e.lost]
      BY <1>10, <2>2
    <2>. QED  BY <2>1, <2>3, <2>4 DEF Records
  <1>12. Forgotten(e) = h
    BY <1>7, <1>8, <1>10
  <1>13. h \in Presents(n)
    BY <1>9, <1>11, OutcomeKept
  <1>. QED  BY <1>5, <1>9, <1>11, <1>12, <1>13

\* Presents may change all at once.
LEMMA EditAllGood ==
    ASSUME NEW n \in Nat, NEW c, Good(c, n), NEW ps \in [1..n -> Presents(n)],
           \A p \in 1..n : ps[p].process = c.presents[p].process /\ ps[p].swap = c.presents[p].swap
    PROVE  Good([c EXCEPT !.presents = ps], n)
  <1>. DEFINE d == [c EXCEPT !.presents = ps]
  <1>1. d \in Consumers(n)
    BY DEF Good, Consumers
  <1>2. SameQueues(c, d, n)
    BY DEF Good, Consumers, SameQueues, Key
  <1>. QED  BY <1>1, <1>2, OrderKept

\* Forgetting what cannot be reached keeps the order.
LEMMA ForgetGood ==
    ASSUME NEW n \in Nat, NEW c, Good(c, n)
    PROVE  Good(Forget(c), n)
  <1>1. PICK R : R = Reachable(c)
    OBVIOUS
  <1>2. PICK ps : ps = [p \in 1..n |-> IF p \in R THEN c.presents[p] ELSE Forgotten(c.presents[p])]
    OBVIOUS
  <1>3. ps \in [1..n -> Presents(n)]
    BY <1>2, PresentTyped, ForgottenTyped
  <1>4. \A p \in 1..n : ps[p].process = c.presents[p].process /\ ps[p].swap = c.presents[p].swap
    BY <1>2, PresentTyped, ForgottenTyped
  <1>5. Forget(c) = [c EXCEPT !.presents = ps]
    BY <1>1, <1>2, PresentsLength DEF Forget, Good
  <1>. QED  BY <1>3, <1>4, <1>5, EditAllGood

Fine(c) == \E n \in Nat : Good(c, n)
IInv == Fine(consumer) /\ trace \in Traces

\* What is in order is so after the step, too.
LEMMA StillGood ==
    ASSUME NEW n \in Nat, NEW d, Good(d, n), consumer' = d, trace' = trace
    PROVE  Good(consumer, n)'
  <1>1. Presents(n)' = Presents(n)
    BY DEF Presents, Records, TimesAreTold
  <1>2. Consumers(n)' = Consumers(n)
    BY <1>1 DEF Consumers
  <1>. QED  BY <1>2 DEF Good, Order, Key

\* A handler that leaves a consumer in order behind keeps the invariant.
LEMMA BecomesFine == ASSUME IInv, NEW c, Fine(c), Becomes(c) PROVE IInv'
  <1>0. ASSUME NEW n \in Nat, NEW d, Good(d, n), consumer' = d, trace' = trace
        PROVE  IInv'
    BY <1>0, StillGood DEF IInv, Fine
  <1>1. CASE c.hung
    <2>1. PICK n \in Nat : Good(consumer, n)
      BY DEF IInv, Fine
    <2>2. Good([consumer EXCEPT !.hung = TRUE], n)
      BY <2>1, SetOther
    <2>. QED  BY <1>0, <1>1, <2>2 DEF Becomes
  <1>2. CASE ~c.hung
    BY <1>0, <1>2, ForgetGood DEF Becomes, Fine
  <1>. QED  BY <1>1, <1>2

\* The runtime's Present starts a present.
LEMMA PresentStartFine ==
    ASSUME IInv, NEW t \in Threads, PresentStart(t)
    PROVE  IInv'
  <1>1. PICK n \in Nat : Good(consumer, n)
    BY DEF IInv, Fine
  <1>2. PICK runtime \in trace.runtimes, swap \in SwapChains, doNotSequence \in BOOLEAN :
          Becomes(TrackOnThread(consumer, NewPresent(t, runtime, swap, doNotSequence)))
    BY DEF PresentStart
  <1>3. runtime \in Runtimes
    BY <1>2, ConsumerAssumption DEF IInv
  <1>4. Good(TrackOnThread(consumer, NewPresent(t, runtime, swap, doNotSequence)), n + 1)
    BY <1>1, <1>3, NewPresentTyped, TrackOnThreadGood
  <1>. QED  BY <1>2, <1>4, BecomesFine DEF Fine

\* DXGI_PRESENT_TEST detaches the thread.
LEMMA PresentTestFine ==
    ASSUME IInv, NEW t \in Threads, PresentTest(t)
    PROVE  IInv'
  <1>1. PICK n \in Nat : Good(consumer, n)
    BY DEF IInv, Fine
  <1>2. Good([consumer EXCEPT !.byThread[t] = NoPresent], n)
    <2>1. NoPresent \in 0..n
      BY DEF NoPresent
    <2>. QED  BY <1>1, <2>1, SetCollection
  <1>. QED  BY <1>2, BecomesFine DEF PresentTest, Fine

\* A collection finds a present or none.
LEMMA PresentFound ==
    ASSUME NEW n \in Nat, NEW c, Good(c, n)
    PROVE  /\ \A t \in Threads : c.byThread[t] # NoPresent => c.byThread[t] \in 1..n
           /\ \A s \in SubmitSeqs : c.bySubmit[s] # NoPresent => c.bySubmit[s] \in 1..n
           /\ \A k \in Tokens :
                /\ c.win32k[k] # NoPresent => c.win32k[k] \in 1..n
                /\ c.dxgk[k] # NoPresent => c.dxgk[k] \in 1..n
                /\ c.legacyBlit[k] # NoPresent => c.legacyBlit[k] \in 1..n
           /\ \A x \in Contexts : c.blits[x] # NoPresent => c.blits[x] \in 1..n
           /\ \A h \in Hwnds : c.window[h] # NoPresent => c.window[h] \in 1..n
  <1>1. \A q \in 0..n : q # NoPresent => q \in 1..n
    BY DEF NoPresent
  <1>. QED  BY <1>1 DEF Good, Consumers

\* RuntimePresentStop completes a present or lets go of it.
LEMMA PresentStopFine ==
    ASSUME IInv, NEW t \in Threads, PresentStop(t)
    PROVE  IInv'
  <1>1. PICK n \in Nat : Good(consumer, n)
    BY DEF IInv, Fine
  <1>2. PICK allowBatching \in BOOLEAN, runtime \in trace.runtimes :
          RuntimePresentStop(t, allowBatching, runtime)
    BY DEF PresentStop
  <1>3. runtime \in Runtimes
    BY <1>2, ConsumerAssumption DEF IInv
  <1>. DEFINE p == consumer.byThread[t]
              c1 == Assert_(consumer, 1577, consumer.presents[p].runtime \in {"Other", runtime})
              c2 == [c1 EXCEPT !.presents[p].runtime = runtime]
              c3 == [c2 EXCEPT !.presents[p].final =
                                 IF allowBatching THEN "Presented" ELSE "Discarded"]
              c4 == [c2 EXCEPT !.byThread[t] = NoPresent]
  <1>4. p # NoPresent /\ Becomes(IF ~allowBatching \/ trace.simpleMode THEN Complete(c3, p) ELSE c4)
    BY <1>2 DEF RuntimePresentStop
  <1>5. p \in 1..n
    <2>1. p # NoPresent
      BY <1>4
    <2>. QED  BY <1>1, <2>1, PresentFound
  <1>6. Good(c1, n)
    <2>1. 1577 \in Nat
      OBVIOUS
    <2>. QED  BY <1>1, <2>1, AssertGood
  <1>. HIDE DEF p, c1
  <1>7. Good(c2, n)
    BY <1>3, <1>5, <1>6, SetPresent
  <1>. HIDE DEF c2
  <1>8. ASSUME ~allowBatching \/ trace.simpleMode PROVE Good(Complete(c3, p), n)
    <2>1. PICK final \in Results : final = IF allowBatching THEN "Presented" ELSE "Discarded"
      BY DEF Results
    <2>2. Good([c2 EXCEPT !.presents[p].final = final], n)
      <3>1. final # "Presented" \/ ~TimesAreTold
        BY <1>8, <2>1 DEF TimesAreTold
      <3>. QED  BY <1>5, <1>7, <3>1, SetPresent
    <2>. QED  BY <1>5, <2>1, <2>2, CompleteGood
  <1>9. Good(c4, n)
    <2>1. NoPresent \in 0..n
      BY DEF NoPresent
    <2>. QED  BY <1>7, <2>1, SetCollection
  <1>. HIDE DEF c3, c4
  <1>10. CASE ~allowBatching \/ trace.simpleMode
    BY <1>4, <1>8, <1>10, BecomesFine DEF Fine
  <1>11. CASE ~(~allowBatching \/ trace.simpleMode)
    BY <1>4, <1>9, <1>11, BecomesFine DEF Fine
  <1>. QED  BY <1>10, <1>11

\* HandleDxgkBlt finds a present and says where it is shown.
LEMMA DxgkBltFine ==
    ASSUME IInv, NEW t \in Threads, NEW hwnd \in Hwnds, NEW redirected \in BOOLEAN,
           DxgkBlt(t, hwnd, redirected)
    PROVE  IInv'
  <1>1. PICK n \in Nat : Found(FindFresh(consumer, t, "Blt"), n)
    BY FindFreshGood DEF IInv, Fine
  <1>2. PICK c, p : c = FindFresh(consumer, t, "Blt").c /\ p = FindFresh(consumer, t, "Blt").p
    OBVIOUS
  <1>3. Good(c, n) /\ p \in 0..n
    BY <1>1, <1>2 DEF Found
  <1>4. PICK mode \in Modes : mode = IF redirected THEN "Composed_Copy_CPU_GDI" ELSE "Legacy_Copy"
    BY DEF Modes
  <1>5. Becomes(IF p = NoPresent THEN c
                ELSE [[c EXCEPT !.presents[p].hwnd = hwnd] EXCEPT !.presents[p].mode = mode])
    BY <1>2, <1>4 DEF DxgkBlt
  <1>6. CASE p = NoPresent
    BY <1>3, <1>5, <1>6, BecomesFine DEF Fine
  <1>7. CASE p # NoPresent
    <2>1. p \in 1..n
      BY <1>3, <1>7 DEF NoPresent
    <2>2. PICK d : d = [c EXCEPT !.presents[p].hwnd = hwnd]
      OBVIOUS
    <2>3. Good(d, n)
      BY <1>3, <2>1, <2>2, SetPresent
    <2>4. Good([d EXCEPT !.presents[p].mode = mode], n)
      BY <2>1, <2>3, SetPresent
    <2>. QED  BY <1>5, <1>7, <2>2, <2>4, BecomesFine DEF Fine
  <1>. QED  BY <1>6, <1>7

\* HandleDxgkBltCancel discards a present.
LEMMA DxgkBltCancelFine ==
    ASSUME IInv, NEW t \in Threads, DxgkBltCancel(t)
    PROVE  IInv'
  <1>1. PICK n \in Nat : Good(consumer, n)
    BY DEF IInv, Fine
  <1>2. PICK p : p = consumer.byThread[t]
    OBVIOUS
  <1>3. p \in 1..n
    <2>1. p # NoPresent
      BY <1>2 DEF DxgkBltCancel
    <2>. QED  BY <1>1, <1>2, <2>1, PresentFound
  <1>4. "Discarded" \in Results
    BY DEF Results
  <1>5. Good([consumer EXCEPT !.presents[p].final = "Discarded"], n)
    BY <1>1, <1>3, <1>4, SetPresent
  <1>6. Good(Complete([consumer EXCEPT !.presents[p].final = "Discarded"], p), n)
    BY <1>3, <1>5, CompleteGood
  <1>. QED  BY <1>2, <1>6, BecomesFine DEF DxgkBltCancel, Fine

-----------------------------------------------------------------------------
(* The handlers of the packets' events.                                    *)

\* The assignments by which a present counts as shown.
LEMMA ShownGood ==
    ASSUME NEW n \in Nat, NEW c, Good(c, n), NEW p \in 1..n
    PROVE  /\ Good([c EXCEPT !.presents[p].screen = TRUE, !.presents[p].final = "Presented"], n)
           /\ \A b \in BOOLEAN : b \/ ~TimesAreTold =>
                Good([c EXCEPT !.presents[p].final = "Presented", !.presents[p].screen = b], n)
  <1>1. PICK e \in Presents(n) : e = c.presents[p]
    BY PresentTyped
  <1>2. ASSUME NEW b \in BOOLEAN, b \/ ~TimesAreTold
        PROVE  Good([c EXCEPT !.presents[p] = [e EXCEPT !.final = "Presented", !.screen = b]], n)
    <2>1. PICK f : f = [e EXCEPT !.final = "Presented", !.screen = b]
      OBVIOUS
    <2>2. f \in Records(n) /\ f.screen = b
      BY <2>1 DEF Presents, Records, Results
    <2>3. f \in Presents(n) /\ f.process = e.process /\ f.swap = e.swap
      BY <1>2, <2>1, <2>2 DEF Presents, Records
    <2>. QED  BY <1>1, <2>1, <2>3, EditGood
  <1>3. [e EXCEPT !.final = "Presented", !.screen = TRUE]
          = [e EXCEPT !.screen = TRUE, !.final = "Presented"]
    BY DEF Presents, Records
  <1>4. [c EXCEPT !.presents[p].screen = TRUE, !.presents[p].final = "Presented"]
          = [c EXCEPT !.presents[p] = [e EXCEPT !.screen = TRUE, !.final = "Presented"]]
    BY <1>1 DEF Good, Consumers
  <1>5. \A b : [c EXCEPT !.presents[p].final = "Presented", !.presents[p].screen = b]
               = [c EXCEPT !.presents[p] = [e EXCEPT !.final = "Presented", !.screen = b]]
    BY <1>1 DEF Good, Consumers
  <1>. QED  BY <1>2, <1>3, <1>4, <1>5

\* HandleDxgkQueueComplete may complete a present.
LEMMA DxgkQueueCompleteFine ==
    ASSUME IInv, NEW s \in SubmitSeqs, DxgkQueueComplete(s)
    PROVE  IInv'
  <1>1. PICK n \in Nat : Good(consumer, n)
    BY DEF IInv, Fine
  <1>2. PICK p, c : /\ p = consumer.bySubmit[s]
                    /\ c = [consumer EXCEPT !.presents[p].screen = TRUE,
                                            !.presents[p].final = "Presented"]
    OBVIOUS
  <1>3. p # NoPresent /\ (Becomes(Complete(c, p)) \/ Becomes(c))
    BY <1>2 DEF DxgkQueueComplete
  <1>4. p \in 1..n
    BY <1>1, <1>2, <1>3, PresentFound
  <1>5. Good(c, n)
    BY <1>1, <1>2, <1>4, ShownGood
  <1>6. Good(Complete(c, p), n)
    BY <1>4, <1>5, CompleteGood
  <1>. QED  BY <1>3, <1>5, <1>6, BecomesFine DEF Fine

\* HandleDxgkSyncDPC may complete a plain flip.
LEMMA DxgkSyncDPCFine ==
    ASSUME IInv, NEW s \in SubmitSeqs, DxgkSyncDPC(s)
    PROVE  IInv'
  <1>1. PICK n \in Nat : Good(consumer, n)
    BY DEF IInv, Fine
  <1>2. PICK p, c : /\ p = consumer.bySubmit[s]
                    /\ c = [consumer EXCEPT !.presents[p].screen = TRUE,
                                            !.presents[p].final = "Presented"]
    OBVIOUS
  <1>3. p # NoPresent /\ (Becomes(Complete(c, p)) \/ Becomes(c))
    BY <1>2 DEF DxgkSyncDPC
  <1>4. p \in 1..n
    BY <1>1, <1>2, <1>3, PresentFound
  <1>5. Good(c, n)
    BY <1>1, <1>2, <1>4, ShownGood
  <1>6. Good(Complete(c, p), n)
    BY <1>4, <1>5, CompleteGood
  <1>. QED  BY <1>3, <1>5, <1>6, BecomesFine DEF Fine

\* HandleDxgkMMIOFlip may.
LEMMA DxgkMMIOFlipFine ==
    ASSUME IInv, NEW s \in SubmitSeqs, NEW immediate \in BOOLEAN,
           DxgkMMIOFlip(s, immediate)
    PROVE  IInv'
  <1>1. PICK n \in Nat : Good(consumer, n)
    BY DEF IInv, Fine
  <1>2. PICK p, mode : /\ p = consumer.bySubmit[s]
                       /\ mode = IF consumer.presents[p].mode = "Composed_Flip"
                                 THEN "Independent_Flip" ELSE consumer.presents[p].mode
    OBVIOUS
  <1>3. PICK c : c = [consumer EXCEPT !.presents[p].mode = mode]
    OBVIOUS
  <1>4. PICK d : d = [c EXCEPT !.presents[p].final = "Presented", !.presents[p].screen = TRUE]
    OBVIOUS
  <1>5. p # NoPresent /\ (Becomes(c) \/ Becomes(Complete(d, p)) \/ Becomes(d))
    BY <1>2, <1>3, <1>4 DEF DxgkMMIOFlip
  <1>6. p \in 1..n
    BY <1>1, <1>2, <1>5, PresentFound
  <1>7. mode \in Modes
    <2>1. consumer.presents[p] \in Presents(n)
      BY <1>1, <1>6, PresentTyped
    <2>. QED  BY <1>2, <2>1 DEF Presents, Records, Modes
  <1>8. Good(c, n)
    BY <1>1, <1>3, <1>6, <1>7, SetPresent
  <1>9. Good(d, n)
    <2>1. TRUE \in BOOLEAN
      OBVIOUS
    <2>. QED  BY <1>4, <1>6, <1>8, <2>1, ShownGood
  <1>10. Good(Complete(d, p), n)
    BY <1>6, <1>9, CompleteGood
  <1>. QED  BY <1>5, <1>8, <1>9, <1>10, BecomesFine DEF Fine

\* HandleDxgkMMIOFlipMPO may.
LEMMA DxgkMMIOFlipMPOFine ==
    ASSUME IInv, NEW s \in SubmitSeqs, NEW status \in trace.statuses, DxgkMMIOFlipMPO(s, status)
    PROVE  IInv'
  <1>1. PICK n \in Nat : Good(consumer, n)
    BY DEF IInv, Fine
  <1>2. PICK p, mode : /\ p = consumer.bySubmit[s]
                       /\ mode = IF consumer.presents[p].mode \in {"Independent_Flip", "Composed_Flip"}
                                 THEN "Composed_Independent_Flip" ELSE consumer.presents[p].mode
    OBVIOUS
  <1>3. PICK c : c = [consumer EXCEPT !.presents[p].mode = mode]
    OBVIOUS
  <1>4. PICK b \in BOOLEAN : b = (c.presents[p].screen \/ status = "FlipWaitComplete")
    OBVIOUS
  <1>5. PICK d : d = [c EXCEPT !.presents[p].final = "Presented", !.presents[p].screen = b]
    OBVIOUS
  <1>6. p # NoPresent
    BY <1>2 DEF DxgkMMIOFlipMPO
  <1>7. p \in 1..n
    BY <1>1, <1>2, <1>6, PresentFound
  <1>8. mode \in Modes
    <2>1. consumer.presents[p] \in Presents(n)
      BY <1>1, <1>7, PresentTyped
    <2>. QED  BY <1>2, <2>1 DEF Presents, Records, Modes
  <1>9. Good(c, n)
    BY <1>1, <1>3, <1>7, <1>8, SetPresent
  <1>10. d = [c EXCEPT !.presents[p].final = "Presented",
                       !.presents[p].screen = @ \/ status = "FlipWaitComplete"]
    <2>1. c.presents[p] \in Presents(n)
      BY <1>7, <1>9, PresentTyped
    <2>2. PICK f : f = [c EXCEPT !.presents[p].final = "Presented"]
      OBVIOUS
    <2>3. f.presents[p].screen = c.presents[p].screen
      BY <2>2
    <2>. QED  BY <1>4, <1>5, <2>2, <2>3
  <1>11. \/ Becomes(c)
         \/ /\ status \notin {"none", "FlipWaitVSync", "FlipWaitHSync"}
            /\ Becomes(Complete(d, p)) \/ Becomes(d)
    BY <1>2, <1>3, <1>10 DEF DxgkMMIOFlipMPO
  <1>12. CASE Becomes(c)
    BY <1>9, <1>12, BecomesFine DEF Fine
  <1>13. CASE /\ status \notin {"none", "FlipWaitVSync", "FlipWaitHSync"}
              /\ Becomes(Complete(d, p)) \/ Becomes(d)
    <2>1. trace.statuses \subseteq FlipStatuses
      BY ConsumerAssumption DEF IInv
    <2>2. b \/ ~TimesAreTold
      BY <1>4, <1>13, <2>1 DEF FlipStatuses, TimesAreTold
    <2>3. Good(d, n)
      BY <1>5, <1>7, <1>9, <2>2, ShownGood
    <2>4. Good(Complete(d, p), n)
      BY <1>7, <2>3, CompleteGood
    <2>. QED  BY <1>13, <2>3, <2>4, BecomesFine DEF Fine
  <1>. QED  BY <1>11, <1>12, <1>13

\* The first half of HandleDxgkQueueSubmit keeps the order.
LEMMA SettleBltGood ==
    ASSUME NEW n \in Nat, NEW c, Good(c, n), NEW x \in Contexts
    PROVE  Good(SettleBlt(c, x), n)
  <1>1. PICK p : p = c.blits[x]
    OBVIOUS
  <1>2. PICK d : d = IF c.presents[p].mode = "Legacy_Copy"
                     THEN [c EXCEPT !.presents[p].seenDxgk = TRUE] ELSE c
    OBVIOUS
  <1>3. SettleBlt(c, x) \in {c, Complete(d, p), [d EXCEPT !.blits[x] = NoPresent]}
    BY <1>1, <1>2 DEF SettleBlt
  <1>4. CASE p = NoPresent
    BY <1>1, <1>4 DEF SettleBlt
  <1>5. CASE p # NoPresent
    <2>1. p \in 1..n
      BY <1>1, <1>5, PresentFound
    <2>2. Good(d, n)
      <3>1. TRUE \in BOOLEAN
        OBVIOUS
      <3>2. Good([c EXCEPT !.presents[p].seenDxgk = TRUE], n)
        BY <2>1, <3>1, SetPresent
      <3>. QED  BY <1>2, <3>2
    <2>3. Good(Complete(d, p), n)
      BY <2>1, <2>2, CompleteGood
    <2>4. Good([d EXCEPT !.blits[x] = NoPresent], n)
      <3>1. NoPresent \in 0..n
        BY DEF NoPresent
      <3>. QED  BY <2>2, <3>1, SetCollection
    <2>. QED  BY <1>3, <2>3, <2>4
  <1>. QED  BY <1>4, <1>5

\* HandleDxgkQueueSubmit may complete a blit and files a present under its packet.
LEMMA DxgkQueueSubmitFine ==
    ASSUME IInv, NEW t \in Threads, NEW s \in SubmitSeqs, NEW x \in Contexts,
           NEW present \in BOOLEAN, DxgkQueueSubmit(t, s, x, present)
    PROVE  IInv'
  <1>1. PICK n \in Nat : Good(consumer, n)
    BY DEF IInv, Fine
  <1>2. PICK c, p : c = SettleBlt(consumer, x) /\ p = c.byThread[t]
    OBVIOUS
  <1>3. Good(c, n)
    BY <1>1, <1>2, SettleBltGood
  <1>4. PICK d : d = [c EXCEPT !.presents[p].submit = s]
    OBVIOUS
  <1>5. PICK q : q = IF d.bySubmit[s] = NoPresent THEN p ELSE d.bySubmit[s]
    OBVIOUS
  <1>6. PICK e : e = [d EXCEPT !.bySubmit[s] = q]
    OBVIOUS
  <1>7. PICK f : f = [e EXCEPT !.blits[x] = p]
    OBVIOUS
  <1>8. PICK g : g = [f EXCEPT !.presents[p].context = x]
    OBVIOUS
  <1>9. \/ Becomes(c)
        \/ p # NoPresent /\ (Becomes(g) \/ Becomes(e))
    <2>1. d.bySubmit = c.bySubmit
      BY <1>3, <1>4 DEF Good, Consumers
    <2>2. e = [c EXCEPT !.presents[p].submit = s,
                        !.bySubmit[s] = IF c.bySubmit[s] = NoPresent THEN p ELSE c.bySubmit[s]]
      BY <1>4, <1>5, <1>6, <2>1
    <2>3. g = [e EXCEPT !.blits[x] = p, !.presents[p].context = x]
      BY <1>7, <1>8
    <2>4. Becomes(IF ~present \/ p = NoPresent \/ c.presents[p].submit # None THEN c
                  ELSE IF e.presents[p].mode = "Legacy_Copy" /\ ~trace.supportsDxgkPresentEvent
                       THEN g ELSE e)
      BY <1>2, <2>2, <2>3 DEF DxgkQueueSubmit
    <2>. QED  BY <2>4
  <1>10. CASE Becomes(c)
    BY <1>3, <1>10, BecomesFine DEF Fine
  <1>11. CASE p # NoPresent /\ (Becomes(g) \/ Becomes(e))
    <2>1. p \in 1..n /\ p \in 0..n
      BY <1>2, <1>3, <1>11, PresentFound
    <2>2. Good(d, n)
      BY <1>3, <1>4, <2>1, SetPresent
    <2>3. q \in 0..n
      <3>1. d.bySubmit[s] \in 0..n
        BY <2>2 DEF Good, Consumers
      <3>. QED  BY <1>5, <2>1, <3>1
    <2>4. Good(e, n)
      BY <1>6, <2>2, <2>3, SetCollection
    <2>5. Good(f, n)
      BY <1>7, <2>1, <2>4, SetCollection
    <2>6. Good(g, n)
      BY <1>8, <2>1, <2>5, SetPresent
    <2>. QED  BY <1>11, <2>4, <2>6, BecomesFine DEF Fine
  <1>. QED  BY <1>9, <1>10, <1>11

-----------------------------------------------------------------------------
(* The handlers of the present history and of the kernel's present.        *)

\* A present joins those that wait for DWM.
LEMMA WaitingGood ==
    ASSUME NEW n \in Nat, NEW c, Good(c, n), NEW p \in 1..n
    PROVE  Good([c EXCEPT !.waiting = Append(@, p), !.presents[p].inDwmWaiting = TRUE], n)
  <1>1. PICK w : w = Append(c.waiting, p)
    OBVIOUS
  <1>2. w \in Seq(1..n)
    BY <1>1 DEF Good, Consumers
  <1>3. PICK d : d = [c EXCEPT !.waiting = w]
    OBVIOUS
  <1>4. Good(d, n)
    BY <1>2, <1>3, SetOther
  <1>5. Good([d EXCEPT !.presents[p].inDwmWaiting = TRUE], n)
    <2>1. TRUE \in BOOLEAN
      OBVIOUS
    <2>. QED  BY <1>4, <2>1, SetPresent
  <1>. QED  BY <1>1, <1>3, <1>5

\* The modes of HandleDxgkSubmitPresentHistoryEventArgs keep the order.
LEMMA ClassifyGood ==
    ASSUME NEW n \in Nat, NEW c, Good(c, n), NEW p \in 1..n,
           NEW data \in Tokens \cup {None}, NEW atlas \in BOOLEAN
    PROVE  Good(Classify(c, p, data, atlas), n)
  <1>1. PICK was : was = c.presents[p].mode
    OBVIOUS
  <1>2. CASE was = "Legacy_Copy"
    <2>1. "Composed_Copy_GPU_GDI" \in Modes
      BY DEF Modes
    <2>2. Good([c EXCEPT !.presents[p].mode = "Composed_Copy_GPU_GDI"], n)
      BY <2>1, SetPresent
    <2>. QED  BY <1>1, <1>2, <2>2 DEF Classify
  <1>3. CASE was = "Unknown"
    <2>1. PICK mode \in Modes : mode = IF atlas THEN "Composition_Atlas" ELSE "Composed_Flip"
      BY DEF Modes
    <2>2. Good([c EXCEPT !.presents[p].mode = mode], n)
      BY SetPresent
    <2>. QED  BY <1>1, <1>3, <2>1, <2>2 DEF Classify
  <1>4. CASE was = "Composed_Copy_CPU_GDI" /\ data = None
    BY <1>1, <1>4, WaitingGood DEF Classify
  <1>5. CASE was = "Composed_Copy_CPU_GDI" /\ data # None
    <2>1. PICK d : d = [c EXCEPT !.legacyBlit[data] = p]
      OBVIOUS
    <2>2. Good(d, n)
      BY <1>5, <2>1, SetCollection
    <2>3. Good([d EXCEPT !.presents[p].blitToken = data], n)
      BY <2>2, SetPresent
    <2>. QED  BY <1>1, <1>5, <2>1, <2>3 DEF Classify
  <1>6. CASE was \notin {"Legacy_Copy", "Unknown", "Composed_Copy_CPU_GDI"}
    BY <1>1, <1>6 DEF Classify
  <1>. QED  BY <1>2, <1>3, <1>4, <1>5, <1>6

\* HandleDxgkSubmitPresentHistoryEventArgs files a present under its token.
LEMMA DxgkSubmitPresentHistoryFine ==
    ASSUME IInv, NEW t \in Threads, NEW token \in Tokens,
           NEW data \in Tokens \cup {None}, NEW atlas \in BOOLEAN,
           DxgkSubmitPresentHistory(t, token, data, atlas)
    PROVE  IInv'
  <1>1. PICK n \in Nat : Found(FindFresh(consumer, t, "History"), n)
    BY FindFreshGood DEF IInv, Fine
  <1>. DEFINE c == FindFresh(consumer, t, "History").c
              p == FindFresh(consumer, t, "History").p
              e == c.presents[p]
              c1 == Assert_(c, 570, e.mode # "Unknown" \/ atlas \/ ~e.seenWin32K)
              c2 == [c1 EXCEPT !.presents[p].screen = FALSE, !.presents[p].final = "Unknown",
                               !.presents[p].token = token, !.dxgk[token] = p]
  <1>2. Becomes(IF p = NoPresent THEN c ELSE Classify(c2, p, data, atlas))
    BY DEF DxgkSubmitPresentHistory
  <1>3. Good(c, n) /\ p \in 0..n
    BY <1>1 DEF Found
  <1>. HIDE DEF c, p, e
  <1>4. Good(c1, n)
    <2>1. 570 \in Nat
      OBVIOUS
    <2>. QED  BY <1>3, <2>1, AssertGood
  <1>. HIDE DEF c1
  <1>5. CASE p = NoPresent
    BY <1>2, <1>3, <1>5, BecomesFine DEF Fine
  <1>6. CASE p # NoPresent
    <2>1. p \in 1..n
      BY <1>3, <1>6 DEF NoPresent
    <2>2. PICK d : d = [c1 EXCEPT !.presents[p].final = "Unknown"]
      OBVIOUS
    <2>3. PICK f : f = [d EXCEPT !.presents[p].screen = FALSE]
      OBVIOUS
    <2>4. PICK g : g = [f EXCEPT !.presents[p].token = token]
      OBVIOUS
    <2>5. Good(d, n) /\ d.presents[p].final = "Unknown"
      <3>1. "Unknown" \in Results
        BY DEF Results
      <3>2. Good(d, n)
        BY <1>4, <2>1, <2>2, <3>1, SetPresent
      <3>3. c1.presents[p] \in Records(n) /\ c1.presents \in [1..n -> Presents(n)]
        BY <1>4, <2>1, PresentTyped, PresentIsRecord DEF Good, Consumers
      <3>4. d.presents = [c1.presents EXCEPT ![p].final = "Unknown"]
        BY <1>4, <2>2 DEF Good, Consumers
      <3>. QED  BY <2>1, <3>2, <3>3, <3>4 DEF Records
    <2>6. Good(f, n)
      BY <2>1, <2>3, <2>5, SetPresent
    <2>7. Good(g, n)
      BY <2>1, <2>4, <2>6, SetPresent
    <2>8. Good(c2, n)
      <3>1. PICK e1 \in Presents(n) : e1 = c1.presents[p]
        BY <1>4, <2>1, PresentTyped
      <3>2. [e1 EXCEPT !.final = "Unknown", !.screen = FALSE]
              = [e1 EXCEPT !.screen = FALSE, !.final = "Unknown"]
        BY DEF Presents, Records
      <3>3. f = [c1 EXCEPT !.presents[p].screen = FALSE, !.presents[p].final = "Unknown"]
        <4>1. f = [c1 EXCEPT !.presents[p] = [e1 EXCEPT !.final = "Unknown", !.screen = FALSE]]
          BY <1>4, <2>1, <2>2, <2>3, <3>1 DEF Good, Consumers
        <4>2. [c1 EXCEPT !.presents[p].screen = FALSE, !.presents[p].final = "Unknown"]
                = [c1 EXCEPT !.presents[p] = [e1 EXCEPT !.screen = FALSE, !.final = "Unknown"]]
          BY <1>4, <2>1, <3>1 DEF Good, Consumers
        <4>. QED  BY <3>2, <4>1, <4>2
      <3>4. c2 = [g EXCEPT !.dxgk[token] = p]
        BY <2>4, <3>3
      <3>. QED  BY <1>3, <2>7, <3>4, SetCollection
    <2>. HIDE DEF c2
    <2>9. Good(Classify(c2, p, data, atlas), n)
      BY <2>1, <2>8, ClassifyGood
    <2>. QED  BY <1>2, <1>6, <2>9, BecomesFine DEF Fine
  <1>. QED  BY <1>5, <1>6

\* HandleDxgkPropagatePresentHistoryEventArgs passes a present on to DWM.
LEMMA DxgkPropagatePresentHistoryFine ==
    ASSUME IInv, NEW token \in Tokens, DxgkPropagatePresentHistory(token)
    PROVE  IInv'
  <1>1. PICK n \in Nat : Good(consumer, n)
    BY DEF IInv, Fine
  <1>2. PICK p, h : p = consumer.dxgk[token] /\ h = consumer.presents[p].hwnd
    OBVIOUS
  <1>3. PICK c : c = [consumer EXCEPT !.dxgk[token] = NoPresent]
    OBVIOUS
  <1>4. /\ p # NoPresent
        /\ \/ Becomes([c EXCEPT !.waiting = Append(@, p), !.presents[p].inDwmWaiting = TRUE])
           \/ Becomes([c EXCEPT !.window[h] = p])
           \/ Becomes(c)
    BY <1>2, <1>3 DEF DxgkPropagatePresentHistory
  <1>5. p \in 1..n /\ p \in 0..n
    BY <1>1, <1>2, <1>4, PresentFound
  <1>6. Good(c, n)
    <2>1. NoPresent \in 0..n
      BY DEF NoPresent
    <2>. QED  BY <1>1, <1>3, <2>1, SetCollection
  <1>7. Good([c EXCEPT !.waiting = Append(@, p), !.presents[p].inDwmWaiting = TRUE], n)
    BY <1>5, <1>6, WaitingGood
  <1>8. Good([c EXCEPT !.window[h] = p], n)
    <2>1. CASE h \in Hwnds
      BY <1>5, <1>6, <2>1, SetCollection
    <2>2. CASE h \notin Hwnds
      <3>1. DOMAIN c.window = Hwnds
        BY <1>6 DEF Good, Consumers
      <3>2. [c.window EXCEPT ![h] = p] = c.window
        BY <1>6, <2>2 DEF Good, Consumers
      <3>3. [c EXCEPT !.window[h] = p] = [c EXCEPT !.window = [c.window EXCEPT ![h] = p]]
        OBVIOUS
      <3>4. [c EXCEPT !.window = c.window] = c
        BY <1>6 DEF Good, Consumers
      <3>. QED  BY <1>6, <3>2, <3>3, <3>4
    <2>. QED  BY <2>1, <2>2
  <1>. QED  BY <1>4, <1>6, <1>7, <1>8, BecomesFine DEF Fine

\* The kernel's present returns, which may complete a blit.
LEMMA DxgkPresentInfoFine ==
    ASSUME IInv, NEW t \in Threads, NEW hWindow \in Hwnds \cup {None},
           DxgkPresentInfo(t, hWindow)
    PROVE  IInv'
  <1>1. PICK n \in Nat : Good(consumer, n)
    BY DEF IInv, Fine
  <1>. DEFINE p == consumer.byThread[t]
              e == consumer.presents[p]
              h == IF e.hwnd = None THEN hWindow ELSE e.hwnd
              c1 == [consumer EXCEPT !.presents[p].seenDxgk = TRUE,
                                     !.presents[p].hwnd = IF @ = None THEN hWindow ELSE @]
              c2 == IF e.thread = t THEN c1
                    ELSE [c1 EXCEPT !.presents[p].batchThread = t, !.byThread[t] = NoPresent]
              c3 == IF e.runtime = "Other"
                    THEN [c2 EXCEPT !.byThread[e.thread] = NoPresent] ELSE c2
  <1>2. Becomes(Complete(c3, p)) \/ Becomes(c3)
    BY DEF DxgkPresentInfo
  <1>3. PICK c : c = [consumer EXCEPT !.presents[p].seenDxgk = TRUE, !.presents[p].hwnd = h]
    OBVIOUS
  <1>4. PICK d : d = IF e.thread = t THEN c
                     ELSE [c EXCEPT !.presents[p].batchThread = t, !.byThread[t] = NoPresent]
    OBVIOUS
  <1>5. PICK f : f = IF e.runtime = "Other"
                     THEN [d EXCEPT !.byThread[e.thread] = NoPresent] ELSE d
    OBVIOUS
  <1>6. p # NoPresent
    BY DEF DxgkPresentInfo
  <1>7. p \in 1..n
    BY <1>1, <1>6, PresentFound
  <1>8. e \in Presents(n)
    BY <1>1, <1>7, PresentTyped
  <1>. HIDE DEF p
  <1>9. PICK a : a = [consumer EXCEPT !.presents[p].seenDxgk = TRUE]
    OBVIOUS
  <1>10. Good(a, n) /\ a.presents[p].hwnd = e.hwnd
    <2>1. TRUE \in BOOLEAN
      OBVIOUS
    <2>2. Good(a, n)
      BY <1>1, <1>7, <1>9, <2>1, SetPresent
    <2>3. a.presents[p].hwnd = e.hwnd
      BY <1>1, <1>7, <1>9 DEF Good, Consumers
    <2>. QED  BY <2>2, <2>3
  <1>11. c = c1
    BY <1>3, <1>9, <1>10
  <1>. HIDE DEF e, h
  <1>12. Becomes(Complete(f, p)) \/ Becomes(f)
    <2>1. c3 = f
      BY <1>4, <1>5, <1>11
    <2>. HIDE DEF c3
    <2>. QED  BY <1>2, <2>1
  <1>13. Good(c, n)
    <2>1. h \in Hwnds \cup {None}
      BY <1>8 DEF Presents, Records, h
    <2>2. Good([a EXCEPT !.presents[p].hwnd = h], n)
      BY <1>7, <1>10, <2>1, SetPresent
    <2>. QED  BY <1>3, <1>9, <2>2
  <1>14. NoPresent \in 0..n
    BY DEF NoPresent
  <1>15. Good(d, n)
    <2>1. PICK b : b = [c EXCEPT !.presents[p].batchThread = t]
      OBVIOUS
    <2>2. Good(b, n)
      BY <1>7, <1>13, <2>1, SetPresent
    <2>3. Good([b EXCEPT !.byThread[t] = NoPresent], n)
      BY <1>14, <2>2, SetCollection
    <2>. QED  BY <1>4, <1>13, <2>1, <2>3
  <1>16. Good(f, n)
    <2>1. e.thread \in Threads
      BY <1>8 DEF Presents, Records
    <2>2. Good([d EXCEPT !.byThread[e.thread] = NoPresent], n)
      BY <1>14, <1>15, <2>1, SetCollection
    <2>. QED  BY <1>5, <1>15, <2>2
  <1>17. Good(Complete(f, p), n)
    BY <1>7, <1>16, CompleteGood
  <1>. QED  BY <1>12, <1>16, <1>17, BecomesFine DEF Fine

-----------------------------------------------------------------------------
(* The handlers of Win32K's and of DWM's events.                           *)

\* A present gets a composition token.
LEMMA TokenCompositionSurfaceObjectFine ==
    ASSUME IInv, NEW t \in Threads, NEW token \in Tokens,
           TokenCompositionSurfaceObject(t, token)
    PROVE  IInv'
  <1>1. PICK n \in Nat : Found(FindFresh(consumer, t, "Win32K"), n)
    BY FindFreshGood DEF IInv, Fine
  <1>. DEFINE c == FindFresh(consumer, t, "Win32K").c
              p == FindFresh(consumer, t, "Win32K").p
              c1 == [c EXCEPT !.presents[p].mode = "Composed_Flip",
                              !.presents[p].seenWin32K = TRUE,
                              !.presents[p].win32k = token,
                              !.win32k[token] = p]
  <1>2. Becomes(IF p = NoPresent THEN c ELSE c1)
    BY DEF TokenCompositionSurfaceObject
  <1>3. Good(c, n) /\ p \in 0..n
    BY <1>1 DEF Found
  <1>. HIDE DEF c, p
  <1>4. CASE p = NoPresent
    BY <1>2, <1>3, <1>4, BecomesFine DEF Fine
  <1>5. CASE p # NoPresent
    <2>1. p \in 1..n
      BY <1>3, <1>5 DEF NoPresent
    <2>2. PICK d : d = [c EXCEPT !.presents[p].mode = "Composed_Flip"]
      OBVIOUS
    <2>3. PICK f : f = [d EXCEPT !.presents[p].seenWin32K = TRUE]
      OBVIOUS
    <2>4. PICK g : g = [f EXCEPT !.presents[p].win32k = token]
      OBVIOUS
    <2>5. Good(d, n)
      <3>1. "Composed_Flip" \in Modes
        BY DEF Modes
      <3>. QED  BY <1>3, <2>1, <2>2, <3>1, SetPresent
    <2>6. Good(f, n)
      <3>1. TRUE \in BOOLEAN
        OBVIOUS
      <3>. QED  BY <2>1, <2>3, <2>5, <3>1, SetPresent
    <2>7. Good(g, n)
      BY <2>1, <2>4, <2>6, SetPresent
    <2>8. Good(c1, n)
      <3>1. c1 = [g EXCEPT !.win32k[token] = p]
        BY <2>2, <2>3, <2>4
      <3>. QED  BY <1>3, <2>7, <3>1, SetCollection
    <2>. HIDE DEF c1
    <2>. QED  BY <1>2, <1>5, <2>8, BecomesFine DEF Fine
  <1>. QED  BY <1>4, <1>5

\* The present composed before loses its window,
LEMMA TokenInFrameFine ==
    ASSUME IInv, NEW token \in Tokens, NEW independentFlip \in BOOLEAN,
           TokenInFrame(token, independentFlip)
    PROVE  IInv'
  <1>1. PICK n \in Nat : Good(consumer, n)
    BY DEF IInv, Fine
  <1>. DEFINE p == consumer.win32k[token]
              h == consumer.presents[p].hwnd
              q == consumer.window[h]
              c1 == IF h = None THEN consumer
                    ELSE IF q = NoPresent THEN [consumer EXCEPT !.window[h] = p]
                    ELSE IF q = p THEN consumer
                    ELSE [consumer EXCEPT !.presents[q].final = "Discarded", !.window[h] = p]
              mode == IF independentFlip /\ c1.presents[p].mode = "Composed_Flip"
                      THEN "Independent_Flip" ELSE c1.presents[p].mode
  <1>2. p # NoPresent /\ Becomes([c1 EXCEPT !.presents[p].mode = mode])
    BY DEF TokenInFrame
  <1>3. p \in 1..n /\ p \in 0..n
    <2>1. p # NoPresent
      BY <1>2
    <2>. QED  BY <1>1, <2>1, PresentFound
  <1>4. h \in Hwnds \cup {None}
    BY <1>1, <1>3, PresentTyped DEF Presents, Records
  <1>. HIDE DEF p, h
  <1>5. Good(c1, n)
    <2>1. CASE h = None
      BY <1>1, <2>1
    <2>2. CASE h # None /\ q \in {NoPresent, p}
      <3>1. Good([consumer EXCEPT !.window[h] = p], n)
        BY <1>1, <1>3, <1>4, <2>2, SetCollection
      <3>. QED  BY <1>1, <2>2, <3>1
    <2>3. CASE h # None /\ q \notin {NoPresent, p}
      <3>1. q \in 1..n
        BY <1>1, <1>4, <2>3, PresentFound
      <3>. HIDE DEF q
      <3>2. PICK d : d = [consumer EXCEPT !.presents[q].final = "Discarded"]
        OBVIOUS
      <3>3. Good(d, n)
        <4>1. "Discarded" \in Results
          BY DEF Results
        <4>. QED  BY <1>1, <3>1, <3>2, <4>1, SetPresent
      <3>4. Good([d EXCEPT !.window[h] = p], n)
        BY <1>3, <1>4, <2>3, <3>3, SetCollection
      <3>. QED  BY <2>3, <3>2, <3>4
    <2>. QED  BY <2>1, <2>2, <2>3
  <1>. HIDE DEF c1
  <1>6. mode \in Modes
    <2>1. c1.presents[p] \in Presents(n)
      BY <1>3, <1>5, PresentTyped
    <2>. QED  BY <2>1 DEF Presents, Records, Modes
  <1>. HIDE DEF mode
  <1>7. Good([c1 EXCEPT !.presents[p].mode = mode], n)
    BY <1>3, <1>5, <1>6, SetPresent
  <1>. QED  BY <1>2, <1>7, BecomesFine DEF Fine

\* a confirmed one too,
LEMMA TokenConfirmedFine ==
    ASSUME IInv, NEW token \in Tokens, TokenConfirmed(token)
    PROVE  IInv'
  <1>1. PICK n \in Nat : Good(consumer, n)
    BY DEF IInv, Fine
  <1>. DEFINE p == consumer.win32k[token]
              e == consumer.presents[p]
              final == IF e.final = "Unknown" /\ e.doNotSequence THEN "Discarded" ELSE e.final
              c1 == [consumer EXCEPT !.presents[p].final = final]
  <1>2. p # NoPresent
        /\ Becomes(IF e.hwnd = None THEN c1 ELSE [c1 EXCEPT !.window[e.hwnd] = NoPresent])
    BY DEF TokenConfirmed
  <1>3. p \in 1..n
    <2>1. p # NoPresent
      BY <1>2
    <2>. QED  BY <1>1, <2>1, PresentFound
  <1>4. e \in Presents(n)
    BY <1>1, <1>3, PresentTyped
  <1>. HIDE DEF p, e
  <1>5. /\ final \in Results /\ e.hwnd \in Hwnds \cup {None}
        /\ final # "Presented" \/ ~TimesAreTold \/ e.screen
        /\ e = consumer.presents[p]
    <2>1. e \in Records(n) /\ (TimesAreTold /\ e.final = "Presented" => e.screen)
      BY <1>4, PresentIsRecord
    <2>2. e.final \in Results /\ e.hwnd \in Hwnds \cup {None}
      BY <2>1 DEF Records
    <2>3. e = consumer.presents[p]
      BY DEF e
    <2>. QED  BY <2>1, <2>2, <2>3 DEF Results
  <1>. HIDE DEF final
  <1>6. Good(c1, n)
    BY <1>1, <1>3, <1>5, SetPresent
  <1>. HIDE DEF c1
  <1>7. CASE e.hwnd = None
    BY <1>2, <1>6, <1>7, BecomesFine DEF Fine
  <1>8. CASE e.hwnd # None
    <2>1. NoPresent \in 0..n
      BY DEF NoPresent
    <2>2. Good([c1 EXCEPT !.window[e.hwnd] = NoPresent], n)
      BY <1>5, <1>6, <1>8, <2>1, SetCollection
    <2>. QED  BY <1>2, <1>8, <2>2, BecomesFine DEF Fine
  <1>. QED  BY <1>7, <1>8

\* a retired one was shown,
LEMMA TokenRetiredFine ==
    ASSUME IInv, NEW token \in Tokens, TokenRetired(token)
    PROVE  IInv'
  <1>1. PICK n \in Nat : Good(consumer, n)
    BY DEF IInv, Fine
  <1>2. PICK p : p = consumer.win32k[token]
    OBVIOUS
  <1>3. /\ p # NoPresent
        /\ Becomes([consumer EXCEPT !.presents[p].screen = TRUE,
                                    !.presents[p].final = "Presented"])
    BY <1>2 DEF TokenRetired
  <1>4. p \in 1..n
    BY <1>1, <1>2, <1>3, PresentFound
  <1>. QED  BY <1>1, <1>3, <1>4, ShownGood, BecomesFine DEF Fine

\* and a discarded one is completed.
LEMMA TokenDiscardedFine ==
    ASSUME IInv, NEW token \in Tokens, TokenDiscarded(token)
    PROVE  IInv'
  <1>1. PICK n \in Nat : Good(consumer, n)
    BY DEF IInv, Fine
  <1>. DEFINE p == consumer.win32k[token]
              e == consumer.presents[p]
              final == IF e.final = "Unknown" \/ ~e.screen THEN "Discarded" ELSE e.final
              c1 == [consumer EXCEPT !.win32k[token] = NoPresent, !.presents[p].final = final]
  <1>2. p # NoPresent /\ Becomes(Complete(c1, p))
    BY DEF TokenDiscarded
  <1>3. p \in 1..n
    <2>1. p # NoPresent
      BY <1>2
    <2>. QED  BY <1>1, <2>1, PresentFound
  <1>4. final \in Results /\ (final # "Presented" \/ e.screen)
    <2>1. e \in Presents(n)
      BY <1>1, <1>3, PresentTyped
    <2>. HIDE DEF p, e
    <2>. QED  BY <2>1 DEF Presents, Records, Results
  <1>. HIDE DEF p, final
  <1>5. Good(c1, n)
    <2>1. NoPresent \in 0..n
      BY DEF NoPresent
    <2>2. PICK d : d = [consumer EXCEPT !.win32k[token] = NoPresent]
      OBVIOUS
    <2>3. Good(d, n)
      BY <1>1, <2>1, <2>2, SetCollection
    <2>4. Good([d EXCEPT !.presents[p].final = final], n)
      <3>1. d.presents = consumer.presents
        BY <1>1, <2>2 DEF Good, Consumers
      <3>. QED  BY <1>3, <1>4, <2>3, <3>1, SetPresent
    <2>. QED  BY <2>2, <2>4
  <1>. HIDE DEF c1
  <1>6. Good(Complete(c1, p), n)
    BY <1>3, <1>5, CompleteGood
  <1>. QED  BY <1>2, <1>6, BecomesFine DEF Fine

\* DWM is about to present.
LEMMA DwmSchedulePresentFine ==
    ASSUME IInv, NEW t \in Threads, DwmSchedulePresent(t)
    PROVE  IInv'
  <1>1. PICK n \in Nat : Good(consumer, n)
    BY DEF IInv, Fine
  <1>2. ProcessOf(t) \in Processes
    BY TrackingAssumption
  <1>3. PICK c : c = [consumer EXCEPT !.dwmProcess = ProcessOf(t)]
    OBVIOUS
  <1>4. Good(c, n)
    BY <1>1, <1>2, <1>3, SetOther
  <1>5. Good([c EXCEPT !.dwmThread = t], n)
    BY <1>4, SetOther
  <1>6. Becomes([c EXCEPT !.dwmThread = t])
    BY <1>3 DEF DwmSchedulePresent
  <1>. QED  BY <1>5, <1>6, BecomesFine DEF Fine

\* DWM picks a blit up.
LEMMA DwmFlipChainFine ==
    ASSUME IInv, NEW data \in Tokens, NEW hwnd \in Hwnds, DwmFlipChain(data, hwnd)
    PROVE  IInv'
  <1>1. PICK n \in Nat : Good(consumer, n)
    BY DEF IInv, Fine
  <1>2. PICK p : p = consumer.legacyBlit[data]
    OBVIOUS
  <1>3. PICK c : c = [consumer EXCEPT !.window[hwnd] = p]
    OBVIOUS
  <1>4. p # NoPresent /\ Becomes([c EXCEPT !.legacyBlit[data] = NoPresent])
    BY <1>2, <1>3 DEF DwmFlipChain
  <1>5. p \in 0..n /\ NoPresent \in 0..n
    BY <1>1, <1>2 DEF Good, Consumers, NoPresent
  <1>6. Good(c, n)
    BY <1>1, <1>3, <1>5, SetCollection
  <1>7. Good([c EXCEPT !.legacyBlit[data] = NoPresent], n)
    BY <1>5, <1>6, SetCollection
  <1>. QED  BY <1>4, <1>7, BecomesFine DEF Fine

\* Several presents may start or stop waiting for DWM at once.
LEMMA FlagGood ==
    ASSUME NEW n \in Nat, NEW c, Good(c, n), NEW s, NEW b \in BOOLEAN
    PROVE  Good([c EXCEPT !.presents =
                   [i \in DOMAIN @ |-> IF Contains(s, i)
                                       THEN [@[i] EXCEPT !.inDwmWaiting = b] ELSE @[i]]], n)
  <1>. DEFINE ps == [i \in 1..n |-> IF Contains(s, i)
                                    THEN [c.presents[i] EXCEPT !.inDwmWaiting = b]
                                    ELSE c.presents[i]]
  <1>1. \A p \in 1..n : c.presents[p] \in Presents(n)
    BY PresentTyped
  <1>2. ASSUME NEW e \in Presents(n)
        PROVE  /\ [e EXCEPT !.inDwmWaiting = b] \in Presents(n)
               /\ [e EXCEPT !.inDwmWaiting = b].process = e.process
               /\ [e EXCEPT !.inDwmWaiting = b].swap = e.swap
    <2>1. [e EXCEPT !.inDwmWaiting = b] \in Presents(n)
      BY DEF Presents, Records
    <2>2. /\ [e EXCEPT !.inDwmWaiting = b].process = e.process
          /\ [e EXCEPT !.inDwmWaiting = b].swap = e.swap
      BY DEF Presents, Records
    <2>. QED  BY <2>1, <2>2
  <1>3. ps \in [1..n -> Presents(n)]
    BY <1>1, <1>2
  <1>4. \A p \in 1..n : ps[p].process = c.presents[p].process /\ ps[p].swap = c.presents[p].swap
    BY <1>1, <1>2
  <1>5. [c EXCEPT !.presents = [i \in DOMAIN @ |-> IF Contains(s, i)
                                                  THEN [@[i] EXCEPT !.inDwmWaiting = b]
                                                  ELSE @[i]]]
          = [c EXCEPT !.presents = ps]
    BY PresentsLength DEF Good
  <1>. HIDE DEF ps
  <1>. QED  BY <1>3, <1>4, <1>5, EditAllGood

\* HandleDxgkFlip marks a flip, which may take along what waits for DWM.
LEMMA DxgkFlipFine ==
    ASSUME IInv, NEW t \in Threads, NEW mmio \in BOOLEAN, DxgkFlip(t, mmio)
    PROVE  IInv'
  <1>1. PICK n \in Nat : Found(FindFresh(consumer, t, "Flip"), n)
    BY FindFreshGood DEF IInv, Fine
  <1>. DEFINE c == FindFresh(consumer, t, "Flip").c
              p == FindFresh(consumer, t, "Flip").p
              c1 == [c EXCEPT !.presents[p].mmio = mmio, !.presents[p].mode = "Legacy_Flip"]
              unflagged == [i \in DOMAIN c1.presents |->
                              IF Contains(c1.waiting, i)
                              THEN [c1.presents[i] EXCEPT !.inDwmWaiting = FALSE]
                              ELSE c1.presents[i]]
              c2 == [c1 EXCEPT !.presents = [unflagged EXCEPT ![p].deps = c1.waiting],
                               !.waiting = c1.presents[p].deps,
                               !.dwmThread = None]
  <1>2. Becomes(IF p = NoPresent \/ c.presents[p].mode # "Unknown" THEN c
                ELSE IF t = c1.dwmThread THEN c2 ELSE c1)
    BY DEF DxgkFlip
  <1>3. Good(c, n) /\ p \in 0..n
    BY <1>1 DEF Found
  <1>. HIDE DEF c, p
  <1>4. CASE p = NoPresent
    BY <1>2, <1>3, <1>4, BecomesFine DEF Fine
  <1>5. CASE p # NoPresent
    <2>1. p \in 1..n
      BY <1>3, <1>5 DEF NoPresent
    <2>2. Good(c1, n)
      <3>1. "Legacy_Flip" \in Modes
        BY DEF Modes
      <3>2. PICK d : d = [c EXCEPT !.presents[p].mmio = mmio]
        OBVIOUS
      <3>3. Good(d, n)
        BY <1>3, <2>1, <3>2, SetPresent
      <3>4. Good([d EXCEPT !.presents[p].mode = "Legacy_Flip"], n)
        BY <2>1, <3>1, <3>3, SetPresent
      <3>. QED  BY <3>2, <3>4
    <2>. HIDE DEF c1
    <2>3. PICK d : d = [c1 EXCEPT !.presents = unflagged]
      OBVIOUS
    <2>4. Good(d, n)
      <3>1. FALSE \in BOOLEAN
        OBVIOUS
      <3>. QED  BY <2>2, <2>3, <3>1, FlagGood
    <2>5. c1.waiting \in Seq(1..n) /\ c1.presents[p].deps \in Seq(1..n)
      <3>1. c1.presents[p] \in Presents(n)
        BY <2>1, <2>2, PresentTyped
      <3>. QED  BY <2>2, <3>1 DEF Good, Consumers, Presents, Records
    <2>6. PICK f : f = [d EXCEPT !.presents[p].deps = c1.waiting]
      OBVIOUS
    <2>7. Good(f, n)
      BY <2>1, <2>4, <2>5, <2>6, SetPresent
    <2>8. PICK g : g = [f EXCEPT !.waiting = c1.presents[p].deps]
      OBVIOUS
    <2>9. Good(g, n)
      BY <2>5, <2>7, <2>8, SetOther
    <2>10. Good([g EXCEPT !.dwmThread = None], n)
      BY <2>9, SetOther
    <2>11. c2 = [g EXCEPT !.dwmThread = None]
      <3>. HIDE DEF unflagged
      <3>1. f = [c1 EXCEPT !.presents = [unflagged EXCEPT ![p].deps = c1.waiting]]
        BY <2>2, <2>3, <2>6 DEF Good, Consumers
      <3>. QED  BY <2>8, <3>1
    <2>. HIDE DEF c2
    <2>. QED  BY <1>2, <1>3, <2>2, <2>10, <2>11, BecomesFine DEF Fine
  <1>. QED  BY <1>4, <1>5

\* The windows DWM picks up from come in some order.
LEMMA PickedTyped ==
    ASSUME NEW S, IsFiniteSet(S)
    PROVE  SetToSeq(S) \in Seq(S) /\ DOMAIN SetToSeq(S) = 1..Len(SetToSeq(S))
  <1>1. PICK n \in Nat : ExistsBijection(1..n, S)
    BY FS_NatBijection
  <1>2. Cardinality(S) = n
    BY <1>1, FS_CountingElements
  <1>3. \E f \in [1..Cardinality(S) -> S] : IsInjective(f)
    BY <1>1, <1>2 DEF ExistsBijection, Bijection, Injection
  <1>4. SetToSeq(S) \in [1..n -> S]
    BY <1>2, <1>3 DEF SetToSeq
  <1>5. SetToSeq(S) \in Seq(S)
    BY <1>4, SeqDef
  <1>. QED  BY <1>5, LenProperties

\* DWM picks up the windows' latest copies.
LEMMA DwmGetPresentHistoryFine ==
    ASSUME IInv, DwmGetPresentHistory
    PROVE  IInv'
  <1>1. PICK n \in Nat : Good(consumer, n)
    BY DEF IInv, Fine
  <1>. DEFINE Copied(h) == /\ consumer.window[h] # NoPresent
                           /\ consumer.presents[consumer.window[h]].mode
                                \in {"Composed_Copy_GPU_GDI", "Composed_Copy_CPU_GDI"}
              S == {h \in Hwnds : Copied(h)}
              picked == SetToSeq(S)
              taken == [i \in DOMAIN picked |-> consumer.window[picked[i]]]
              c1 == [consumer EXCEPT
                       !.waiting = @ \o taken,
                       !.presents = [i \in DOMAIN @ |->
                                       IF Contains(taken, i)
                                       THEN [@[i] EXCEPT !.inDwmWaiting = TRUE] ELSE @[i]],
                       !.window = EmptyMap(Hwnds)]
  <1>2. Becomes(c1)
    BY DEF DwmGetPresentHistory
  <1>3. IsFiniteSet(S)
    <2>1. S \subseteq Hwnds
      OBVIOUS
    <2>. HIDE DEF S
    <2>. QED  BY <2>1, FS_Subset, TrackingAssumption
  <1>4. \A h \in S : consumer.window[h] \in 1..n
    BY <1>1, PresentFound
  <1>. HIDE DEF S
  <1>5. picked \in Seq(S) /\ DOMAIN picked = 1..Len(picked)
    BY <1>3, PickedTyped
  <1>. HIDE DEF picked
  <1>6. taken \in Seq(1..n)
    <2>1. Len(picked) \in Nat /\ \A i \in 1..Len(picked) : picked[i] \in S
      BY <1>5, ElementOfSeq
    <2>2. taken \in [1..Len(picked) -> 1..n]
      BY <1>4, <1>5, <2>1
    <2>. HIDE DEF taken
    <2>. QED  BY <2>1, <2>2, SeqDef
  <1>. HIDE DEF taken
  <1>7. PICK w : w = consumer.waiting \o taken
    OBVIOUS
  <1>8. w \in Seq(1..n)
    BY <1>1, <1>6, <1>7 DEF Good, Consumers
  <1>9. PICK d : d = [consumer EXCEPT !.waiting = w]
    OBVIOUS
  <1>10. Good(d, n) /\ d.presents = consumer.presents
    <2>1. d.presents = consumer.presents
      BY <1>1, <1>9 DEF Good, Consumers
    <2>. QED  BY <1>1, <1>8, <1>9, <2>1, SetOther
  <1>11. PICK f : f = [d EXCEPT !.presents =
                         [i \in DOMAIN @ |-> IF Contains(taken, i)
                                             THEN [@[i] EXCEPT !.inDwmWaiting = TRUE] ELSE @[i]]]
    OBVIOUS
  <1>12. Good(f, n)
    <2>1. TRUE \in BOOLEAN
      OBVIOUS
    <2>. QED  BY <1>10, <1>11, <2>1, FlagGood
  <1>13. EmptyMap(Hwnds) \in [Hwnds -> 0..n]
    BY DEF EmptyMap, NoPresent
  <1>14. Good([f EXCEPT !.window = EmptyMap(Hwnds)], n)
    BY <1>12, <1>13, SetOther
  <1>15. c1 = [f EXCEPT !.window = EmptyMap(Hwnds)]
    BY <1>7, <1>9, <1>10, <1>11
  <1>. HIDE DEF c1
  <1>. QED  BY <1>2, <1>14, <1>15, BecomesFine DEF Fine

-----------------------------------------------------------------------------
(* The invariant, and what follows from it.                                *)

\* PMTraceConsumer's constructor makes a consumer in order.
LEMMA NewConsumerGood == Good(NewConsumer, 0)
  <1>1. /\ EmptyMap(Slots) \in [Slots -> 0..0] /\ EmptyMap(Threads) \in [Threads -> 0..0]
        /\ EmptyMap(SubmitSeqs) \in [SubmitSeqs -> 0..0] /\ EmptyMap(Tokens) \in [Tokens -> 0..0]
        /\ EmptyMap(Contexts) \in [Contexts -> 0..0] /\ EmptyMap(Hwnds) \in [Hwnds -> 0..0]
    BY DEF EmptyMap, NoPresent
  <1>2. /\ [k \in Chains |-> <<>>] \in [Chains -> Seq(1..0)]
        /\ <<>> \in [1..0 -> Presents(0)] /\ <<>> \in Seq(1..0)
    OBVIOUS
  <1>3. 0 \in Slots
    BY TrackingAssumption DEF Slots
  <1>4. NewConsumer \in Consumers(0)
    BY <1>1, <1>2, <1>3 DEF NewConsumer, Consumers, Slots, Chains
  <1>5. Order(NewConsumer)
    <2>1. NewConsumer.delivered = <<>> /\ \A k \in Chains : NewConsumer.bySwapChain[k] = <<>>
      BY DEF NewConsumer, Chains
    <2>2. 1..Len(<<>>) = {}
      OBVIOUS
    <2>. QED  BY <2>1, <2>2 DEF Order, Increasing
  <1>. QED  BY <1>4, <1>5 DEF Good

\* The invariant holds when the consumer is made,
LEMMA InitFine == Init => IInv
  BY NewConsumerGood DEF Init, IInv, Fine

\* and the events of the graphics kernel that name a thread,
LEMMA KernelFine ==
    ASSUME IInv, NEW t \in Threads, Kernel(t)
    PROVE  IInv'
  <1>1. CASE \E mmio \in BOOLEAN : DxgkFlip(t, mmio)
    BY <1>1, DxgkFlipFine
  <1>2. CASE \E hwnd \in Hwnds, redirected \in BOOLEAN : DxgkBlt(t, hwnd, redirected)
    BY <1>2, DxgkBltFine
  <1>3. CASE DxgkBltCancel(t)
    BY <1>3, DxgkBltCancelFine
  <1>4. CASE \E s \in Sequences_, x \in Contexts, present \in BOOLEAN :
               DxgkQueueSubmit(t, s, x, present)
    BY <1>4, DxgkQueueSubmitFine DEF Sequences_
  <1>5. CASE \E token \in Tokens_, data \in Tokens_ \cup {None}, atlas \in BOOLEAN :
               DxgkSubmitPresentHistory(t, token, data, atlas)
    BY <1>5, DxgkSubmitPresentHistoryFine DEF Tokens_
  <1>6. CASE \E h \in Hwnds \cup {None} : DxgkPresentInfo(t, h)
    BY <1>6, DxgkPresentInfoFine
  <1>7. CASE \E token \in Tokens_ : TokenCompositionSurfaceObject(t, token)
    BY <1>7, TokenCompositionSurfaceObjectFine DEF Tokens_
  <1>8. CASE DwmSchedulePresent(t)
    BY <1>8, DwmSchedulePresentFine
  <1>. QED  BY <1>1, <1>2, <1>3, <1>4, <1>5, <1>6, <1>7, <1>8 DEF Kernel

\* those that name a present by a key,
LEMMA KeyedFine ==
    ASSUME IInv, Keyed
    PROVE  IInv'
  <1>1. ASSUME NEW s \in Sequences_,
               \/ DxgkQueueComplete(s) \/ DxgkSyncDPC(s)
               \/ \E immediate \in BOOLEAN : DxgkMMIOFlip(s, immediate)
               \/ \E status \in trace.statuses : DxgkMMIOFlipMPO(s, status)
        PROVE  IInv'
    <2>1. s \in SubmitSeqs
      BY DEF Sequences_
    <2>. QED  BY <1>1, <2>1, DxgkQueueCompleteFine, DxgkSyncDPCFine, DxgkMMIOFlipFine,
                 DxgkMMIOFlipMPOFine
  <1>2. ASSUME NEW token \in Tokens_,
               \/ DxgkPropagatePresentHistory(token) \/ TokenStateChanged(token)
               \/ \E hwnd \in Hwnds : DwmFlipChain(token, hwnd)
        PROVE  IInv'
    <2>1. token \in Tokens
      BY DEF Tokens_
    <2>2. CASE DxgkPropagatePresentHistory(token)
      BY <2>1, <2>2, DxgkPropagatePresentHistoryFine
    <2>3. CASE TokenStateChanged(token)
      BY <2>1, <2>3, TokenInFrameFine, TokenConfirmedFine, TokenRetiredFine, TokenDiscardedFine
         DEF TokenStateChanged
    <2>4. CASE \E hwnd \in Hwnds : DwmFlipChain(token, hwnd)
      BY <2>1, <2>4, DwmFlipChainFine
    <2>. QED  BY <1>2, <2>2, <2>3, <2>4
  <1>3. CASE DwmGetPresentHistory
    BY <1>3, DwmGetPresentHistoryFine
  <1>. QED  BY <1>1, <1>2, <1>3 DEF Keyed

\* and so all of them keep it.
LEMMA NextFine == IInv /\ [Next]_vars => IInv'
  <1>. SUFFICES ASSUME IInv, [Next]_vars PROVE IInv'
    OBVIOUS
  <1>1. CASE UNCHANGED vars
    <2>1. PICK n \in Nat : Good(consumer, n)
      BY DEF IInv, Fine
    <2>2. consumer' = consumer /\ trace' = trace
      BY <1>1 DEF vars
    <2>3. Good(consumer, n)'
      BY <2>1, <2>2, StillGood
    <2>. QED  BY <2>2, <2>3 DEF IInv, Fine
  <1>2. ASSUME NEW t \in Threads, Runtime_(t) PROVE IInv'
    BY <1>2, PresentStartFine, PresentStopFine, PresentTestFine DEF Runtime_
  <1>3. ASSUME NEW t \in Threads, Kernel(t) PROVE IInv'
    BY <1>3, KernelFine
  <1>4. CASE Keyed
    BY <1>4, KeyedFine
  <1>. QED  BY <1>1, <1>2, <1>3, <1>4 DEF Next

\* The consumer is always in order.
LEMMA FineAlways == Spec => []IInv
  BY InitFine, NextFine, PTL DEF Spec

\* A consumer in order is of the code's types.
LEMMA FineIsTyped == IInv => TypeOK
  <1>. SUFFICES ASSUME IInv PROVE TypeOK
    OBVIOUS
  <1>1. PICK n \in Nat : Good(consumer, n)
    BY DEF IInv, Fine
  <1>2. Ids = 1..n
    BY <1>1, PresentsLength DEF Ids, Good
  <1>3. ASSUME NEW p \in Ids
        PROVE  LET e == consumer.presents[p] IN
               /\ e.process \in Processes /\ e.thread \in Threads /\ e.runtime \in Runtimes
               /\ e.swap \in SwapChains \cup {None} /\ e.mode \in Modes /\ e.final \in Results
               /\ e.slot \in 0..RingSize - 1 /\ e.deps \in Seq(Ids)
               /\ {e.screen, e.completed, e.lost, e.inDwmWaiting} \subseteq BOOLEAN
    <2>1. PICK e : e = consumer.presents[p]
      OBVIOUS
    <2>2. e \in Presents(n)
      BY <1>1, <1>2, <2>1, PresentTyped
    <2>3. /\ e.process \in Processes /\ e.thread \in Threads /\ e.runtime \in Runtimes
          /\ e.swap \in SwapChains \cup {None} /\ e.mode \in Modes /\ e.final \in Results
          /\ e.slot \in 0..RingSize - 1 /\ e.deps \in Seq(Ids)
      BY <1>2, <2>2, TrackingAssumption DEF Presents, Records, Owners, Slots
    <2>4. e.screen \in BOOLEAN /\ e.completed \in BOOLEAN /\ e.lost \in BOOLEAN
          /\ e.inDwmWaiting \in BOOLEAN
      BY <2>2 DEF Presents, Records
    <2>. QED  BY <2>1, <2>3, <2>4
  <1>4. consumer.next \in 0..RingSize - 1
    BY <1>1 DEF Good, Consumers, Slots
  <1>5. \A s \in Seq(1..n) : ToSet(s) \subseteq 1..n
    BY ElementOfSeq, LenProperties DEF ToSet
  <1>6. UNION {ToSet(consumer.bySwapChain[k]) : k \in DOMAIN consumer.bySwapChain} \subseteq Ids
    <2>1. consumer.bySwapChain \in [Chains -> Seq(1..n)]
      BY <1>1 DEF Good, Consumers
    <2>2. \A k \in DOMAIN consumer.bySwapChain : consumer.bySwapChain[k] \in Seq(1..n)
      BY <2>1
    <2>. QED  BY <1>2, <1>5, <2>2
  <1>7. consumer.byProcess \cup ToSet(consumer.waiting) \cup Delivered \subseteq Ids
    <2>1. /\ consumer.byProcess \in SUBSET (1..n) /\ consumer.waiting \in Seq(1..n)
          /\ consumer.delivered \in Seq(1..n)
      BY <1>1 DEF Good, Consumers
    <2>. QED  BY <1>2, <1>5, <2>1 DEF Delivered
  <1>. QED  BY <1>3, <1>4, <1>6, <1>7 DEF TypeOK

\* The present records and the collections of the consumer are of the code's types,
\* whatever events come, in whatever order.
THEOREM TypeCorrect == Spec => []TypeOK
  BY FineAlways, FineIsTyped, PTL

\* Whatever events come and in whatever order, the consumer delivers the presents of a
\* swap chain in the order they were made, and none twice.
THEOREM DeliveryIsInOrder == Spec => []DeliveredInOrder
  <1>1. IInv => DeliveredInOrder
    <2>. SUFFICES ASSUME IInv PROVE DeliveredInOrder
      OBVIOUS
    <2>1. PICK n \in Nat : Good(consumer, n)
      BY DEF IInv, Fine
    <2>2. DOMAIN consumer.delivered = 1..Len(consumer.delivered)
      BY <2>1, LenProperties DEF Good, Consumers
    <2>. QED  BY <2>1, <2>2 DEF Good, Order, DeliveredInOrder
  <1>. QED  BY <1>1, FineAlways, PTL

\* Whatever events come and in whatever order, of the statuses the code deals with, a
\* delivered present that is said to have been displayed has its time on screen.
THEOREM DisplayedIsTimed == Spec => []DisplayedHasScreenTime
  <1>1. IInv => DisplayedHasScreenTime
    <2>. SUFFICES ASSUME IInv, TimesAreTold, NEW p \in Delivered,
                         consumer.presents[p].final = "Presented"
                  PROVE  consumer.presents[p].screen
      BY DEF DisplayedHasScreenTime
    <2>1. PICK n \in Nat : Good(consumer, n)
      BY DEF IInv, Fine
    <2>2. consumer.delivered \in Seq(1..n)
      BY <2>1 DEF Good, Consumers
    <2>3. p \in 1..n
      BY <2>2, ElementOfSeq, LenProperties DEF Delivered, ToSet
    <2>. QED  BY <2>1, <2>3, PresentTyped DEF Presents
  <1>. QED  BY <1>1, FineAlways, PTL

-----------------------------------------------------------------------------
(* What is kept of every present.                                          *)

\* A present waits in the deque of its swap chain; it is open until it is completed.
Waits(c, p) == Contains(Deque(c, p), p)
Open(c, p)  == Waits(c, p) /\ ~c.presents[p].completed
Out(c, p)   == Contains(c.delivered, p)

\* DWM may still compose p: it waits for DWM, was the last to be seen in a window, or
\* rides along with another present.
Rides(c, p) ==
  \/ p \in ToSet(c.waiting)
  \/ \E h \in Hwnds : c.window[h] = p
  \/ \E q \in DOMAIN c.presents : p \in ToSet(c.presents[q].deps)

\* No collection finds p any more, but for a window.
Unlinked(c, p) ==
  /\ \A t \in Threads : c.byThread[t] # p
  /\ \A s \in SubmitSeqs : c.bySubmit[s] # p
  /\ \A k \in Tokens : c.win32k[k] # p /\ c.dxgk[k] # p /\ c.legacyBlit[k] # p
  /\ \A x \in Contexts : c.blits[x] # p
  /\ p \notin c.byProcess

\* The collections that find p find it under its own keys.
Named(c, p) ==
  LET e == c.presents[p] IN
  /\ \A t \in Threads : c.byThread[t] = p => e.thread = t
  /\ \A s \in SubmitSeqs : c.bySubmit[s] = p => e.submit = s
  /\ \A k \in Tokens :
       /\ c.win32k[k] = p => e.win32k = k /\ e.seenWin32K
       /\ c.dxgk[k] = p => e.token = k
       /\ c.legacyBlit[k] = p => e.blitToken = k
  /\ \A x \in Contexts : c.blits[x] = p => e.context = x
  /\ p \in c.byProcess =>
       e.process = ProcessOf(e.thread) /\ trace.feeds[e.thread] \cap Creators # {}

\* A present every event is new to has none of the keys that a later one gives it.
Staged(e) ==
  /\ e.mode = "Unknown" => e.token = None
  /\ e.seenWin32K => e.mode \notin {"Unknown", "Legacy_Copy"}
  /\ e.mode = "Legacy_Copy" => ~trace.simpleMode
  /\ e.token = None => e.blitToken = None
  /\ e.submit = None => e.context = None

\* Every present waits, was delivered or is lost.
Placed(c, n) ==
  /\ c.lost \subseteq 1..n
  /\ \A p \in 1..n : p \in c.lost \/ Waits(c, p) \/ Out(c, p)
  /\ \A p \in c.lost : ~Waits(c, p) /\ ~Out(c, p)

\* The ring holds those that wait.
Ringed(c, n) ==
  /\ \A s \in Slots : c.ring[s] # NoPresent =>
       Waits(c, c.ring[s]) /\ c.presents[c.ring[s]].slot = s
  /\ \A p \in 1..n : Waits(c, p) => c.ring[c.presents[p].slot] = p

\* One that is completed and waits was not displayed.
Told(c, n) ==
  \A p \in 1..n : Waits(c, p) /\ c.presents[p].completed => c.presents[p].final # "Presented"

\* What a collection finds is open.
Linked(c, n) == \A p \in 1..n : Named(c, p) /\ (Unlinked(c, p) \/ Open(c, p))

AllStaged(c, n) == \A p \in 1..n : Staged(c.presents[p])

Asserted(c) == c.failed \subseteq {313, 1441, 1577}

\* What was published before the step and does not ride is as it was; and nothing rides
\* with DWM that was published and did not ride before.
Mine(p) == p \in Published => Rides(consumer, p)
Lasting(c, n) ==
  /\ Published \subseteq 1..n
  /\ \A p \in 1..n : Rides(c, p) => Mine(p)
  /\ \A p \in Published : ~Waits(c, p) /\ (c.presents[p] = consumer.presents[p] \/ Mine(p))

\* What a step begins with, in the middle of a completion and at its end.
Steady(c, n) ==
  /\ Good(c, n) /\ Placed(c, n) /\ Ringed(c, n) /\ Linked(c, n) /\ AllStaged(c, n)
  /\ Asserted(c) /\ Lasting(c, n)
Neat(c, n) == Steady(c, n) /\ Told(c, n)

-----------------------------------------------------------------------------
(* Frames.                                                                 *)

SameLinks(c, d) ==
  /\ d.byThread = c.byThread /\ d.byProcess = c.byProcess /\ d.bySubmit = c.bySubmit
  /\ d.win32k = c.win32k /\ d.dxgk = c.dxgk /\ d.blits = c.blits
  /\ d.window = c.window /\ d.legacyBlit = c.legacyBlit
SameRest(c, d) ==
  /\ d.ring = c.ring /\ d.next = c.next /\ d.lost = c.lost /\ d.failed = c.failed
  /\ d.dwmThread = c.dwmThread /\ d.hung = c.hung

\* Who waits and who was delivered depends on the queues.
LEMMA SameWaits ==
    ASSUME NEW n \in Nat, NEW c, NEW d, SameQueues(c, d, n), NEW p \in 1..n
    PROVE  /\ Waits(d, p) <=> Waits(c, p)
           /\ Out(d, p) <=> Out(c, p)
  BY DEF SameQueues, Waits, Deque, Out

\* None does both.
LEMMA WaitsOrOut ==
    ASSUME NEW n \in Nat, NEW c, Good(c, n), NEW p \in 1..n, Waits(c, p)
    PROVE  ~Out(c, p)
  <1>1. Key(c, p) \in Chains /\ Deque(c, p) = c.bySwapChain[Key(c, p)]
    BY KeyTyped DEF Good
  <1>2. PICK j \in 1..Len(c.bySwapChain[Key(c, p)]) : c.bySwapChain[Key(c, p)][j] = p
    BY <1>1 DEF Waits, Contains
  <1>3. ASSUME NEW i \in 1..Len(c.delivered), c.delivered[i] = p PROVE FALSE
    <2>1. c.delivered[i] < c.bySwapChain[Key(c, p)][j]
      BY <1>1, <1>3 DEF Good, Order
    <2>. QED  BY <1>2, <1>3, <2>1
  <1>. QED  BY <1>3 DEF Out, Contains

\* What was published changes only where it is Mine, and comes to ride only there.
LEMMA LastingKept ==
    ASSUME NEW n \in Nat, NEW c, Lasting(c, n), NEW d,
           \A p \in 1..n : Rides(d, p) => Rides(c, p) \/ Mine(p),
           \A p \in 1..n : Waits(d, p) => Waits(c, p) \/ p \notin Published,
           \A p \in 1..n : d.presents[p] = c.presents[p] \/ Mine(p)
    PROVE  Lasting(d, n)
  BY DEF Lasting

\* A present that waits was not published.
LEMMA WaitsMine ==
    ASSUME NEW n \in Nat, NEW c, Lasting(c, n), NEW p \in 1..n, Waits(c, p)
    PROVE  p \notin Published /\ Mine(p)
  BY DEF Lasting, Mine

\* Who rides depends on what waits for DWM, the windows and the records.
LEMMA SameRides ==
    ASSUME NEW c, NEW d, d.waiting = c.waiting, d.window = c.window, d.presents = c.presents
    PROVE  \A p : Rides(d, p) <=> Rides(c, p)
  BY DEF Rides

\* Of a present that waits the record may become this.
May(e, f) ==
  /\ f.process = e.process /\ f.swap = e.swap /\ f.thread = e.thread /\ f.slot = e.slot
  /\ f.completed = e.completed /\ (f.completed => f.final # "Presented")
  /\ f.submit = e.submit \/ e.submit = None
  /\ f.token = e.token \/ e.token = None
  /\ f.context = e.context \/ e.context = None
  /\ f.blitToken = e.blitToken \/ e.blitToken = None
  /\ f.win32k = e.win32k \/ ~e.seenWin32K
  /\ e.seenWin32K => f.seenWin32K
  /\ e.mode # "Unknown" => f.mode # "Unknown"
  /\ \A q \in ToSet(f.deps) : q \in ToSet(e.deps) \/ Mine(q)
  /\ Staged(f)

\* The record of a present is all that changes.
LEMMA EditFrame ==
    ASSUME NEW n \in Nat, NEW c \in Consumers(n), NEW p \in 1..n, NEW f
    PROVE  LET d == [c EXCEPT !.presents[p] = f] IN
           /\ SameLinks(c, d) /\ SameRest(c, d) /\ d.delivered = c.delivered
           /\ d.bySwapChain = c.bySwapChain
           /\ d.presents[p] = f /\ \A q \in 1..n : q # p => d.presents[q] = c.presents[q]
  BY DEF Consumers, SameLinks, SameRest

\* Named depends on the links and the record.
LEMMA SameNamed ==
    ASSUME NEW c, NEW d, SameLinks(c, d), NEW p
    PROVE  /\ Unlinked(d, p) <=> Unlinked(c, p)
           /\ d.presents[p] = c.presents[p] => (Named(d, p) <=> Named(c, p))
  BY DEF SameLinks, Unlinked, Named

\* What may become of its record leaves a present under the keys it is found by.
LEMMA MayNamed ==
    ASSUME NEW c, NEW d, SameLinks(c, d), NEW p, May(c.presents[p], d.presents[p]), Named(c, p)
    PROVE  Named(d, p)
  <1>. DEFINE e == c.presents[p]
              f == d.presents[p]
  <1>1. None \notin SubmitSeqs /\ None \notin Tokens /\ None \notin Contexts /\ None \notin Hwnds
    BY TrackingAssumption
  <1>. QED  BY <1>1 DEF SameLinks, Named, May

\* The record of p becomes f, and all else that has a part in the invariant stays.
Edits(c, d, n, p, f) ==
  /\ Neat(d, n) /\ SameLinks(c, d) /\ SameRest(c, d)
  /\ d.presents[p] = f /\ \A q \in 1..n : q # p => d.presents[q] = c.presents[q]
  /\ \A q \in 1..n : (Waits(d, q) <=> Waits(c, q)) /\ (Open(d, q) <=> Open(c, q))

\* A present that waits may be edited.
LEMMA EditNeat ==
    ASSUME NEW n \in Nat, NEW c, Neat(c, n), NEW p \in 1..n, Waits(c, p),
           NEW f \in Presents(n), May(c.presents[p], f)
    PROVE  Edits(c, [c EXCEPT !.presents[p] = f], n, p, f)
  <1>1. PICK d : d = [c EXCEPT !.presents[p] = f]
    OBVIOUS
  <1>2. Good(c, n) /\ c \in Consumers(n)
    BY DEF Neat, Steady, Good
  <1>3. /\ SameLinks(c, d) /\ SameRest(c, d) /\ d.delivered = c.delivered
        /\ d.bySwapChain = c.bySwapChain
        /\ d.presents[p] = f /\ \A q \in 1..n : q # p => d.presents[q] = c.presents[q]
    BY <1>1, <1>2, EditFrame
  <1>4. Good(d, n)
    BY <1>1, <1>2, EditGood DEF May
  <1>5. SameQueues(c, d, n)
    BY <1>3 DEF SameQueues, Key, May
  <1>6. \A q \in 1..n : (Waits(d, q) <=> Waits(c, q)) /\ (Out(d, q) <=> Out(c, q))
    BY <1>5, SameWaits
  <1>7. \A q \in 1..n : /\ d.presents[q].slot = c.presents[q].slot
                        /\ d.presents[q].completed = c.presents[q].completed
    BY <1>3 DEF May
  <1>8. \A q \in 1..n : Open(d, q) <=> Open(c, q)
    BY <1>6, <1>7 DEF Open
  <1>9. Placed(d, n)
    BY <1>3, <1>6 DEF Neat, Steady, Placed, SameRest
  <1>10. Ringed(d, n)
    <2>1. \A s \in Slots : d.ring[s] = c.ring[s] /\ c.ring[s] \in 0..n
      BY <1>2, <1>3 DEF SameRest, Consumers
    <2>2. \A q \in 0..n : q # NoPresent => q \in 1..n
      BY DEF NoPresent
    <2>3. \A q \in 1..n : d.presents[q].slot \in Slots
      BY <1>4, PresentTyped DEF Presents, Records
    <2>. QED  BY <1>3, <1>6, <1>7, <2>1, <2>2, <2>3 DEF Neat, Steady, Ringed
  <1>11. Linked(d, n)
    <2>. SUFFICES ASSUME NEW q \in 1..n PROVE Named(d, q) /\ (Unlinked(d, q) \/ Open(d, q))
      BY DEF Linked
    <2>1. Named(c, q) /\ (Unlinked(c, q) \/ Open(c, q))
      BY DEF Neat, Steady, Linked
    <2>2. CASE q = p
      BY <1>3, <1>8, <2>1, <2>2, SameNamed, MayNamed
    <2>3. CASE q # p
      BY <1>3, <1>8, <2>1, <2>3, SameNamed
    <2>. QED  BY <2>2, <2>3
  <1>12. AllStaged(d, n)
    BY <1>3 DEF Neat, Steady, AllStaged, May
  <1>13. Asserted(d)
    BY <1>3 DEF Neat, Steady, Asserted, SameRest
  <1>14. Lasting(d, n)
    <2>1. Lasting(c, n) /\ Mine(p)
      BY WaitsMine DEF Neat, Steady
    <2>2. d.waiting = c.waiting /\ d.window = c.window /\ DOMAIN c.presents = 1..n
          /\ DOMAIN d.presents = 1..n
      BY <1>1, <1>2 DEF Consumers
    <2>3. \A q \in 1..n : Rides(d, q) => Rides(c, q) \/ Mine(q)
      BY <1>3, <2>2 DEF Rides, May
    <2>. QED  BY <1>3, <1>6, <2>1, <2>3, LastingKept
  <1>15. Told(d, n)
    BY <1>3, <1>6, <1>7 DEF Neat, Told, May
  <1>17. Neat(d, n)
    BY <1>4, <1>9, <1>10, <1>11, <1>12, <1>13, <1>14, <1>15 DEF Neat, Steady
  <1>. QED  BY <1>1, <1>3, <1>6, <1>8, <1>17 DEF Edits

-----------------------------------------------------------------------------
(* One field at a time.                                                    *)

Revised(n, e, f) ==
  f \in Records(n) /\ f.final = e.final /\ f.screen = e.screen /\ May(e, f)

\* What the assignments of the handlers make of the record of a present that waits:
\* each key is given once, and a history token comes after the mode is known.
LEMMA FieldRevised ==
    ASSUME NEW n \in Nat, NEW e \in Records(n), Staged(e), e.completed => e.final # "Presented"
    PROVE
      /\ \A v \in Runtimes : Revised(n, e, [e EXCEPT !.runtime = v])
      /\ \A v \in Modes : v # "Unknown" /\ (e.seenWin32K => v # "Legacy_Copy")
           /\ (v = "Legacy_Copy" => ~trace.simpleMode) =>
           Revised(n, e, [e EXCEPT !.mode = v])
      /\ \A v \in Hwnds \cup {None} : Revised(n, e, [e EXCEPT !.hwnd = v])
      /\ \A v \in Tokens \cup {None} : e.token = None /\ v # None /\ e.mode # "Unknown" =>
           Revised(n, e, [e EXCEPT !.token = v])
      /\ \A v \in Tokens \cup {None} : ~e.seenWin32K =>
           Revised(n, e, [e EXCEPT !.win32k = v])
      /\ \A v \in BOOLEAN : v /\ e.mode \notin {"Unknown", "Legacy_Copy"} =>
           Revised(n, e, [e EXCEPT !.seenWin32K = v])
      /\ \A v \in Tokens \cup {None} : e.blitToken = None /\ e.token # None =>
           Revised(n, e, [e EXCEPT !.blitToken = v])
      /\ \A v \in SubmitSeqs \cup {None} : e.submit = None /\ v # None =>
           Revised(n, e, [e EXCEPT !.submit = v])
      /\ \A v \in Contexts \cup {None} : e.context = None /\ e.submit # None =>
           Revised(n, e, [e EXCEPT !.context = v])
      /\ \A v \in Threads \cup {None} : Revised(n, e, [e EXCEPT !.batchThread = v])
      /\ \A v \in BOOLEAN : Revised(n, e, [e EXCEPT !.mmio = v])
      /\ \A v \in BOOLEAN : Revised(n, e, [e EXCEPT !.seenDxgk = v])
      /\ \A v \in BOOLEAN : Revised(n, e, [e EXCEPT !.lost = v])
      /\ \A v \in BOOLEAN : Revised(n, e, [e EXCEPT !.inDwmWaiting = v])
      /\ \A v \in Seq(1..n) : (\A q \in ToSet(v) : Mine(q)) =>
           Revised(n, e, [e EXCEPT !.deps = v])
  <1>1. ASSUME NEW v \in Runtimes
        PROVE  Revised(n, e, [e EXCEPT !.runtime = v])
    <2>1. PICK f : f = [e EXCEPT !.runtime = v]
      OBVIOUS
    <2>2. f \in Records(n)
      BY <2>1 DEF Records
    <2>3. f.final = e.final /\ f.screen = e.screen /\ f.completed = e.completed
      BY <2>1 DEF Records
    <2>4. May(e, f)
      BY <2>1 DEF May, Staged, Records
    <2>. QED  BY <2>1, <2>2, <2>3, <2>4 DEF Revised
  <1>2. ASSUME NEW v \in Modes, v # "Unknown" /\ (e.seenWin32K => v # "Legacy_Copy")
               /\ (v = "Legacy_Copy" => ~trace.simpleMode)
        PROVE  Revised(n, e, [e EXCEPT !.mode = v])
    <2>1. PICK f : f = [e EXCEPT !.mode = v]
      OBVIOUS
    <2>2. f \in Records(n)
      BY <2>1 DEF Records
    <2>3. f.final = e.final /\ f.screen = e.screen /\ f.completed = e.completed
      BY <2>1 DEF Records
    <2>4. May(e, f)
      BY <1>2, <2>1 DEF May, Staged, Records
    <2>. QED  BY <2>1, <2>2, <2>3, <2>4 DEF Revised
  <1>3. ASSUME NEW v \in Hwnds \cup {None}
        PROVE  Revised(n, e, [e EXCEPT !.hwnd = v])
    <2>1. PICK f : f = [e EXCEPT !.hwnd = v]
      OBVIOUS
    <2>2. f \in Records(n)
      BY <2>1 DEF Records
    <2>3. f.final = e.final /\ f.screen = e.screen /\ f.completed = e.completed
      BY <2>1 DEF Records
    <2>4. May(e, f)
      BY <2>1 DEF May, Staged, Records
    <2>. QED  BY <2>1, <2>2, <2>3, <2>4 DEF Revised
  <1>4. ASSUME NEW v \in Tokens \cup {None}, e.token = None /\ v # None /\ e.mode # "Unknown"
        PROVE  Revised(n, e, [e EXCEPT !.token = v])
    <2>1. PICK f : f = [e EXCEPT !.token = v]
      OBVIOUS
    <2>2. f \in Records(n)
      BY <2>1 DEF Records
    <2>3. f.final = e.final /\ f.screen = e.screen /\ f.completed = e.completed
      BY <2>1 DEF Records
    <2>4. May(e, f)
      BY <1>4, <2>1 DEF May, Staged, Records
    <2>. QED  BY <2>1, <2>2, <2>3, <2>4 DEF Revised
  <1>5. ASSUME NEW v \in Tokens \cup {None}, ~e.seenWin32K
        PROVE  Revised(n, e, [e EXCEPT !.win32k = v])
    <2>1. PICK f : f = [e EXCEPT !.win32k = v]
      OBVIOUS
    <2>2. f \in Records(n)
      BY <2>1 DEF Records
    <2>3. f.final = e.final /\ f.screen = e.screen /\ f.completed = e.completed
      BY <2>1 DEF Records
    <2>4. May(e, f)
      BY <1>5, <2>1 DEF May, Staged, Records
    <2>. QED  BY <2>1, <2>2, <2>3, <2>4 DEF Revised
  <1>6. ASSUME NEW v \in BOOLEAN, v /\ e.mode \notin {"Unknown", "Legacy_Copy"}
        PROVE  Revised(n, e, [e EXCEPT !.seenWin32K = v])
    <2>1. PICK f : f = [e EXCEPT !.seenWin32K = v]
      OBVIOUS
    <2>2. f \in Records(n)
      BY <2>1 DEF Records
    <2>3. f.final = e.final /\ f.screen = e.screen /\ f.completed = e.completed
      BY <2>1 DEF Records
    <2>4. May(e, f)
      BY <1>6, <2>1 DEF May, Staged, Records
    <2>. QED  BY <2>1, <2>2, <2>3, <2>4 DEF Revised
  <1>7. ASSUME NEW v \in Tokens \cup {None}, e.blitToken = None /\ e.token # None
        PROVE  Revised(n, e, [e EXCEPT !.blitToken = v])
    <2>1. PICK f : f = [e EXCEPT !.blitToken = v]
      OBVIOUS
    <2>2. f \in Records(n)
      BY <2>1 DEF Records
    <2>3. f.final = e.final /\ f.screen = e.screen /\ f.completed = e.completed
      BY <2>1 DEF Records
    <2>4. May(e, f)
      BY <1>7, <2>1 DEF May, Staged, Records
    <2>. QED  BY <2>1, <2>2, <2>3, <2>4 DEF Revised
  <1>8. ASSUME NEW v \in SubmitSeqs \cup {None}, e.submit = None /\ v # None
        PROVE  Revised(n, e, [e EXCEPT !.submit = v])
    <2>1. PICK f : f = [e EXCEPT !.submit = v]
      OBVIOUS
    <2>2. f \in Records(n)
      BY <2>1 DEF Records
    <2>3. f.final = e.final /\ f.screen = e.screen /\ f.completed = e.completed
      BY <2>1 DEF Records
    <2>4. May(e, f)
      BY <1>8, <2>1 DEF May, Staged, Records
    <2>. QED  BY <2>1, <2>2, <2>3, <2>4 DEF Revised
  <1>9. ASSUME NEW v \in Contexts \cup {None}, e.context = None /\ e.submit # None
        PROVE  Revised(n, e, [e EXCEPT !.context = v])
    <2>1. PICK f : f = [e EXCEPT !.context = v]
      OBVIOUS
    <2>2. f \in Records(n)
      BY <2>1 DEF Records
    <2>3. f.final = e.final /\ f.screen = e.screen /\ f.completed = e.completed
      BY <2>1 DEF Records
    <2>4. May(e, f)
      BY <1>9, <2>1 DEF May, Staged, Records
    <2>. QED  BY <2>1, <2>2, <2>3, <2>4 DEF Revised
  <1>10. ASSUME NEW v \in Threads \cup {None}
        PROVE  Revised(n, e, [e EXCEPT !.batchThread = v])
    <2>1. PICK f : f = [e EXCEPT !.batchThread = v]
      OBVIOUS
    <2>2. f \in Records(n)
      BY <2>1 DEF Records
    <2>3. f.final = e.final /\ f.screen = e.screen /\ f.completed = e.completed
      BY <2>1 DEF Records
    <2>4. May(e, f)
      BY <2>1 DEF May, Staged, Records
    <2>. QED  BY <2>1, <2>2, <2>3, <2>4 DEF Revised
  <1>11. ASSUME NEW v \in BOOLEAN
        PROVE  Revised(n, e, [e EXCEPT !.mmio = v])
    <2>1. PICK f : f = [e EXCEPT !.mmio = v]
      OBVIOUS
    <2>2. f \in Records(n)
      BY <2>1 DEF Records
    <2>3. f.final = e.final /\ f.screen = e.screen /\ f.completed = e.completed
      BY <2>1 DEF Records
    <2>4. May(e, f)
      BY <2>1 DEF May, Staged, Records
    <2>. QED  BY <2>1, <2>2, <2>3, <2>4 DEF Revised
  <1>12. ASSUME NEW v \in BOOLEAN
        PROVE  Revised(n, e, [e EXCEPT !.seenDxgk = v])
    <2>1. PICK f : f = [e EXCEPT !.seenDxgk = v]
      OBVIOUS
    <2>2. f \in Records(n)
      BY <2>1 DEF Records
    <2>3. f.final = e.final /\ f.screen = e.screen /\ f.completed = e.completed
      BY <2>1 DEF Records
    <2>4. May(e, f)
      BY <2>1 DEF May, Staged, Records
    <2>. QED  BY <2>1, <2>2, <2>3, <2>4 DEF Revised
  <1>13. ASSUME NEW v \in BOOLEAN
        PROVE  Revised(n, e, [e EXCEPT !.lost = v])
    <2>1. PICK f : f = [e EXCEPT !.lost = v]
      OBVIOUS
    <2>2. f \in Records(n)
      BY <2>1 DEF Records
    <2>3. f.final = e.final /\ f.screen = e.screen /\ f.completed = e.completed
      BY <2>1 DEF Records
    <2>4. May(e, f)
      BY <2>1 DEF May, Staged, Records
    <2>. QED  BY <2>1, <2>2, <2>3, <2>4 DEF Revised
  <1>14. ASSUME NEW v \in BOOLEAN
        PROVE  Revised(n, e, [e EXCEPT !.inDwmWaiting = v])
    <2>1. PICK f : f = [e EXCEPT !.inDwmWaiting = v]
      OBVIOUS
    <2>2. f \in Records(n)
      BY <2>1 DEF Records
    <2>3. f.final = e.final /\ f.screen = e.screen /\ f.completed = e.completed
      BY <2>1 DEF Records
    <2>4. May(e, f)
      BY <2>1 DEF May, Staged, Records
    <2>. QED  BY <2>1, <2>2, <2>3, <2>4 DEF Revised
  <1>15. ASSUME NEW v \in Seq(1..n), \A q \in ToSet(v) : Mine(q)
        PROVE  Revised(n, e, [e EXCEPT !.deps = v])
    <2>1. PICK f : f = [e EXCEPT !.deps = v]
      OBVIOUS
    <2>2. f \in Records(n)
      BY <2>1 DEF Records
    <2>3. f.final = e.final /\ f.screen = e.screen /\ f.completed = e.completed
      BY <2>1 DEF Records
    <2>4. May(e, f)
      BY <1>15, <2>1 DEF May, Staged, Records
    <2>. QED  BY <2>1, <2>2, <2>3, <2>4 DEF Revised
  <1>. QED  BY <1>1, <1>2, <1>3, <1>4, <1>5, <1>6, <1>7, <1>8, <1>9, <1>10, <1>11, <1>12, <1>13,
               <1>14, <1>15

\* An assignment that leaves the outcome of a waiting present alone keeps the invariant.
LEMMA RevisedNeat ==
    ASSUME NEW n \in Nat, NEW c, Neat(c, n), NEW p \in 1..n, Waits(c, p),
           NEW f, Revised(n, c.presents[p], f)
    PROVE  Edits(c, [c EXCEPT !.presents[p] = f], n, p, f)
  <1>1. c.presents[p] \in Presents(n)
    BY PresentTyped DEF Neat, Steady
  <1>2. f \in Presents(n)
    BY <1>1, OutcomeKept DEF Revised
  <1>. QED  BY <1>2, EditNeat DEF Revised

\* The result of a present that is not completed may be set, to displayed when it has its time.
LEMMA FinalRevised ==
    ASSUME NEW n \in Nat, NEW e \in Presents(n), Staged(e), e.completed => e.final # "Presented",
           NEW v \in Results, ~e.completed /\ (v = "Presented" /\ TimesAreTold => e.screen)
    PROVE  [e EXCEPT !.final = v] \in Presents(n) /\ May(e, [e EXCEPT !.final = v])
  <1>1. e \in Records(n) /\ (TimesAreTold /\ e.final = "Presented" => e.screen)
    BY PresentIsRecord
  <1>2. PICK f : f = [e EXCEPT !.final = v]
    OBVIOUS
  <1>3. f \in Records(n)
    BY <1>1, <1>2 DEF Records
  <1>4. f \in Presents(n)
    BY <1>1, <1>2, <1>3 DEF Presents, Records
  <1>5. May(e, f)
    BY <1>1, <1>2 DEF May, Staged, Records
  <1>. QED  BY <1>2, <1>4, <1>5

\* Its time may be set, and unset when it is not said to be displayed.
LEMMA ScreenRevised ==
    ASSUME NEW n \in Nat, NEW e \in Presents(n), Staged(e), e.completed => e.final # "Presented",
           NEW v \in BOOLEAN, v \/ ~TimesAreTold \/ e.final # "Presented"
    PROVE  [e EXCEPT !.screen = v] \in Presents(n) /\ May(e, [e EXCEPT !.screen = v])
  <1>1. e \in Records(n) /\ (TimesAreTold /\ e.final = "Presented" => e.screen)
    BY PresentIsRecord
  <1>2. PICK f : f = [e EXCEPT !.screen = v]
    OBVIOUS
  <1>3. f \in Records(n)
    BY <1>1, <1>2 DEF Records
  <1>4. f \in Presents(n)
    BY <1>1, <1>2, <1>3 DEF Presents, Records
  <1>5. May(e, f)
    BY <1>1, <1>2 DEF May, Staged, Records
  <1>. QED  BY <1>2, <1>4, <1>5

\* The assignments of the handlers to a present that waits.
LEMMA SetNeat ==
    ASSUME NEW n \in Nat, NEW c, Neat(c, n), NEW p \in 1..n, Waits(c, p),
           NEW e, e = c.presents[p]
    PROVE
      /\ \A v \in Runtimes : Edits(c, [c EXCEPT !.presents[p].runtime = v], n, p,
           [e EXCEPT !.runtime = v])
      /\ \A v \in Modes : v # "Unknown" /\ (e.seenWin32K => v # "Legacy_Copy")
           /\ (v = "Legacy_Copy" => ~trace.simpleMode) =>
           Edits(c, [c EXCEPT !.presents[p].mode = v], n, p, [e EXCEPT !.mode = v])
      /\ \A v \in Hwnds \cup {None} :
           Edits(c, [c EXCEPT !.presents[p].hwnd = v], n, p, [e EXCEPT !.hwnd = v])
      /\ \A v \in Tokens \cup {None} : e.token = None /\ v # None /\ e.mode # "Unknown" =>
           Edits(c, [c EXCEPT !.presents[p].token = v], n, p, [e EXCEPT !.token = v])
      /\ \A v \in Tokens \cup {None} : ~e.seenWin32K =>
           Edits(c, [c EXCEPT !.presents[p].win32k = v], n, p, [e EXCEPT !.win32k = v])
      /\ \A v \in BOOLEAN : v /\ e.mode \notin {"Unknown", "Legacy_Copy"} =>
           Edits(c, [c EXCEPT !.presents[p].seenWin32K = v], n, p, [e EXCEPT !.seenWin32K = v])
      /\ \A v \in Tokens \cup {None} : e.blitToken = None /\ e.token # None =>
           Edits(c, [c EXCEPT !.presents[p].blitToken = v], n, p, [e EXCEPT !.blitToken = v])
      /\ \A v \in SubmitSeqs \cup {None} : e.submit = None /\ v # None =>
           Edits(c, [c EXCEPT !.presents[p].submit = v], n, p, [e EXCEPT !.submit = v])
      /\ \A v \in Contexts \cup {None} : e.context = None /\ e.submit # None =>
           Edits(c, [c EXCEPT !.presents[p].context = v], n, p, [e EXCEPT !.context = v])
      /\ \A v \in Threads \cup {None} : Edits(c, [c EXCEPT !.presents[p].batchThread = v], n, p,
           [e EXCEPT !.batchThread = v])
      /\ \A v \in BOOLEAN : Edits(c, [c EXCEPT !.presents[p].mmio = v], n, p, [e EXCEPT !.mmio = v])
      /\ \A v \in BOOLEAN : Edits(c, [c EXCEPT !.presents[p].seenDxgk = v], n, p,
           [e EXCEPT !.seenDxgk = v])
      /\ \A v \in BOOLEAN : Edits(c, [c EXCEPT !.presents[p].lost = v], n, p, [e EXCEPT !.lost = v])
      /\ \A v \in BOOLEAN : Edits(c, [c EXCEPT !.presents[p].inDwmWaiting = v], n, p,
           [e EXCEPT !.inDwmWaiting = v])
      /\ \A v \in Seq(1..n) : (\A q \in ToSet(v) : Mine(q)) =>
           Edits(c, [c EXCEPT !.presents[p].deps = v], n, p, [e EXCEPT !.deps = v])
      /\ \A v \in Results : ~e.completed /\ (v = "Presented" /\ TimesAreTold => e.screen) =>
           Edits(c, [c EXCEPT !.presents[p].final = v], n, p, [e EXCEPT !.final = v])
      /\ \A v \in BOOLEAN : v \/ ~TimesAreTold \/ e.final # "Presented" =>
           Edits(c, [c EXCEPT !.presents[p].screen = v], n, p, [e EXCEPT !.screen = v])
  <1>1. e \in Presents(n) /\ e \in Records(n) /\ (TimesAreTold /\ e.final = "Presented" => e.screen)
    BY PresentTyped, PresentIsRecord DEF Neat, Steady
  <1>2. Staged(e) /\ (e.completed => e.final # "Presented")
    BY DEF Neat, Steady, AllStaged, Told
  <1>3. ASSUME NEW f, Revised(n, e, f)
        PROVE  Edits(c, [c EXCEPT !.presents[p] = f], n, p, f)
    BY <1>3, RevisedNeat
  <1>4. ASSUME NEW v \in Runtimes
        PROVE  Edits(c, [c EXCEPT !.presents[p].runtime = v], n, p, [e EXCEPT !.runtime = v])
    <2>1. PICK f : f = [e EXCEPT !.runtime = v]
      OBVIOUS
    <2>2. Revised(n, e, f)
      BY <1>1, <1>2, <2>1, FieldRevised
    <2>3. Edits(c, [c EXCEPT !.presents[p] = f], n, p, f)
      BY <1>3, <2>2
    <2>. QED  BY <2>1, <2>3
  <1>5. ASSUME NEW v \in Modes, v # "Unknown" /\ (e.seenWin32K => v # "Legacy_Copy")
               /\ (v = "Legacy_Copy" => ~trace.simpleMode)
        PROVE  Edits(c, [c EXCEPT !.presents[p].mode = v], n, p, [e EXCEPT !.mode = v])
    <2>1. PICK f : f = [e EXCEPT !.mode = v]
      OBVIOUS
    <2>2. Revised(n, e, f)
      BY <1>1, <1>2, <1>5, <2>1, FieldRevised
    <2>3. Edits(c, [c EXCEPT !.presents[p] = f], n, p, f)
      BY <1>3, <2>2
    <2>. QED  BY <2>1, <2>3
  <1>6. ASSUME NEW v \in Hwnds \cup {None}
        PROVE  Edits(c, [c EXCEPT !.presents[p].hwnd = v], n, p, [e EXCEPT !.hwnd = v])
    <2>1. PICK f : f = [e EXCEPT !.hwnd = v]
      OBVIOUS
    <2>2. Revised(n, e, f)
      BY <1>1, <1>2, <2>1, FieldRevised
    <2>3. Edits(c, [c EXCEPT !.presents[p] = f], n, p, f)
      BY <1>3, <2>2
    <2>. QED  BY <2>1, <2>3
  <1>7. ASSUME NEW v \in Tokens \cup {None}, e.token = None /\ v # None /\ e.mode # "Unknown"
        PROVE  Edits(c, [c EXCEPT !.presents[p].token = v], n, p, [e EXCEPT !.token = v])
    <2>1. PICK f : f = [e EXCEPT !.token = v]
      OBVIOUS
    <2>2. Revised(n, e, f)
      BY <1>1, <1>2, <1>7, <2>1, FieldRevised
    <2>3. Edits(c, [c EXCEPT !.presents[p] = f], n, p, f)
      BY <1>3, <2>2
    <2>. QED  BY <2>1, <2>3
  <1>8. ASSUME NEW v \in Tokens \cup {None}, ~e.seenWin32K
        PROVE  Edits(c, [c EXCEPT !.presents[p].win32k = v], n, p, [e EXCEPT !.win32k = v])
    <2>1. PICK f : f = [e EXCEPT !.win32k = v]
      OBVIOUS
    <2>2. Revised(n, e, f)
      BY <1>1, <1>2, <1>8, <2>1, FieldRevised
    <2>3. Edits(c, [c EXCEPT !.presents[p] = f], n, p, f)
      BY <1>3, <2>2
    <2>. QED  BY <2>1, <2>3
  <1>9. ASSUME NEW v \in BOOLEAN, v /\ e.mode \notin {"Unknown", "Legacy_Copy"}
        PROVE  Edits(c, [c EXCEPT !.presents[p].seenWin32K = v], n, p, [e EXCEPT !.seenWin32K = v])
    <2>1. PICK f : f = [e EXCEPT !.seenWin32K = v]
      OBVIOUS
    <2>2. Revised(n, e, f)
      BY <1>1, <1>2, <1>9, <2>1, FieldRevised
    <2>3. Edits(c, [c EXCEPT !.presents[p] = f], n, p, f)
      BY <1>3, <2>2
    <2>. QED  BY <2>1, <2>3
  <1>10. ASSUME NEW v \in Tokens \cup {None}, e.blitToken = None /\ e.token # None
        PROVE  Edits(c, [c EXCEPT !.presents[p].blitToken = v], n, p, [e EXCEPT !.blitToken = v])
    <2>1. PICK f : f = [e EXCEPT !.blitToken = v]
      OBVIOUS
    <2>2. Revised(n, e, f)
      BY <1>1, <1>2, <1>10, <2>1, FieldRevised
    <2>3. Edits(c, [c EXCEPT !.presents[p] = f], n, p, f)
      BY <1>3, <2>2
    <2>. QED  BY <2>1, <2>3
  <1>11. ASSUME NEW v \in SubmitSeqs \cup {None}, e.submit = None /\ v # None
        PROVE  Edits(c, [c EXCEPT !.presents[p].submit = v], n, p, [e EXCEPT !.submit = v])
    <2>1. PICK f : f = [e EXCEPT !.submit = v]
      OBVIOUS
    <2>2. Revised(n, e, f)
      BY <1>1, <1>2, <1>11, <2>1, FieldRevised
    <2>3. Edits(c, [c EXCEPT !.presents[p] = f], n, p, f)
      BY <1>3, <2>2
    <2>. QED  BY <2>1, <2>3
  <1>12. ASSUME NEW v \in Contexts \cup {None}, e.context = None /\ e.submit # None
        PROVE  Edits(c, [c EXCEPT !.presents[p].context = v], n, p, [e EXCEPT !.context = v])
    <2>1. PICK f : f = [e EXCEPT !.context = v]
      OBVIOUS
    <2>2. Revised(n, e, f)
      BY <1>1, <1>2, <1>12, <2>1, FieldRevised
    <2>3. Edits(c, [c EXCEPT !.presents[p] = f], n, p, f)
      BY <1>3, <2>2
    <2>. QED  BY <2>1, <2>3
  <1>13. ASSUME NEW v \in Threads \cup {None}
        PROVE  Edits(c, [c EXCEPT !.presents[p].batchThread = v], n, p,
               [e EXCEPT !.batchThread = v])
    <2>1. PICK f : f = [e EXCEPT !.batchThread = v]
      OBVIOUS
    <2>2. Revised(n, e, f)
      BY <1>1, <1>2, <2>1, FieldRevised
    <2>3. Edits(c, [c EXCEPT !.presents[p] = f], n, p, f)
      BY <1>3, <2>2
    <2>. QED  BY <2>1, <2>3
  <1>14. ASSUME NEW v \in BOOLEAN
        PROVE  Edits(c, [c EXCEPT !.presents[p].mmio = v], n, p, [e EXCEPT !.mmio = v])
    <2>1. PICK f : f = [e EXCEPT !.mmio = v]
      OBVIOUS
    <2>2. Revised(n, e, f)
      BY <1>1, <1>2, <2>1, FieldRevised
    <2>3. Edits(c, [c EXCEPT !.presents[p] = f], n, p, f)
      BY <1>3, <2>2
    <2>. QED  BY <2>1, <2>3
  <1>15. ASSUME NEW v \in BOOLEAN
        PROVE  Edits(c, [c EXCEPT !.presents[p].seenDxgk = v], n, p, [e EXCEPT !.seenDxgk = v])
    <2>1. PICK f : f = [e EXCEPT !.seenDxgk = v]
      OBVIOUS
    <2>2. Revised(n, e, f)
      BY <1>1, <1>2, <2>1, FieldRevised
    <2>3. Edits(c, [c EXCEPT !.presents[p] = f], n, p, f)
      BY <1>3, <2>2
    <2>. QED  BY <2>1, <2>3
  <1>16. ASSUME NEW v \in BOOLEAN
        PROVE  Edits(c, [c EXCEPT !.presents[p].lost = v], n, p, [e EXCEPT !.lost = v])
    <2>1. PICK f : f = [e EXCEPT !.lost = v]
      OBVIOUS
    <2>2. Revised(n, e, f)
      BY <1>1, <1>2, <2>1, FieldRevised
    <2>3. Edits(c, [c EXCEPT !.presents[p] = f], n, p, f)
      BY <1>3, <2>2
    <2>. QED  BY <2>1, <2>3
  <1>17. ASSUME NEW v \in BOOLEAN
        PROVE  Edits(c, [c EXCEPT !.presents[p].inDwmWaiting = v], n, p,
               [e EXCEPT !.inDwmWaiting = v])
    <2>1. PICK f : f = [e EXCEPT !.inDwmWaiting = v]
      OBVIOUS
    <2>2. Revised(n, e, f)
      BY <1>1, <1>2, <2>1, FieldRevised
    <2>3. Edits(c, [c EXCEPT !.presents[p] = f], n, p, f)
      BY <1>3, <2>2
    <2>. QED  BY <2>1, <2>3
  <1>18. ASSUME NEW v \in Seq(1..n), \A q \in ToSet(v) : Mine(q)
        PROVE  Edits(c, [c EXCEPT !.presents[p].deps = v], n, p, [e EXCEPT !.deps = v])
    <2>1. PICK f : f = [e EXCEPT !.deps = v]
      OBVIOUS
    <2>2. Revised(n, e, f)
      BY <1>1, <1>2, <1>18, <2>1, FieldRevised
    <2>3. Edits(c, [c EXCEPT !.presents[p] = f], n, p, f)
      BY <1>3, <2>2
    <2>. QED  BY <2>1, <2>3
  <1>19. ASSUME NEW v \in Results, ~e.completed /\ (v = "Presented" /\ TimesAreTold => e.screen)
        PROVE  Edits(c, [c EXCEPT !.presents[p].final = v], n, p, [e EXCEPT !.final = v])
    <2>1. PICK f : f = [e EXCEPT !.final = v]
      OBVIOUS
    <2>2. f \in Presents(n) /\ May(e, f)
      BY <1>1, <1>2, <1>19, <2>1, FinalRevised, ScreenRevised
    <2>3. Edits(c, [c EXCEPT !.presents[p] = f], n, p, f)
      BY <2>2, EditNeat
    <2>. QED  BY <2>1, <2>3
  <1>20. ASSUME NEW v \in BOOLEAN, v \/ ~TimesAreTold \/ e.final # "Presented"
        PROVE  Edits(c, [c EXCEPT !.presents[p].screen = v], n, p, [e EXCEPT !.screen = v])
    <2>1. PICK f : f = [e EXCEPT !.screen = v]
      OBVIOUS
    <2>2. f \in Presents(n) /\ May(e, f)
      BY <1>1, <1>2, <1>20, <2>1, FinalRevised, ScreenRevised
    <2>3. Edits(c, [c EXCEPT !.presents[p] = f], n, p, f)
      BY <2>2, EditNeat
    <2>. QED  BY <2>1, <2>3
  <1>. QED  BY <1>4, <1>5, <1>6, <1>7, <1>8, <1>9, <1>10, <1>11, <1>12, <1>13, <1>14, <1>15,
               <1>16, <1>17, <1>18, <1>19, <1>20

-----------------------------------------------------------------------------
(* One collection at a time.                                               *)

\* Only which of the collections find a present changes.
Relinks(c, d, n) ==
  /\ Neat(d, n) /\ d.presents = c.presents /\ SameRest(c, d)
  /\ d.bySwapChain = c.bySwapChain /\ d.delivered = c.delivered
  /\ \A q \in 1..n : (Waits(d, q) <=> Waits(c, q)) /\ (Open(d, q) <=> Open(c, q))

SameAside(c, d) ==
  /\ d.presents = c.presents /\ d.bySwapChain = c.bySwapChain /\ d.delivered = c.delivered
  /\ d.ring = c.ring /\ d.next = c.next /\ d.lost = c.lost /\ d.failed = c.failed

\* The collections may find any present that is open under its own keys.
LEMMA RelinkNeat ==
    ASSUME NEW n \in Nat, NEW c, Neat(c, n), NEW d \in Consumers(n), SameAside(c, d),
           \A q \in 1..n : Rides(d, q) => Rides(c, q) \/ Mine(q),
           \A q \in 1..n : Named(d, q) /\ (Unlinked(d, q) \/ Open(c, q))
    PROVE  /\ Neat(d, n)
           /\ \A q \in 1..n : (Waits(d, q) <=> Waits(c, q)) /\ (Open(d, q) <=> Open(c, q))
  <1>1. \A q : /\ Waits(d, q) <=> Waits(c, q)
               /\ Open(d, q) <=> Open(c, q)
               /\ Out(d, q) <=> Out(c, q)
               /\ Key(d, q) = Key(c, q)
    BY DEF SameAside, Waits, Deque, Key, Out, Open
  <1>2. Good(d, n)
    <2>1. SameQueues(c, d, n)
      BY <1>1 DEF SameAside, SameQueues
    <2>. QED  BY <2>1, OrderKept DEF Neat, Steady
  <1>3. Placed(d, n) /\ Ringed(d, n) /\ Told(d, n)
    BY <1>1 DEF Neat, Steady, Placed, Ringed, Told, SameAside
  <1>4. Linked(d, n)
    BY <1>1 DEF Linked
  <1>5. AllStaged(d, n) /\ Asserted(d)
    BY DEF Neat, Steady, AllStaged, Asserted, SameAside
  <1>6. Lasting(d, n)
    BY <1>1, LastingKept DEF Neat, Steady, SameAside
  <1>. QED  BY <1>1, <1>2, <1>3, <1>4, <1>5, <1>6 DEF Neat, Steady

\* The assignments of the handlers to the collections.
LEMMA LinkNeat ==
    ASSUME NEW n \in Nat, NEW c, Neat(c, n), NEW v \in 0..n, v # NoPresent => Open(c, v)
    PROVE
      /\ \A k \in Threads : (v # NoPresent => c.presents[v].thread = k)
           => Relinks(c, [c EXCEPT !.byThread[k] = v], n)
      /\ \A k \in SubmitSeqs : (v # NoPresent => c.presents[v].submit = k)
           => Relinks(c, [c EXCEPT !.bySubmit[k] = v], n)
      /\ \A k \in Tokens : (v # NoPresent => c.presents[v].win32k = k /\ c.presents[v].seenWin32K)
           => Relinks(c, [c EXCEPT !.win32k[k] = v], n)
      /\ \A k \in Tokens : (v # NoPresent => c.presents[v].token = k)
           => Relinks(c, [c EXCEPT !.dxgk[k] = v], n)
      /\ \A k \in Contexts : (v # NoPresent => c.presents[v].context = k)
           => Relinks(c, [c EXCEPT !.blits[k] = v], n)
      /\ \A k \in Tokens : (v # NoPresent => c.presents[v].blitToken = k)
           => Relinks(c, [c EXCEPT !.legacyBlit[k] = v], n)
      /\ \A k \in Hwnds : Relinks(c, [c EXCEPT !.window[k] = v], n)
      /\ \A s \in SUBSET c.byProcess : Relinks(c, [c EXCEPT !.byProcess = s], n)
  <1>. USE DEF NoPresent
  <1>1. Good(c, n) /\ c \in Consumers(n)
    BY DEF Neat, Steady, Good
  <1>2. \A q \in 1..n : Named(c, q) /\ (Unlinked(c, q) \/ Open(c, q))
    BY DEF Neat, Steady, Linked
  <1>3. ASSUME NEW k \in Threads, v # NoPresent => c.presents[v].thread = k
        PROVE  Relinks(c, [c EXCEPT !.byThread[k] = v], n)
    <2>1. PICK d : d = [c EXCEPT !.byThread[k] = v]
      OBVIOUS
    <2>2. d \in Consumers(n)
      BY <1>1, <2>1, SetCollection DEF Good
    <2>3. SameAside(c, d) /\ SameRest(c, d)
      BY <1>1, <2>1 DEF Consumers, SameAside, SameRest
    <2>4. d.bySubmit = c.bySubmit /\ d.win32k = c.win32k /\ d.dxgk = c.dxgk /\ d.blits = c.blits
          /\ d.legacyBlit = c.legacyBlit /\ d.window = c.window /\ d.byProcess = c.byProcess
      BY <1>1, <2>1 DEF Consumers
    <2>5. \A j \in Threads : d.byThread[j] = IF j = k THEN v ELSE c.byThread[j]
      BY <1>1, <2>1 DEF Consumers
    <2>6. ASSUME NEW q \in 1..n PROVE Named(d, q) /\ (Unlinked(d, q) \/ Open(c, q))
      <3>1. Named(d, q)
        BY <1>2, <1>3, <2>3, <2>4, <2>5 DEF Named, SameAside
      <3>2. q # v /\ Unlinked(c, q) => Unlinked(d, q)
        BY <2>4, <2>5 DEF Unlinked
      <3>. QED  BY <1>2, <3>1, <3>2
    <2>7. d.waiting = c.waiting
      BY <1>1, <2>1 DEF Consumers
    <2>8. Neat(d, n) /\ \A q \in 1..n : (Waits(d, q) <=> Waits(c, q)) /\ (Open(d, q) <=> Open(c, q))
      BY <2>2, <2>3, <2>4, <2>6, <2>7, RelinkNeat, SameRides DEF SameAside
    <2>. QED  BY <2>1, <2>3, <2>8 DEF Relinks, SameAside
  <1>4. ASSUME NEW k \in SubmitSeqs, v # NoPresent => c.presents[v].submit = k
        PROVE  Relinks(c, [c EXCEPT !.bySubmit[k] = v], n)
    <2>1. PICK d : d = [c EXCEPT !.bySubmit[k] = v]
      OBVIOUS
    <2>2. d \in Consumers(n)
      BY <1>1, <2>1, SetCollection DEF Good
    <2>3. SameAside(c, d) /\ SameRest(c, d)
      BY <1>1, <2>1 DEF Consumers, SameAside, SameRest
    <2>4. d.byThread = c.byThread /\ d.win32k = c.win32k /\ d.dxgk = c.dxgk /\ d.blits = c.blits
          /\ d.legacyBlit = c.legacyBlit /\ d.window = c.window /\ d.byProcess = c.byProcess
      BY <1>1, <2>1 DEF Consumers
    <2>5. \A j \in SubmitSeqs : d.bySubmit[j] = IF j = k THEN v ELSE c.bySubmit[j]
      BY <1>1, <2>1 DEF Consumers
    <2>6. ASSUME NEW q \in 1..n PROVE Named(d, q) /\ (Unlinked(d, q) \/ Open(c, q))
      <3>1. Named(d, q)
        BY <1>2, <1>4, <2>3, <2>4, <2>5 DEF Named, SameAside
      <3>2. q # v /\ Unlinked(c, q) => Unlinked(d, q)
        BY <2>4, <2>5 DEF Unlinked
      <3>. QED  BY <1>2, <3>1, <3>2
    <2>7. d.waiting = c.waiting
      BY <1>1, <2>1 DEF Consumers
    <2>8. Neat(d, n) /\ \A q \in 1..n : (Waits(d, q) <=> Waits(c, q)) /\ (Open(d, q) <=> Open(c, q))
      BY <2>2, <2>3, <2>4, <2>6, <2>7, RelinkNeat, SameRides DEF SameAside
    <2>. QED  BY <2>1, <2>3, <2>8 DEF Relinks, SameAside
  <1>5. ASSUME NEW k \in Tokens, v # NoPresent => c.presents[v].win32k = k
               /\ c.presents[v].seenWin32K
        PROVE  Relinks(c, [c EXCEPT !.win32k[k] = v], n)
    <2>1. PICK d : d = [c EXCEPT !.win32k[k] = v]
      OBVIOUS
    <2>2. d \in Consumers(n)
      BY <1>1, <2>1, SetCollection DEF Good
    <2>3. SameAside(c, d) /\ SameRest(c, d)
      BY <1>1, <2>1 DEF Consumers, SameAside, SameRest
    <2>4. d.byThread = c.byThread /\ d.bySubmit = c.bySubmit /\ d.dxgk = c.dxgk
          /\ d.blits = c.blits /\ d.legacyBlit = c.legacyBlit /\ d.window = c.window
          /\ d.byProcess = c.byProcess
      BY <1>1, <2>1 DEF Consumers
    <2>5. \A j \in Tokens : d.win32k[j] = IF j = k THEN v ELSE c.win32k[j]
      BY <1>1, <2>1 DEF Consumers
    <2>6. ASSUME NEW q \in 1..n PROVE Named(d, q) /\ (Unlinked(d, q) \/ Open(c, q))
      <3>1. Named(d, q)
        BY <1>2, <1>5, <2>3, <2>4, <2>5 DEF Named, SameAside
      <3>2. q # v /\ Unlinked(c, q) => Unlinked(d, q)
        BY <2>4, <2>5 DEF Unlinked
      <3>. QED  BY <1>2, <3>1, <3>2
    <2>7. d.waiting = c.waiting
      BY <1>1, <2>1 DEF Consumers
    <2>8. Neat(d, n) /\ \A q \in 1..n : (Waits(d, q) <=> Waits(c, q)) /\ (Open(d, q) <=> Open(c, q))
      BY <2>2, <2>3, <2>4, <2>6, <2>7, RelinkNeat, SameRides DEF SameAside
    <2>. QED  BY <2>1, <2>3, <2>8 DEF Relinks, SameAside
  <1>6. ASSUME NEW k \in Tokens, v # NoPresent => c.presents[v].token = k
        PROVE  Relinks(c, [c EXCEPT !.dxgk[k] = v], n)
    <2>1. PICK d : d = [c EXCEPT !.dxgk[k] = v]
      OBVIOUS
    <2>2. d \in Consumers(n)
      BY <1>1, <2>1, SetCollection DEF Good
    <2>3. SameAside(c, d) /\ SameRest(c, d)
      BY <1>1, <2>1 DEF Consumers, SameAside, SameRest
    <2>4. d.byThread = c.byThread /\ d.bySubmit = c.bySubmit /\ d.win32k = c.win32k
          /\ d.blits = c.blits /\ d.legacyBlit = c.legacyBlit /\ d.window = c.window
          /\ d.byProcess = c.byProcess
      BY <1>1, <2>1 DEF Consumers
    <2>5. \A j \in Tokens : d.dxgk[j] = IF j = k THEN v ELSE c.dxgk[j]
      BY <1>1, <2>1 DEF Consumers
    <2>6. ASSUME NEW q \in 1..n PROVE Named(d, q) /\ (Unlinked(d, q) \/ Open(c, q))
      <3>1. Named(d, q)
        BY <1>2, <1>6, <2>3, <2>4, <2>5 DEF Named, SameAside
      <3>2. q # v /\ Unlinked(c, q) => Unlinked(d, q)
        BY <2>4, <2>5 DEF Unlinked
      <3>. QED  BY <1>2, <3>1, <3>2
    <2>7. d.waiting = c.waiting
      BY <1>1, <2>1 DEF Consumers
    <2>8. Neat(d, n) /\ \A q \in 1..n : (Waits(d, q) <=> Waits(c, q)) /\ (Open(d, q) <=> Open(c, q))
      BY <2>2, <2>3, <2>4, <2>6, <2>7, RelinkNeat, SameRides DEF SameAside
    <2>. QED  BY <2>1, <2>3, <2>8 DEF Relinks, SameAside
  <1>7. ASSUME NEW k \in Contexts, v # NoPresent => c.presents[v].context = k
        PROVE  Relinks(c, [c EXCEPT !.blits[k] = v], n)
    <2>1. PICK d : d = [c EXCEPT !.blits[k] = v]
      OBVIOUS
    <2>2. d \in Consumers(n)
      BY <1>1, <2>1, SetCollection DEF Good
    <2>3. SameAside(c, d) /\ SameRest(c, d)
      BY <1>1, <2>1 DEF Consumers, SameAside, SameRest
    <2>4. d.byThread = c.byThread /\ d.bySubmit = c.bySubmit /\ d.win32k = c.win32k
          /\ d.dxgk = c.dxgk /\ d.legacyBlit = c.legacyBlit /\ d.window = c.window
          /\ d.byProcess = c.byProcess
      BY <1>1, <2>1 DEF Consumers
    <2>5. \A j \in Contexts : d.blits[j] = IF j = k THEN v ELSE c.blits[j]
      BY <1>1, <2>1 DEF Consumers
    <2>6. ASSUME NEW q \in 1..n PROVE Named(d, q) /\ (Unlinked(d, q) \/ Open(c, q))
      <3>1. Named(d, q)
        BY <1>2, <1>7, <2>3, <2>4, <2>5 DEF Named, SameAside
      <3>2. q # v /\ Unlinked(c, q) => Unlinked(d, q)
        BY <2>4, <2>5 DEF Unlinked
      <3>. QED  BY <1>2, <3>1, <3>2
    <2>7. d.waiting = c.waiting
      BY <1>1, <2>1 DEF Consumers
    <2>8. Neat(d, n) /\ \A q \in 1..n : (Waits(d, q) <=> Waits(c, q)) /\ (Open(d, q) <=> Open(c, q))
      BY <2>2, <2>3, <2>4, <2>6, <2>7, RelinkNeat, SameRides DEF SameAside
    <2>. QED  BY <2>1, <2>3, <2>8 DEF Relinks, SameAside
  <1>8. ASSUME NEW k \in Tokens, v # NoPresent => c.presents[v].blitToken = k
        PROVE  Relinks(c, [c EXCEPT !.legacyBlit[k] = v], n)
    <2>1. PICK d : d = [c EXCEPT !.legacyBlit[k] = v]
      OBVIOUS
    <2>2. d \in Consumers(n)
      BY <1>1, <2>1, SetCollection DEF Good
    <2>3. SameAside(c, d) /\ SameRest(c, d)
      BY <1>1, <2>1 DEF Consumers, SameAside, SameRest
    <2>4. d.byThread = c.byThread /\ d.bySubmit = c.bySubmit /\ d.win32k = c.win32k
          /\ d.dxgk = c.dxgk /\ d.blits = c.blits /\ d.window = c.window
          /\ d.byProcess = c.byProcess
      BY <1>1, <2>1 DEF Consumers
    <2>5. \A j \in Tokens : d.legacyBlit[j] = IF j = k THEN v ELSE c.legacyBlit[j]
      BY <1>1, <2>1 DEF Consumers
    <2>6. ASSUME NEW q \in 1..n PROVE Named(d, q) /\ (Unlinked(d, q) \/ Open(c, q))
      <3>1. Named(d, q)
        BY <1>2, <1>8, <2>3, <2>4, <2>5 DEF Named, SameAside
      <3>2. q # v /\ Unlinked(c, q) => Unlinked(d, q)
        BY <2>4, <2>5 DEF Unlinked
      <3>. QED  BY <1>2, <3>1, <3>2
    <2>7. d.waiting = c.waiting
      BY <1>1, <2>1 DEF Consumers
    <2>8. Neat(d, n) /\ \A q \in 1..n : (Waits(d, q) <=> Waits(c, q)) /\ (Open(d, q) <=> Open(c, q))
      BY <2>2, <2>3, <2>4, <2>6, <2>7, RelinkNeat, SameRides DEF SameAside
    <2>. QED  BY <2>1, <2>3, <2>8 DEF Relinks, SameAside
  <1>9. ASSUME NEW k \in Hwnds
        PROVE  Relinks(c, [c EXCEPT !.window[k] = v], n)
    <2>1. PICK d : d = [c EXCEPT !.window[k] = v]
      OBVIOUS
    <2>2. d \in Consumers(n)
      BY <1>1, <2>1, SetCollection DEF Good
    <2>3. SameAside(c, d) /\ SameRest(c, d)
      BY <1>1, <2>1 DEF Consumers, SameAside, SameRest
    <2>4. d.byThread = c.byThread /\ d.bySubmit = c.bySubmit /\ d.win32k = c.win32k
          /\ d.dxgk = c.dxgk /\ d.blits = c.blits /\ d.legacyBlit = c.legacyBlit
          /\ d.byProcess = c.byProcess
      BY <1>1, <2>1 DEF Consumers
    <2>5. \A j \in Hwnds : d.window[j] = IF j = k THEN v ELSE c.window[j]
      BY <1>1, <2>1 DEF Consumers
    <2>6. ASSUME NEW q \in 1..n PROVE Named(d, q) /\ (Unlinked(d, q) \/ Open(c, q))
      <3>1. Named(d, q)
        BY <1>2, <2>3, <2>4, <2>5 DEF Named, SameAside
      <3>2. q # v /\ Unlinked(c, q) => Unlinked(d, q)
        BY <2>4 DEF Unlinked
      <3>. QED  BY <1>2, <3>1, <3>2
    <2>7. ASSUME NEW q \in 1..n, Rides(d, q) PROVE Rides(c, q) \/ Mine(q)
      <3>1. d.waiting = c.waiting
        BY <1>1, <2>1 DEF Consumers
      <3>2. v = q => Mine(q)
        BY WaitsMine DEF Neat, Steady, Open
      <3>. QED  BY <2>3, <2>5, <2>7, <3>1, <3>2 DEF Rides, SameAside
    <2>8. Neat(d, n) /\ \A q \in 1..n : (Waits(d, q) <=> Waits(c, q)) /\ (Open(d, q) <=> Open(c, q))
      BY <2>2, <2>3, <2>6, <2>7, RelinkNeat
    <2>. QED  BY <2>1, <2>3, <2>8 DEF Relinks, SameAside
  <1>10. ASSUME NEW s \in SUBSET c.byProcess
         PROVE  Relinks(c, [c EXCEPT !.byProcess = s], n)
    <2>1. PICK d : d = [c EXCEPT !.byProcess = s]
      OBVIOUS
    <2>2. d \in Consumers(n)
      BY <1>1, <2>1 DEF Consumers
    <2>3. SameAside(c, d) /\ SameRest(c, d) /\ d.byProcess = s
      BY <1>1, <2>1 DEF Consumers, SameAside, SameRest
    <2>4. d.byThread = c.byThread /\ d.bySubmit = c.bySubmit /\ d.win32k = c.win32k
          /\ d.dxgk = c.dxgk /\ d.blits = c.blits /\ d.legacyBlit = c.legacyBlit
          /\ d.window = c.window
      BY <1>1, <2>1 DEF Consumers
    <2>5. \A q \in 1..n : Named(d, q) /\ (Unlinked(d, q) \/ Open(c, q))
      BY <1>2, <2>3, <2>4 DEF Named, Unlinked, SameAside
    <2>6. d.waiting = c.waiting
      BY <1>1, <2>1 DEF Consumers
    <2>7. Neat(d, n) /\ \A q \in 1..n : (Waits(d, q) <=> Waits(c, q)) /\ (Open(d, q) <=> Open(c, q))
      BY <2>2, <2>3, <2>4, <2>5, <2>6, RelinkNeat, SameRides DEF SameAside
    <2>. QED  BY <2>1, <2>3, <2>7 DEF Relinks, SameAside
  <1>. QED  BY <1>3, <1>4, <1>5, <1>6, <1>7, <1>8, <1>9, <1>10

\* The rest has no part in it.
LEMMA OtherNeat ==
    ASSUME NEW n \in Nat, NEW c, Neat(c, n)
    PROVE
      /\ \A v \in Seq(1..n) : (\A q \in ToSet(v) : Mine(q))
           => Relinks(c, [c EXCEPT !.waiting = v], n)
      /\ Relinks(c, [c EXCEPT !.window = EmptyMap(Hwnds)], n)
      /\ \A v \in Processes \cup {None} : Neat([c EXCEPT !.dwmProcess = v], n)
      /\ \A v \in Threads \cup {None} : Neat([c EXCEPT !.dwmThread = v], n)
  <1>1. Good(c, n) /\ c \in Consumers(n)
    BY DEF Neat, Steady, Good
  <1>2. \A q \in 1..n : Named(c, q) /\ (Unlinked(c, q) \/ Open(c, q))
    BY DEF Neat, Steady, Linked
  <1>3. ASSUME NEW v \in Seq(1..n), \A q \in ToSet(v) : Mine(q)
        PROVE  Relinks(c, [c EXCEPT !.waiting = v], n)
    <2>1. PICK d : d = [c EXCEPT !.waiting = v]
      OBVIOUS
    <2>2. d \in Consumers(n)
      BY <1>1, <2>1, SetOther DEF Good
    <2>3. SameAside(c, d) /\ SameRest(c, d)
      BY <1>1, <2>1 DEF Consumers, SameAside, SameRest
    <2>4. d.byThread = c.byThread /\ d.bySubmit = c.bySubmit /\ d.win32k = c.win32k
          /\ d.dxgk = c.dxgk /\ d.blits = c.blits /\ d.legacyBlit = c.legacyBlit
          /\ d.window = c.window /\ d.byProcess = c.byProcess /\ d.waiting = v
      BY <1>1, <2>1 DEF Consumers
    <2>5. \A q \in 1..n : Named(d, q) /\ (Unlinked(d, q) \/ Open(c, q))
      BY <1>2, <2>3, <2>4 DEF Named, Unlinked, SameAside, NoPresent
    <2>6. \A q \in 1..n : Rides(d, q) => Rides(c, q) \/ Mine(q)
      BY <1>3, <2>3, <2>4 DEF Rides, SameAside
    <2>7. Neat(d, n) /\ \A q \in 1..n : (Waits(d, q) <=> Waits(c, q)) /\ (Open(d, q) <=> Open(c, q))
      BY <2>2, <2>3, <2>5, <2>6, RelinkNeat
    <2>. QED  BY <2>1, <2>3, <2>7 DEF Relinks, SameAside
  <1>4. Relinks(c, [c EXCEPT !.window = EmptyMap(Hwnds)], n)
    <2>. DEFINE v == EmptyMap(Hwnds)
    <2>1. PICK d : d = [c EXCEPT !.window = v]
      OBVIOUS
    <2>8. v \in [Hwnds -> 0..n]
      BY DEF EmptyMap, NoPresent
    <2>2. d \in Consumers(n)
      BY <2>8, <1>1, <2>1, SetOther DEF Good
    <2>3. SameAside(c, d) /\ SameRest(c, d)
      BY <1>1, <2>1 DEF Consumers, SameAside, SameRest
    <2>4. d.byThread = c.byThread /\ d.bySubmit = c.bySubmit /\ d.win32k = c.win32k
          /\ d.dxgk = c.dxgk /\ d.blits = c.blits /\ d.legacyBlit = c.legacyBlit
          /\ d.byProcess = c.byProcess /\ d.window = v
      BY <1>1, <2>1 DEF Consumers
    <2>5. \A q \in 1..n : Named(d, q) /\ (Unlinked(d, q) \/ Open(c, q))
      BY <1>2, <2>3, <2>4 DEF Named, Unlinked, SameAside, NoPresent
    <2>6. \A q \in 1..n : Rides(d, q) => Rides(c, q) \/ Mine(q)
      <3>1. d.waiting = c.waiting
        BY <1>1, <2>1 DEF Consumers
      <3>. QED  BY <2>3, <2>4, <3>1 DEF Rides, SameAside, EmptyMap, NoPresent
    <2>7. Neat(d, n) /\ \A q \in 1..n : (Waits(d, q) <=> Waits(c, q)) /\ (Open(d, q) <=> Open(c, q))
      BY <2>2, <2>3, <2>5, <2>6, RelinkNeat
    <2>. QED  BY <2>1, <2>3, <2>7 DEF Relinks, SameAside
  <1>5. ASSUME NEW v \in Processes \cup {None}
        PROVE  Neat([c EXCEPT !.dwmProcess = v], n)
    <2>1. PICK d : d = [c EXCEPT !.dwmProcess = v]
      OBVIOUS
    <2>2. d \in Consumers(n)
      BY <1>1, <2>1, SetOther DEF Good
    <2>3. SameAside(c, d)
      BY <1>1, <2>1 DEF Consumers, SameAside, SameRest
    <2>4. d.byThread = c.byThread /\ d.bySubmit = c.bySubmit /\ d.win32k = c.win32k
          /\ d.dxgk = c.dxgk /\ d.blits = c.blits /\ d.legacyBlit = c.legacyBlit
          /\ d.window = c.window /\ d.byProcess = c.byProcess /\ d.dwmProcess = v
      BY <1>1, <2>1 DEF Consumers
    <2>5. \A q \in 1..n : Named(d, q) /\ (Unlinked(d, q) \/ Open(c, q))
      BY <1>2, <2>3, <2>4 DEF Named, Unlinked, SameAside, NoPresent
    <2>6. d.waiting = c.waiting
      BY <1>1, <2>1 DEF Consumers
    <2>7. Neat(d, n) /\ \A q \in 1..n : (Waits(d, q) <=> Waits(c, q)) /\ (Open(d, q) <=> Open(c, q))
      BY <2>2, <2>3, <2>4, <2>5, <2>6, RelinkNeat, SameRides DEF SameAside
    <2>. QED  BY <2>1, <2>7
  <1>6. ASSUME NEW v \in Threads \cup {None}
        PROVE  Neat([c EXCEPT !.dwmThread = v], n)
    <2>1. PICK d : d = [c EXCEPT !.dwmThread = v]
      OBVIOUS
    <2>2. d \in Consumers(n)
      BY <1>1, <2>1, SetOther DEF Good
    <2>3. SameAside(c, d)
      BY <1>1, <2>1 DEF Consumers, SameAside, SameRest
    <2>4. d.byThread = c.byThread /\ d.bySubmit = c.bySubmit /\ d.win32k = c.win32k
          /\ d.dxgk = c.dxgk /\ d.blits = c.blits /\ d.legacyBlit = c.legacyBlit
          /\ d.window = c.window /\ d.byProcess = c.byProcess /\ d.dwmThread = v
      BY <1>1, <2>1 DEF Consumers
    <2>5. \A q \in 1..n : Named(d, q) /\ (Unlinked(d, q) \/ Open(c, q))
      BY <1>2, <2>3, <2>4 DEF Named, Unlinked, SameAside, NoPresent
    <2>6. d.waiting = c.waiting
      BY <1>1, <2>1 DEF Consumers
    <2>7. Neat(d, n) /\ \A q \in 1..n : (Waits(d, q) <=> Waits(c, q)) /\ (Open(d, q) <=> Open(c, q))
      BY <2>2, <2>3, <2>4, <2>5, <2>6, RelinkNeat, SameRides DEF SameAside
    <2>. QED  BY <2>1, <2>7
  <1>. QED  BY <1>3, <1>4, <1>5, <1>6

\* The asserts that may fail leave their lines.
LEMMA AssertNeat ==
    ASSUME NEW n \in Nat, NEW c, Neat(c, n), NEW line \in Nat, line \in {313, 1441, 1577}, NEW holds
    PROVE  Neat(Assert_(c, line, holds), n)
  <1>1. Good(c, n) /\ c \in Consumers(n)
    BY DEF Neat, Steady, Good
  <1>2. \A q \in 1..n : Named(c, q) /\ (Unlinked(c, q) \/ Open(c, q))
    BY DEF Neat, Steady, Linked
  <1>3. CASE holds
    BY <1>3 DEF Assert_
  <1>4. CASE ~holds
    <2>1. PICK d : d = Assert_(c, line, holds)
      OBVIOUS
    <2>2. d = [c EXCEPT !.failed = c.failed \cup {line}]
      BY <1>4, <2>1 DEF Assert_
    <2>3. Good(d, n)
      BY <1>1, <2>1, AssertGood
    <2>4. /\ d.presents = c.presents /\ d.bySwapChain = c.bySwapChain /\ d.delivered = c.delivered
          /\ d.ring = c.ring /\ d.lost = c.lost /\ d.waiting = c.waiting /\ SameLinks(c, d)
          /\ d.failed = c.failed \cup {line}
      BY <1>1, <2>2 DEF Consumers, SameLinks
    <2>5. \A q : /\ Waits(d, q) <=> Waits(c, q)
                 /\ Open(d, q) <=> Open(c, q)
                 /\ Out(d, q) <=> Out(c, q)
                 /\ Key(d, q) = Key(c, q)
      BY <2>4 DEF Waits, Deque, Key, Out, Open
    <2>6. Placed(d, n) /\ Ringed(d, n) /\ Told(d, n) /\ AllStaged(d, n)
      BY <2>4, <2>5 DEF Neat, Steady, Placed, Ringed, Told, AllStaged
    <2>7. Linked(d, n)
      BY <1>2, <2>4, <2>5, SameNamed DEF Linked
    <2>8. Lasting(d, n)
      BY <2>4, <2>5, SameRides, LastingKept DEF Neat, Steady, SameLinks
    <2>9. Asserted(d)
      BY <2>4 DEF Neat, Steady, Asserted
    <2>. QED  BY <2>1, <2>3, <2>6, <2>7, <2>8, <2>9 DEF Neat, Steady
  <1>. QED  BY <1>3, <1>4

-----------------------------------------------------------------------------
(* What the removal of one present and the delivery do to the queues.      *)

\* The numbers up to the first that is not in a set.
LEMMA ReadyPrefix ==
    ASSUME NEW L \in Nat, NEW D
    PROVE  LET R == {i \in 1..L : \A j \in 1..i : j \in D}
           IN Cardinality(R) \in 0..L /\ R = 1..Cardinality(R)
  <1>. DEFINE R == {i \in 1..L : \A j \in 1..i : j \in D}
              T == 1..L + 1 \ R
  <1>1. L + 1 \in T /\ T \in SUBSET Nat
    OBVIOUS
  <1>2. PICK x \in T : \A i \in T : x <= i
    <2>. HIDE DEF T
    <2>. QED  BY <1>1, LeastOf
  <1>3. x \in 1..L + 1 /\ x \notin R
    BY <1>2
  <1>4. R = 1..x - 1
    <2>1. ASSUME NEW i \in 1..x - 1 PROVE i \in R
      <3>1. i \in 1..L + 1 /\ ~(x <= i)
        BY <1>3
      <3>. QED  BY <1>2, <3>1
    <2>2. ASSUME NEW i \in R, i \notin 1..x - 1 PROVE FALSE
      <3>1. i \in 1..L /\ x <= i /\ x \in 1..L
        BY <1>3, <2>2
      <3>2. \A j \in 1..x : j \in D
        BY <2>2, <3>1
      <3>. QED  BY <1>3, <3>1, <3>2
    <2>. HIDE DEF R
    <2>. QED  BY <2>1, <2>2
  <1>. HIDE DEF R
  <1>5. Cardinality(1..x - 1) = x - 1
    <2>1. PICK y \in Nat : y = x - 1
      BY <1>3
    <2>2. Cardinality(1..y) = IF 1 > y THEN 0 ELSE y - 1 + 1
      <3>1. 1 \in Int /\ y \in Int
        OBVIOUS
      <3>. QED  BY <3>1, FS_Interval
    <2>. QED  BY <2>1, <2>2
  <1>6. Cardinality(R) = x - 1 /\ x - 1 \in 0..L
    BY <1>3, <1>4, <1>5
  <1>7. Cardinality(R) \in 0..L /\ R = 1..Cardinality(R)
    BY <1>4, <1>6
  <1>. QED  BY <1>7 DEF R

\* The presents M, of p's swap chain and completed, go from their deque to what was
\* delivered, and out of the ring.
Moves(c, z, n, p, M) ==
  /\ M \in SUBSET (1..n)
  /\ \A q \in M : Waits(c, q) /\ c.presents[q].completed /\ Key(c, q) = Key(c, p)
  /\ \A q \in 1..n : /\ Waits(z, q) <=> Waits(c, q) /\ q \notin M
                     /\ Out(z, q) <=> Out(c, q) \/ q \in M
  /\ \A q \in M, x \in 1..n : Waits(z, x) /\ Key(c, x) = Key(c, p) => q < x
  /\ \A s \in Slots : z.ring[s] = IF \E q \in M : c.presents[q].slot = s
                                  THEN NoPresent ELSE c.ring[s]
  /\ Waits(c, p) /\ Head(Deque(c, p)) = p /\ c.presents[p].completed => p \in M
  /\ z.presents = c.presents /\ SameLinks(c, z) /\ z.next = c.next /\ z.lost = c.lost
  /\ z.failed = c.failed /\ z.dwmThread = c.dwmThread /\ z.hung = c.hung
  /\ z.waiting = c.waiting

\* The delivery moves the ready prefix of the deque.
LEMMA DeliveryMoves ==
    ASSUME NEW n \in Nat, NEW c, Good(c, n), NEW p \in 1..n
    PROVE  \E M : Moves(c, DeliverReady(c, p), n, p, M)
  <1>. DEFINE k == Key(c, p)
              d == c.bySwapChain[k]
              R == {i \in DOMAIN d : \A j \in 1..i : c.presents[d[j]].completed}
              m == Cardinality(R)
              ready == SubSeq(d, 1, m)
              left == SubSeq(d, m + 1, Len(d))
              ring == [s \in DOMAIN c.ring |->
                         IF \E i \in DOMAIN ready : c.presents[ready[i]].slot = s
                         THEN NoPresent ELSE c.ring[s]]
              z == [c EXCEPT !.bySwapChain[k] = left, !.delivered = c.delivered \o ready,
                             !.ring = ring]
              M == {d[i] : i \in 1..m}
  <1>1. k \in Chains /\ d \in Seq(1..n) /\ Len(d) \in Nat /\ DOMAIN d = 1..Len(d)
    <2>1. k \in Chains /\ d \in Seq(1..n)
      BY KeyTyped DEF Good
    <2>. HIDE DEF d
    <2>. QED  BY <2>1, LenProperties
  <1>2. DeliverReady(c, p) = z /\ Deque(c, p) = d
    BY DEF DeliverReady, Deque
  <1>3. m \in 0..Len(d) /\ R = 1..m
    <2>. DEFINE D == {j \in 1..Len(d) : c.presents[d[j]].completed}
                S == {i \in 1..Len(d) : \A j \in 1..i : j \in D}
    <2>. HIDE DEF d
    <2>1. Cardinality(S) \in 0..Len(d) /\ S = 1..Cardinality(S)
      <3>. HIDE DEF D
      <3>. QED  BY <1>1, ReadyPrefix
    <2>2. R = S
      <3>1. \A i \in 1..Len(d) : \A j \in 1..i : j \in 1..Len(d)
        BY <1>1
      <3>2. \A i \in 1..Len(d) :
              (\A j \in 1..i : j \in D) <=> \A j \in 1..i : c.presents[d[j]].completed
        BY <3>1
      <3>. HIDE DEF D
      <3>. QED  BY <1>1, <3>2
    <2>. HIDE DEF R, S
    <2>. QED  BY <2>1, <2>2
  <1>4. c.bySwapChain \in [Chains -> Seq(1..n)] /\ c.delivered \in Seq(1..n)
    BY DEF Good, Consumers
  <1>5. \A i \in 1..m : c.presents[d[i]].completed
    <2>1. \A i \in R : i \in 1..i
      <3>1. \A i \in 1..m : i \in 1..i
        <4>. HIDE DEF R, m, d
        <4>. QED  BY <1>1, <1>3
      <3>. HIDE DEF R, m
      <3>. QED  BY <1>3, <3>1
    <2>2. ASSUME NEW i \in R PROVE c.presents[d[i]].completed
      <3>1. i \in 1..i
        BY <2>1
      <3>2. \A j \in 1..i : c.presents[d[j]].completed
        <4>. HIDE DEF d
        <4>. QED  OBVIOUS
      <3>. QED  BY <3>1, <3>2
    <2>. HIDE DEF R, m
    <2>. QED  BY <1>3, <2>2
  <1>6. Len(d) # 0 /\ c.presents[d[1]].completed => 1 \in R
    <2>. HIDE DEF d
    <2>1. \A j \in 1..1 : j = 1
      OBVIOUS
    <2>. QED  BY <1>1, <2>1
  <1>. HIDE DEF m, R
  <1>7. left \in Seq(1..n) /\ Part(left, d) /\ Len(left) = Len(d) - m
        /\ \A i \in 1..Len(d) - m : left[i] = d[m + i]
    BY <1>1, <1>3, PartFrom
  <1>8. ready \in Seq(1..n) /\ Len(ready) = m /\ DOMAIN ready = 1..m /\ \A i \in 1..m :
        ready[i] = d[i]
    <2>. HIDE DEF d
    <2>1. \A i \in 1..m : d[i] \in 1..n
      BY <1>1, <1>3, ElementOfSeq
    <2>2. /\ SubSeq(d, 1, m) \in Seq(1..n)
          /\ Len(SubSeq(d, 1, m)) = IF 1 <= m THEN m - 1 + 1 ELSE 0
          /\ \A i \in 1..m - 1 + 1 : SubSeq(d, 1, m)[i] = d[1 + i - 1]
      BY <1>1, <1>3, <2>1, SubSeqProperties
    <2>. QED  BY <1>3, <2>2
  <1>9. /\ \A i, j \in 1..Len(d) : i < j => d[i] < d[j]
        /\ \A i \in 1..Len(d) : d[i] \in 1..n /\ Key(c, d[i]) = k
    <2>1. \A i \in 1..Len(d) : d[i] \in 1..n
      <3>. HIDE DEF d
      <3>. QED  BY <1>1, ElementOfSeq
    <2>. QED  BY <1>1, <2>1 DEF Good, Order, Increasing
  <1>10. /\ z.bySwapChain = [c.bySwapChain EXCEPT ![k] = left]
         /\ z.delivered = c.delivered \o ready
         /\ z.presents = c.presents /\ SameLinks(c, z) /\ z.next = c.next /\ z.lost = c.lost
         /\ z.failed = c.failed /\ z.dwmThread = c.dwmThread /\ z.hung = c.hung
         /\ z.ring = ring /\ z.waiting = c.waiting
    <2>. HIDE DEF left, ready, ring, k, d
    <2>. QED  BY DEF Good, Consumers, SameLinks
  <1>11. \A q : Key(z, q) = Key(c, q)
    BY <1>10 DEF Key
  <1>12. \A s \in Slots : z.ring[s] = IF \E q \in M : c.presents[q].slot = s
                                      THEN NoPresent ELSE c.ring[s]
    <2>. SUFFICES ASSUME NEW s \in Slots
                  PROVE  (\E i \in DOMAIN ready : c.presents[ready[i]].slot = s)
                           <=> \E q \in M : c.presents[q].slot = s
      <3>1. DOMAIN c.ring = Slots
        BY DEF Good, Consumers
      <3>. HIDE DEF ready, M, z
      <3>. QED  BY <1>10, <3>1
    <2>. HIDE DEF ready, d
    <2>. QED  BY <1>8
  <1>. HIDE DEF z, ready, left, ring
  <1>13. \A q : Contains(d, q) <=> q \in M \/ Contains(left, q)
    <2>. SUFFICES ASSUME NEW q PROVE Contains(d, q) <=> q \in M \/ Contains(left, q)
      OBVIOUS
    <2>. HIDE DEF d
    <2>1. ASSUME Contains(d, q), q \notin M PROVE Contains(left, q)
      <3>1. PICK i \in 1..Len(d) : d[i] = q
        BY <2>1 DEF Contains
      <3>2. i \notin 1..m
        BY <2>1, <3>1
      <3>3. i - m \in 1..Len(d) - m /\ m + (i - m) = i
        BY <1>1, <1>3, <3>2
      <3>. QED  BY <1>7, <3>1, <3>3 DEF Contains
    <2>2. ASSUME q \in M PROVE Contains(d, q)
      <3>1. 1..m \subseteq 1..Len(d)
        BY <1>1, <1>3
      <3>. QED  BY <2>2, <3>1 DEF Contains
    <2>3. ASSUME Contains(left, q) PROVE Contains(d, q)
      <3>1. PICK i \in 1..Len(d) - m : left[i] = q
        BY <1>7, <2>3 DEF Contains
      <3>2. m + i \in 1..Len(d) /\ d[m + i] = q
        BY <1>1, <1>3, <1>7, <3>1
      <3>. QED  BY <3>2 DEF Contains
    <2>. QED  BY <2>1, <2>2, <2>3
  <1>14. \A q \in M : ~Contains(left, q)
    <2>. HIDE DEF d
    <2>. SUFFICES ASSUME NEW i \in 1..m, NEW j \in 1..Len(left), left[j] = d[i] PROVE FALSE
      BY DEF Contains
    <2>1. left[j] = d[m + j] /\ m + j \in 1..Len(d) /\ i \in 1..Len(d) /\ i < m + j
      BY <1>1, <1>3, <1>7
    <2>2. d[i] < d[m + j] /\ d[i] \in 1..n /\ d[m + j] \in 1..n
      BY <1>9, <2>1
    <2>. QED  BY <2>1, <2>2
  <1>15. \A q \in M : Waits(c, q) /\ c.presents[q].completed /\ Key(c, q) = k /\ q \in 1..n
    <2>1. \A i \in 1..m : i \in 1..Len(d)
      BY <1>1, <1>3
    <2>2. \A q \in M : Key(c, q) = k /\ q \in 1..n /\ c.presents[q].completed
      <3>. HIDE DEF k, d
      <3>. QED  BY <1>5, <1>9, <2>1
    <2>3. \A q \in M : Contains(d, q)
      BY <1>13
    <2>. HIDE DEF M, d
    <2>. QED  BY <2>2, <2>3 DEF Waits, Deque, d
  <1>16. ASSUME NEW q \in 1..n
         PROVE  /\ Waits(z, q) <=> Waits(c, q) /\ q \notin M
                /\ Out(z, q) <=> Out(c, q) \/ q \in M
    <2>1. Key(c, q) \in Chains
      BY KeyTyped DEF Good
    <2>2. Waits(z, q) <=> Waits(c, q) /\ q \notin M
      <3>1. CASE Key(c, q) = k
        <4>1. Deque(z, q) = left /\ Deque(c, q) = d
          <5>. HIDE DEF k
          <5>. QED  BY <1>1, <1>4, <1>10, <1>11, <3>1 DEF Deque, d
        <4>. HIDE DEF M, d
        <4>. QED  BY <1>13, <1>14, <4>1 DEF Waits
      <3>2. CASE Key(c, q) # k
        <4>1. Deque(z, q) = Deque(c, q)
          <5>. HIDE DEF k
          <5>. QED  BY <1>1, <1>4, <1>10, <1>11, <2>1, <3>2 DEF Deque
        <4>2. q \notin M
          BY <1>15, <3>2
        <4>. QED  BY <4>1, <4>2 DEF Waits
      <3>. QED  BY <3>1, <3>2
    <2>3. Out(z, q) <=> Out(c, q) \/ q \in M
      <3>. DEFINE L == Len(c.delivered)
      <3>1. /\ Len(c.delivered \o ready) = L + m /\ L \in Nat
            /\ \A i \in 1..L + m : (c.delivered \o ready)[i] =
                 IF i <= L THEN c.delivered[i] ELSE ready[i - L]
        <4>1. L \in Nat
          BY <1>4, LenProperties
        <4>. QED  BY <1>4, <1>8, <4>1, ConcatProperties
      <3>2. PICK e : e = c.delivered \o ready
        OBVIOUS
      <3>3. /\ \A i \in 1..L : i \in 1..L + m /\ e[i] = c.delivered[i]
            /\ \A i \in 1..m : L + i \in 1..L + m /\ e[L + i] = d[i]
            /\ \A i \in 1..L + m : i \in 1..L \/ (i - L \in 1..m /\ L + (i - L) = i)
        <4>. HIDE DEF d
        <4>1. \A i \in 1..L : i \in 1..L + m /\ e[i] = c.delivered[i]
          BY <1>1, <1>3, <3>1, <3>2
        <4>2. \A i \in 1..m : L + i \in 1..L + m /\ ~(L + i <= L) /\ L + i - L = i
          BY <1>1, <1>3, <3>1
        <4>3. \A i \in 1..m : e[L + i] = d[i]
          BY <1>8, <3>1, <3>2, <4>2
        <4>4. \A i \in 1..L + m : i \in 1..L \/ (i - L \in 1..m /\ L + (i - L) = i)
          BY <1>1, <1>3, <3>1
        <4>. QED  BY <4>1, <4>2, <4>3, <4>4
      <3>4. Contains(e, q) <=> \E i \in 1..L + m : e[i] = q
        BY <3>1, <3>2 DEF Contains
      <3>5. Contains(e, q) <=> Contains(c.delivered, q) \/ \E i \in 1..m : d[i] = q
        <4>. HIDE DEF d
        <4>1. ASSUME NEW i \in 1..L + m, e[i] = q
              PROVE  Contains(c.delivered, q) \/ \E j \in 1..m : d[j] = q
          <5>1. CASE i \in 1..L
            BY <3>3, <4>1, <5>1 DEF Contains
          <5>2. CASE i - L \in 1..m /\ L + (i - L) = i
            BY <3>3, <4>1, <5>2
          <5>. QED  BY <3>3, <5>1, <5>2
        <4>2. ASSUME Contains(c.delivered, q) PROVE \E i \in 1..L + m : e[i] = q
          BY <3>3, <4>2 DEF Contains
        <4>3. ASSUME NEW i \in 1..m, d[i] = q PROVE \E j \in 1..L + m : e[j] = q
          BY <3>3, <4>3
        <4>. QED  BY <3>4, <4>1, <4>2, <4>3
      <3>. HIDE DEF d
      <3>. QED  BY <1>10, <3>2, <3>5 DEF Out
    <2>. QED  BY <2>2, <2>3
  <1>17. Waits(c, p) /\ Head(d) = p /\ c.presents[p].completed => p \in M
    <2>. SUFFICES ASSUME Waits(c, p), Head(d) = p, c.presents[p].completed PROVE p \in M
      OBVIOUS
    <2>1. Len(d) # 0
      BY <1>1 DEF Waits, Deque, Contains
    <2>2. d[1] = p
      <3>. HIDE DEF d
      <3>. QED  BY <1>1, <2>1
    <2>3. 1 \in 1..m
      BY <1>3, <1>6, <2>1, <2>2
    <2>. QED  BY <2>2, <2>3
  <1>18. ASSUME NEW q \in M, NEW x \in 1..n, Waits(z, x), Key(c, x) = k PROVE q < x
    <2>1. Deque(z, x) = left
      <3>. HIDE DEF k
      <3>. QED  BY <1>1, <1>4, <1>10, <1>11, <1>18 DEF Deque
    <2>2. PICK j \in 1..Len(left) : left[j] = x
      BY <1>18, <2>1 DEF Waits, Contains
    <2>3. PICK i \in 1..m : d[i] = q
      <3>. HIDE DEF d
      <3>. QED  OBVIOUS
    <2>. HIDE DEF M, d
    <2>4. j \in 1..Len(d) - m /\ left[j] = d[m + j]
      BY <1>7
    <2>5. m + j \in 1..Len(d) /\ i \in 1..Len(d) /\ i < m + j
      BY <1>1, <1>3, <2>4
    <2>6. d[i] < d[m + j]
      BY <1>9, <2>5
    <2>. QED  BY <2>2, <2>3, <2>4, <2>6
  <1>. HIDE DEF M, d, k
  <1>19. Moves(c, z, n, p, M)
    BY <1>2, <1>10, <1>12, <1>15, <1>16, <1>17, <1>18 DEF Moves, k
  <1>. QED  BY <1>2, <1>19

-----------------------------------------------------------------------------
(* A present leaves the collections, and is given up.                      *)

\* No collection finds p any more, and nothing else is changed in them; a window and what
\* waits for DWM may keep it.
Erases(c, d, p) ==
  /\ \A t \in Threads : d.byThread[t] = IF c.byThread[t] = p THEN NoPresent ELSE c.byThread[t]
  /\ \A s \in SubmitSeqs : d.bySubmit[s] = IF c.bySubmit[s] = p THEN NoPresent ELSE c.bySubmit[s]
  /\ \A k \in Tokens :
       /\ d.win32k[k] = IF c.win32k[k] = p THEN NoPresent ELSE c.win32k[k]
       /\ d.dxgk[k] = IF c.dxgk[k] = p THEN NoPresent ELSE c.dxgk[k]
       /\ d.legacyBlit[k] = IF c.legacyBlit[k] = p THEN NoPresent ELSE c.legacyBlit[k]
  /\ \A x \in Contexts : d.blits[x] = IF c.blits[x] = p THEN NoPresent ELSE c.blits[x]
  /\ \A h \in Hwnds : d.window[h] \in {c.window[h], NoPresent}
  /\ \A q \in ToSet(d.waiting) : q \in ToSet(c.waiting)

\* The keys a present is found under, and all else that has a part in the invariant.
SameKeys(e, f) ==
  /\ f.process = e.process /\ f.swap = e.swap /\ f.thread = e.thread /\ f.slot = e.slot
  /\ f.completed = e.completed /\ f.final = e.final /\ f.mode = e.mode
  /\ f.submit = e.submit /\ f.token = e.token /\ f.context = e.context
  /\ f.blitToken = e.blitToken /\ f.win32k = e.win32k /\ f.seenWin32K = e.seenWin32K
  /\ f.hwnd = e.hwnd /\ f.deps = e.deps /\ f.runtime = e.runtime /\ f.seenDxgk = e.seenDxgk

\* Erasing under the key a present has erases it.
LEMMA ErasedAtKey ==
    ASSUME NEW n \in Nat, NEW K, None \notin K, NEW map \in [K -> 0..n], NEW key,
           key \in K \cup {None},
           NEW p, \A k \in K : map[k] = p => key = k
    PROVE  \A k \in K : EraseIf(map, key, p)[k] = IF map[k] = p THEN NoPresent ELSE map[k]
  BY DEF EraseIf

\* RemovePresentFromTemporaryTrackingCollections takes a present out of the collections.
LEMMA UntrackErases ==
    ASSUME NEW n \in Nat, NEW c, Good(c, n), NEW p \in 1..n, Named(c, p)
    PROVE  LET u == Untrack(c, p) IN
           /\ Good(u, n) /\ SameQueues(c, u, n) /\ SameRest(c, u) /\ Erases(c, u, p)
           /\ u.byProcess = c.byProcess
           /\ SameKeys(c.presents[p], u.presents[p])
           /\ \A q \in 1..n : q # p => u.presents[q] = c.presents[q]
  <1>. DEFINE e == c.presents[p]
              th == EraseIf(EraseIf(c.byThread, e.thread, p), e.batchThread, p)
              su == EraseIf(c.bySubmit, e.submit, p)
              wi == EraseIf(c.win32k, e.win32k, p)
              dx == EraseIf(c.dxgk, e.token, p)
              bl == EraseIf(c.blits, e.context, p)
              wn == EraseIf(c.window, e.hwnd, p)
              wa == IF e.inDwmWaiting THEN RemoveFirst(c.waiting, p) ELSE c.waiting
              lb == EraseIf(c.legacyBlit, e.blitToken, p)
              in == e.inDwmWaiting /\ ~Contains(c.waiting, p)
              f == [e EXCEPT !.inDwmWaiting = in]
              ps == [c.presents EXCEPT ![p] = f]
  <1>1. PICK u : u = Untrack(c, p)
    OBVIOUS
  <1>2. u = [c EXCEPT !.byThread = th, !.bySubmit = su, !.win32k = wi, !.dxgk = dx, !.blits = bl,
                      !.window = wn, !.waiting = wa, !.presents = ps, !.legacyBlit = lb]
    BY <1>1 DEF Untrack
  <1>3. Good(u, n) /\ SameQueues(c, u, n)
    BY <1>1, UntrackGood
  <1>4. c \in Consumers(n) /\ e \in Records(n)
    BY PresentTyped, PresentIsRecord DEF Good
  <1>5. None \notin Threads /\ None \notin SubmitSeqs /\ None \notin Tokens
        /\ None \notin Contexts /\ None \notin Hwnds
    BY TrackingAssumption
  <1>. HIDE DEF in
  <1>6. SameKeys(e, f)
    <2>. HIDE DEF e
    <2>. QED  BY <1>4 DEF Records, SameKeys
  <1>. HIDE DEF f
  <1>7. \A t \in Threads : th[t] = IF c.byThread[t] = p THEN NoPresent ELSE c.byThread[t]
    <2>1. c.byThread \in [Threads -> 0..n] /\ e.thread \in Threads \cup {None}
          /\ e.batchThread \in Threads \cup {None}
      BY <1>4 DEF Consumers, Records
    <2>2. \A t \in Threads : c.byThread[t] = p => e.thread = t
      BY DEF Named
    <2>3. PICK a : a = EraseIf(c.byThread, e.thread, p)
      OBVIOUS
    <2>4. a \in [Threads -> 0..n]
      BY <2>1, <2>3, Erased
    <2>5. \A t \in Threads : a[t] = IF c.byThread[t] = p THEN NoPresent ELSE c.byThread[t]
      <3>. HIDE DEF e
      <3>. QED  BY <1>5, <2>1, <2>2, <2>3, ErasedAtKey
    <2>6. \A t \in Threads : a[t] # p
      BY <2>5 DEF NoPresent
    <2>7. \A t \in Threads : EraseIf(a, e.batchThread, p)[t] = a[t]
      BY <1>5, <2>1, <2>4, <2>6 DEF EraseIf
    <2>. QED  BY <2>3, <2>5, <2>7
  <1>8. \A s \in SubmitSeqs : su[s] = IF c.bySubmit[s] = p THEN NoPresent ELSE c.bySubmit[s]
    <2>1. c.bySubmit \in [SubmitSeqs -> 0..n] /\ e.submit \in SubmitSeqs \cup {None}
      BY <1>4 DEF Consumers, Records
    <2>2. \A s \in SubmitSeqs : c.bySubmit[s] = p => e.submit = s
      BY DEF Named
    <2>. HIDE DEF e
    <2>. QED  BY <1>5, <2>1, <2>2, ErasedAtKey
  <1>9. \A k \in Tokens : wi[k] = IF c.win32k[k] = p THEN NoPresent ELSE c.win32k[k]
    <2>1. c.win32k \in [Tokens -> 0..n] /\ e.win32k \in Tokens \cup {None}
      BY <1>4 DEF Consumers, Records
    <2>2. \A k \in Tokens : c.win32k[k] = p => e.win32k = k
      BY DEF Named
    <2>. HIDE DEF e
    <2>. QED  BY <1>5, <2>1, <2>2, ErasedAtKey
  <1>10. \A k \in Tokens : dx[k] = IF c.dxgk[k] = p THEN NoPresent ELSE c.dxgk[k]
    <2>1. c.dxgk \in [Tokens -> 0..n] /\ e.token \in Tokens \cup {None}
      BY <1>4 DEF Consumers, Records
    <2>2. \A k \in Tokens : c.dxgk[k] = p => e.token = k
      BY DEF Named
    <2>. HIDE DEF e
    <2>. QED  BY <1>5, <2>1, <2>2, ErasedAtKey
  <1>11. \A k \in Tokens : lb[k] = IF c.legacyBlit[k] = p THEN NoPresent ELSE c.legacyBlit[k]
    <2>1. c.legacyBlit \in [Tokens -> 0..n] /\ e.blitToken \in Tokens \cup {None}
      BY <1>4 DEF Consumers, Records
    <2>2. \A k \in Tokens : c.legacyBlit[k] = p => e.blitToken = k
      BY DEF Named
    <2>. HIDE DEF e
    <2>. QED  BY <1>5, <2>1, <2>2, ErasedAtKey
  <1>12. \A x \in Contexts : bl[x] = IF c.blits[x] = p THEN NoPresent ELSE c.blits[x]
    <2>1. c.blits \in [Contexts -> 0..n] /\ e.context \in Contexts \cup {None}
      BY <1>4 DEF Consumers, Records
    <2>2. \A x \in Contexts : c.blits[x] = p => e.context = x
      BY DEF Named
    <2>. HIDE DEF e
    <2>. QED  BY <1>5, <2>1, <2>2, ErasedAtKey
  <1>13. /\ \A h \in Hwnds : wn[h] \in {c.window[h], NoPresent}
         /\ \A q \in ToSet(wa) : q \in ToSet(c.waiting)
    <2>1. c.window \in [Hwnds -> 0..n] /\ e.hwnd \in Hwnds \cup {None}
      BY <1>4 DEF Consumers, Records
    <2>2. \A h \in Hwnds : wn[h] \in {c.window[h], NoPresent}
      BY <1>5, <2>1 DEF EraseIf
    <2>3. c.waiting \in Seq(1..n)
      BY <1>4 DEF Consumers
    <2>4. Part(wa, c.waiting)
      BY <2>3, PartRemoved, PartOfItself
    <2>. HIDE DEF wn, wa
    <2>5. \A q \in ToSet(wa) : q \in ToSet(c.waiting)
      BY <2>4 DEF Part, ToSet
    <2>. QED  BY <2>2, <2>5
  <1>. HIDE DEF th, su, wi, dx, bl, wn, wa, lb, ps
  <1>14. /\ u.byThread = th /\ u.bySubmit = su /\ u.win32k = wi /\ u.dxgk = dx /\ u.blits = bl
         /\ u.window = wn /\ u.legacyBlit = lb /\ u.presents = ps /\ u.waiting = wa
         /\ u.byProcess = c.byProcess /\ SameRest(c, u)
    BY <1>2, <1>4 DEF Consumers, SameRest
  <1>15. Erases(c, u, p)
    BY <1>7, <1>8, <1>9, <1>10, <1>11, <1>12, <1>13, <1>14 DEF Erases
  <1>16. u.presents[p] = f /\ \A q \in 1..n : q # p => u.presents[q] = c.presents[q]
    BY <1>4, <1>14 DEF Consumers, ps
  <1>. QED  BY <1>1, <1>3, <1>6, <1>14, <1>15, <1>16

\* What is erased is found no more, and nothing else is found that was not.
LEMMA ErasesLinks ==
    ASSUME NEW n \in Nat, NEW c, NEW d, NEW p \in 1..n, Erases(c, d, p),
           d.byProcess = c.byProcess \ {p}, SameKeys(c.presents[p], d.presents[p]),
           \A q \in 1..n : q # p => d.presents[q] = c.presents[q]
    PROVE  /\ Unlinked(d, p)
           /\ \A q \in 1..n : /\ Named(c, q) => Named(d, q)
                              /\ Unlinked(c, q) => Unlinked(d, q)
  <1>. USE DEF NoPresent
  <1>1. Unlinked(d, p)
    BY DEF Erases, Unlinked
  <1>2. ASSUME NEW q \in 1..n, Unlinked(c, q) PROVE Unlinked(d, q)
    BY <1>2 DEF Erases, Unlinked
  <1>3. ASSUME NEW q \in 1..n, Named(c, q) PROVE Named(d, q)
    <2>1. SameKeys(c.presents[q], d.presents[q])
      BY DEF SameKeys
    <2>2. /\ \A t \in Threads : d.byThread[t] = q => c.byThread[t] = q
          /\ \A s \in SubmitSeqs : d.bySubmit[s] = q => c.bySubmit[s] = q
          /\ \A k \in Tokens : /\ d.win32k[k] = q => c.win32k[k] = q
                               /\ d.dxgk[k] = q => c.dxgk[k] = q
                               /\ d.legacyBlit[k] = q => c.legacyBlit[k] = q
          /\ \A x \in Contexts : d.blits[x] = q => c.blits[x] = q
          /\ q \in d.byProcess => q \in c.byProcess
      BY DEF Erases
    <2>. QED  BY <1>3, <2>1, <2>2 DEF Named, SameKeys
  <1>. QED  BY <1>1, <1>2, <1>3

\* What is left when p is given up: it is lost, and nobody finds it.
Removed(c, d, n, p) ==
  /\ Good(d, n) /\ Erases(c, d, p) /\ d.byProcess = c.byProcess \ {p}
  /\ SameKeys(c.presents[p], d.presents[p])
  /\ \A q \in 1..n : q # p => d.presents[q] = c.presents[q]
  /\ \A q \in 1..n : /\ Waits(d, q) <=> Waits(c, q) /\ q # p
                     /\ Out(d, q) <=> Out(c, q)
  /\ d.ring = [c.ring EXCEPT ![c.presents[p].slot] = NoPresent]
  /\ d.lost = c.lost \cup {p} /\ d.next = c.next /\ d.failed = c.failed
  /\ d.dwmThread = c.dwmThread /\ d.hung = c.hung

\* RemoveLostPresent gives a present up for good: nothing finds it, and it is lost.
LEMMA RemovedNeat ==
    ASSUME NEW n \in Nat, NEW c, Neat(c, n), NEW p \in 1..n, Waits(c, p), NEW d, Removed(c, d, n, p)
    PROVE  Neat(d, n) /\ Unlinked(d, p)
  <1>1. /\ Unlinked(d, p)
        /\ \A q \in 1..n : (Named(c, q) => Named(d, q)) /\ (Unlinked(c, q) => Unlinked(d, q))
    BY ErasesLinks DEF Removed
  <1>2. \A q \in 1..n : SameKeys(c.presents[q], d.presents[q])
    BY DEF Removed, SameKeys
  <1>3. \A q \in 1..n : Key(d, q) = Key(c, q)
    BY <1>2 DEF Key, SameKeys
  <1>4. Good(c, n) /\ c \in Consumers(n) /\ ~Out(c, p)
    BY WaitsOrOut DEF Neat, Steady, Good
  <1>5. Placed(d, n)
    BY <1>4 DEF Neat, Steady, Placed, Removed
  <1>6. Ringed(d, n)
    <2>1. \A q \in 1..n : c.presents[q].slot \in Slots /\ d.presents[q].slot = c.presents[q].slot
      <3>1. \A q \in 1..n : c.presents[q] \in Records(n)
        BY <1>4, PresentTyped, PresentIsRecord
      <3>. QED  BY <1>2, <3>1 DEF SameKeys, Records
    <2>2. \A s \in Slots : d.ring[s] = IF s = c.presents[p].slot THEN NoPresent ELSE c.ring[s]
      BY <1>4 DEF Removed, Consumers
    <2>3. \A s \in Slots : c.ring[s] \in 0..n
      BY <1>4 DEF Consumers
    <2>4. ASSUME NEW s \in Slots, d.ring[s] # NoPresent
          PROVE  Waits(d, d.ring[s]) /\ d.presents[d.ring[s]].slot = s
      <3>1. s # c.presents[p].slot /\ d.ring[s] = c.ring[s]
        BY <2>2, <2>4
      <3>2. Waits(c, c.ring[s]) /\ c.presents[c.ring[s]].slot = s
        BY <2>4, <3>1 DEF Neat, Steady, Ringed
      <3>3. c.ring[s] \in 1..n /\ c.ring[s] # p
        BY <2>3, <2>4, <3>1, <3>2 DEF NoPresent
      <3>. QED  BY <2>1, <3>1, <3>2, <3>3 DEF Removed
    <2>5. ASSUME NEW q \in 1..n, Waits(d, q) PROVE d.ring[d.presents[q].slot] = q
      <3>1. Waits(c, q) /\ q # p
        BY <2>5 DEF Removed
      <3>2. c.ring[c.presents[q].slot] = q /\ c.ring[c.presents[p].slot] = p
        BY <3>1 DEF Neat, Steady, Ringed
      <3>. QED  BY <2>1, <2>2, <3>1, <3>2
    <2>. QED  BY <2>4, <2>5 DEF Ringed
  <1>7. Linked(d, n)
    <2>. SUFFICES ASSUME NEW q \in 1..n PROVE Named(d, q) /\ (Unlinked(d, q) \/ Open(d, q))
      BY DEF Linked
    <2>1. Named(c, q) /\ (Unlinked(c, q) \/ Open(c, q))
      BY DEF Neat, Steady, Linked
    <2>2. q # p => (Open(d, q) <=> Open(c, q))
      BY DEF Removed, Open
    <2>. QED  BY <1>1, <2>1, <2>2
  <1>8. AllStaged(d, n) /\ Asserted(d)
    BY <1>2 DEF Neat, Steady, AllStaged, Asserted, Removed, SameKeys, Staged
  <1>9. Told(d, n)
    BY <1>2 DEF Neat, Told, Removed, SameKeys
  <1>10. Lasting(d, n)
    <2>1. Lasting(c, n) /\ Mine(p)
      BY WaitsMine DEF Neat, Steady
    <2>2. DOMAIN c.presents = 1..n /\ DOMAIN d.presents = 1..n
      BY <1>4 DEF Consumers, Removed, Good
    <2>3. ASSUME NEW q \in 1..n, Rides(d, q) PROVE Rides(c, q)
      <3>1. q \in ToSet(d.waiting) => q \in ToSet(c.waiting)
        BY DEF Removed, Erases
      <3>2. \A h \in Hwnds : d.window[h] = q => c.window[h] = q
        BY DEF Removed, Erases, NoPresent
      <3>3. \A r \in 1..n : d.presents[r].deps = c.presents[r].deps
        BY <1>2 DEF SameKeys
      <3>. QED  BY <2>2, <2>3, <3>1, <3>2, <3>3 DEF Rides
    <2>. QED  BY <2>1, <2>3, LastingKept DEF Removed
  <1>. QED  BY <1>1, <1>5, <1>6, <1>7, <1>8, <1>9, <1>10 DEF Neat, Steady, Removed

\* A swap chain's deque is in order.
LEMMA DequeInOrder ==
    ASSUME NEW n \in Nat, NEW c, Good(c, n), NEW k \in Chains
    PROVE  /\ c.bySwapChain[k] \in Seq(1..n)
           /\ \A i, j \in 1..Len(c.bySwapChain[k]) :
                i < j => c.bySwapChain[k][i] < c.bySwapChain[k][j]
  BY DEF Good, Order, Increasing, Consumers

\* RemoveLostPresent gives up the present, and no other; both of its asserts hold.
LEMMA RemoveLostRemoves ==
    ASSUME NEW n \in Nat, NEW c, Neat(c, n), NEW p \in 1..n, Waits(c, p)
    PROVE  LET d == RemoveLost(c, p) IN
           /\ Removed(c, d, n, p) /\ Neat(d, n) /\ Unlinked(d, p)
  <1>. DEFINE e == c.presents[p]
              f == [e EXCEPT !.lost = TRUE]
              k == Key(c, p)
              slot == c.presents[p].slot
  <1>1. PICK m : m = [c EXCEPT !.presents[p].lost = TRUE]
    OBVIOUS
  <1>2. Edits(c, m, n, p, f)
    <2>1. PICK v \in BOOLEAN : v = TRUE
      OBVIOUS
    <2>2. Edits(c, [c EXCEPT !.presents[p].lost = v], n, p, [e EXCEPT !.lost = v])
      BY SetNeat
    <2>. QED  BY <1>1, <2>1, <2>2
  <1>3. e \in Records(n) /\ Good(c, n) /\ c \in Consumers(n) /\ Good(m, n)
    <2>1. e \in Records(n) /\ Good(c, n) /\ c \in Consumers(n)
      BY PresentTyped, PresentIsRecord DEF Neat, Steady, Good
    <2>2. Good(m, n)
      BY <1>2 DEF Edits, Neat, Steady
    <2>. QED  BY <2>1, <2>2
  <1>4. SameKeys(e, f)
    <2>. HIDE DEF e
    <2>. QED  BY <1>3 DEF Records, SameKeys
  <1>. HIDE DEF f
  <1>5. ~(e.completed /\ e.final = "Presented")
    BY DEF Neat, Told
  <1>6. RemoveLost(c, p) = GiveUp(Untrack(m, p), p)
    BY <1>1, <1>5 DEF RemoveLost, Assert_
  <1>7. PICK u : u = Untrack(m, p)
    OBVIOUS
  <1>8. /\ m.presents[p] = f /\ \A q \in 1..n : q # p => m.presents[q] = c.presents[q]
        /\ SameLinks(c, m) /\ SameRest(c, m) /\ Named(m, p)
        /\ m.bySwapChain = c.bySwapChain /\ m.delivered = c.delivered /\ m.waiting = c.waiting
    <2>1. m.bySwapChain = c.bySwapChain /\ m.delivered = c.delivered /\ m.waiting = c.waiting
      BY <1>1, <1>3 DEF Consumers
    <2>2. Named(m, p)
      BY <1>2 DEF Edits, Neat, Steady, Linked
    <2>. QED  BY <1>2, <2>1, <2>2 DEF Edits
  <1>9. /\ Good(u, n) /\ SameQueues(m, u, n) /\ SameRest(m, u) /\ Erases(m, u, p)
        /\ u.byProcess = m.byProcess
        /\ SameKeys(m.presents[p], u.presents[p])
        /\ \A q \in 1..n : q # p => u.presents[q] = m.presents[q]
    BY <1>3, <1>7, <1>8, UntrackErases
  <1>10. SameKeys(e, u.presents[p])
    BY <1>4, <1>8, <1>9 DEF SameKeys
  <1>11. \A q \in 1..n : Key(u, q) = Key(c, q)
    <2>1. \A q \in 1..n : SameKeys(c.presents[q], u.presents[q])
      BY <1>8, <1>9, <1>10 DEF SameKeys
    <2>. QED  BY <2>1 DEF Key, SameKeys
  <1>12. /\ u.bySwapChain = c.bySwapChain /\ u.delivered = c.delivered /\ u.ring = c.ring
         /\ u.next = c.next /\ u.lost = c.lost /\ u.failed = c.failed
         /\ u.dwmThread = c.dwmThread /\ u.hung = c.hung /\ u.byProcess = c.byProcess
         /\ Erases(c, u, p)
    BY <1>8, <1>9 DEF SameQueues, SameRest, SameLinks, Erases
  <1>13. k \in Chains /\ Key(u, p) = k /\ Contains(Deque(u, p), p)
    <2>1. k \in Chains
      BY <1>3, KeyTyped
    <2>. QED  BY <1>11, <1>12, <2>1 DEF Waits, Deque
  <1>14. slot \in Slots /\ u.presents[p].slot = slot /\ u.ring[slot] = p
    <2>1. slot \in Slots
      BY <1>3 DEF Records
    <2>2. c.ring[slot] = p
      BY DEF Neat, Steady, Ringed
    <2>. QED  BY <1>10, <1>12, <2>1, <2>2 DEF SameKeys
  <1>15. PICK d : d = GiveUp(u, p)
    OBVIOUS
  <1>16. PICK r : r = RemoveFirst(c.bySwapChain[k], p)
    OBVIOUS
  <1>17. /\ d = [u EXCEPT !.byProcess = u.byProcess \ {p}, !.bySwapChain[k] = r,
                          !.lost = u.lost \cup {p}, !.ring[slot] = NoPresent]
    <2>1. PICK a : a = Assert_(u, 1395, Contains(Deque(u, p), p))
      OBVIOUS
    <2>2. a = u
      BY <1>13, <2>1 DEF Assert_
    <2>3. GiveUp(u, p) =
            [a EXCEPT !.byProcess = @ \ {p},
                      !.bySwapChain[Key(u, p)] = RemoveFirst(@, p),
                      !.lost = @ \cup {u.ring[u.presents[p].slot]},
                      !.ring[u.presents[p].slot] = NoPresent]
      BY <2>1 DEF GiveUp
    <2>4. Key(u, p) = k /\ u.presents[p].slot = slot /\ u.ring[slot] = p
          /\ r = RemoveFirst(u.bySwapChain[k], p)
      BY <1>12, <1>13, <1>14, <1>16
    <2>. HIDE DEF k, slot
    <2>5. d = [u EXCEPT !.byProcess = @ \ {p}, !.bySwapChain[k] = RemoveFirst(@, p),
                        !.lost = @ \cup {p}, !.ring[slot] = NoPresent]
      BY <1>15, <2>3, <2>4, <2>2
    <2>. QED  BY <1>9, <2>4, <2>5 DEF Good, Consumers
  <1>18. Good(d, n)
    BY <1>9, <1>15, GiveUpGood
  <1>19. /\ d.byProcess = c.byProcess \ {p} /\ d.lost = c.lost \cup {p}
         /\ d.ring = [c.ring EXCEPT ![slot] = NoPresent]
         /\ d.bySwapChain = [c.bySwapChain EXCEPT ![k] = r]
         /\ d.presents = u.presents /\ d.delivered = c.delivered
         /\ d.next = c.next /\ d.failed = c.failed /\ d.dwmThread = c.dwmThread /\ d.hung = c.hung
    <2>. HIDE DEF k, slot
    <2>. QED  BY <1>9, <1>12, <1>17 DEF Good, Consumers
  <1>20. Erases(c, d, p)
    <2>1. SameLinks([u EXCEPT !.byProcess = d.byProcess], d)
      <3>. HIDE DEF k, slot
      <3>. QED  BY <1>9, <1>12, <1>17, <1>19 DEF Good, Consumers, SameLinks
    <2>2. /\ d.byThread = u.byThread /\ d.bySubmit = u.bySubmit
          /\ d.win32k = u.win32k /\ d.dxgk = u.dxgk /\ d.blits = u.blits
          /\ d.window = u.window /\ d.legacyBlit = u.legacyBlit /\ d.waiting = u.waiting
      <3>. HIDE DEF k, slot
      <3>. QED  BY <1>9, <1>17 DEF Good, Consumers
    <2>. QED  BY <1>12, <2>2 DEF Erases
  <1>21. ASSUME NEW q \in 1..n
         PROVE  (Waits(d, q) <=> Waits(c, q) /\ q # p) /\ (Out(d, q) <=> Out(c, q))
    <2>1. Key(d, q) = Key(c, q) /\ Key(c, q) \in Chains
      BY <1>3, <1>11, <1>19, KeyTyped DEF Key
    <2>2. c.bySwapChain \in [Chains -> Seq(1..n)]
      BY <1>3 DEF Consumers
    <2>3. CASE Key(c, q) = k
      <3>1. Deque(d, q) = r /\ Deque(c, q) = c.bySwapChain[k]
        <4>. HIDE DEF k
        <4>. QED  BY <1>13, <1>19, <2>1, <2>2, <2>3 DEF Deque
      <3>2. Contains(c.bySwapChain[k], p)
        BY DEF Waits, Deque
      <3>3. \A y : Contains(r, y) <=> Contains(c.bySwapChain[k], y) /\ y # p
        <4>1. PICK s : s = c.bySwapChain[k]
          OBVIOUS
        <4>2. s \in Seq(1..n) /\ (\A i, j \in 1..Len(s) : i < j => s[i] < s[j]) /\ Contains(s, p)
          <5>. HIDE DEF k
          <5>. QED  BY <1>3, <1>13, <3>2, <4>1, DequeInOrder
        <4>. HIDE DEF k
        <4>. QED  BY <1>16, <4>1, <4>2, RemovedOne
      <3>. QED  BY <1>19, <3>1, <3>3 DEF Waits, Out
    <2>4. CASE Key(c, q) # k
      <3>1. Deque(d, q) = Deque(c, q)
        <4>. HIDE DEF k
        <4>. QED  BY <1>13, <1>19, <2>1, <2>2, <2>4 DEF Deque
      <3>. QED  BY <1>19, <2>4, <3>1 DEF Waits, Out
    <2>. QED  BY <2>3, <2>4
  <1>22. Removed(c, d, n, p)
    BY <1>8, <1>9, <1>10, <1>18, <1>19, <1>20, <1>21 DEF Removed
  <1>. QED  BY <1>6, <1>7, <1>15, <1>22, RemovedNeat

-----------------------------------------------------------------------------
(* Presents that are made, and presents that are looked up.                *)

\* A present at its construction, for an event of a thread that makes presents.
Newborn(e) ==
  /\ e.mode = "Unknown" /\ e.final = "Unknown" /\ ~e.completed /\ ~e.seenWin32K
  /\ e.token = None /\ e.blitToken = None /\ e.submit = None /\ e.context = None
  /\ e.deps = <<>>
  /\ e.process = ProcessOf(e.thread) /\ trace.feeds[e.thread] \cap Creators # {}

\* PresentEvent's constructor.
LEMMA NewPresentIsNewborn ==
    ASSUME NEW t \in Threads, trace.feeds[t] \cap Creators # {}, NEW runtime, NEW swap, NEW dns
    PROVE  Newborn(NewPresent(t, runtime, swap, dns)) /\ NewPresent(t, runtime, swap,
           dns).thread = t
  BY DEF NewPresent, Newborn

\* z is c with e, under the name f, in the ring, its process, its swap chain k and its thread.
Adds(c, z, n, e, f, k) ==
  /\ z.presents[n + 1] = f
  /\ \A p \in 1..n : z.presents[p] = c.presents[p]
  /\ z.ring = [c.ring EXCEPT ![c.next] = n + 1]
  /\ z.byProcess = c.byProcess \cup {n + 1}
  /\ z.byThread = [c.byThread EXCEPT ![e.thread] =
                     IF c.byThread[e.thread] = NoPresent THEN n + 1
                     ELSE c.byThread[e.thread]]
  /\ z.bySwapChain = [c.bySwapChain EXCEPT ![k] = Append(c.bySwapChain[k], n + 1)]
  /\ z.bySubmit = c.bySubmit /\ z.win32k = c.win32k /\ z.dxgk = c.dxgk
  /\ z.blits = c.blits /\ z.window = c.window /\ z.legacyBlit = c.legacyBlit
  /\ z.waiting = c.waiting
  /\ z.delivered = c.delivered /\ z.lost = c.lost /\ z.failed = c.failed
  /\ z.dwmThread = c.dwmThread /\ z.hung = c.hung

\* TrackPresent adds a present to the ring, its process, its swap chain and its thread.
LEMMA FileFrame ==
    ASSUME NEW n \in Nat, NEW c, Good(c, n), NEW e \in Presents(n), NEW z, z = File(c, e),
           NEW f, f = [e EXCEPT !.slot = c.next], NEW k, k = <<e.process, e.swap>>
    PROVE  Adds(c, z, n, e, f, k)
  <1>1. c.presents \in Seq(Presents(n)) /\ Len(c.presents) = n /\ c \in Consumers(n)
    BY PresentsLength DEF Good
  <1>2. f \in Presents(n)
    <2>1. e \in Records(n) /\ (TimesAreTold /\ e.final = "Presented" => e.screen)
          /\ c.next \in Slots
      BY <1>1, PresentIsRecord DEF Consumers
    <2>2. PICK g : g = f
      OBVIOUS
    <2>3. g \in Records(n) /\ g.final = e.final /\ g.screen = e.screen
      BY <2>1, <2>2 DEF Records
    <2>4. g \in Presents(n)
      BY <2>3, OutcomeKept
    <2>. QED  BY <2>2, <2>4
  <1>3. PICK ps : ps = Append(c.presents, f)
    OBVIOUS
  <1>4. ps[n + 1] = f /\ \A p \in 1..n : ps[p] = c.presents[p]
    <2>1. /\ \A p \in 1..Len(c.presents) : Append(c.presents, f)[p] = c.presents[p]
          /\ Append(c.presents, f)[Len(c.presents) + 1] = f
      BY <1>1, <1>2, AppendProperties
    <2>. QED  BY <1>1, <1>3, <2>1
  <1>5. PICK next : next = (c.next + 1) % RingSize
    OBVIOUS
  <1>6. z = [c EXCEPT !.presents = ps, !.ring[c.next] = n + 1, !.next = next,
                      !.byProcess = @ \cup {n + 1}, !.bySwapChain[k] = Append(@, n + 1),
                      !.byThread[e.thread] = IF @ = NoPresent THEN n + 1 ELSE @]
    <2>1. Len(c.presents) + 1 = n + 1
      BY <1>1
    <2>. QED  BY <1>1, <1>3, <1>5, <2>1 DEF File, Consumers
  <1>7. /\ z.presents = ps
        /\ z.ring = [c.ring EXCEPT ![c.next] = n + 1]
        /\ z.byProcess = c.byProcess \cup {n + 1}
        /\ z.byThread = [c.byThread EXCEPT ![e.thread] =
                           IF c.byThread[e.thread] = NoPresent THEN n + 1
                           ELSE c.byThread[e.thread]]
        /\ z.bySwapChain = [c.bySwapChain EXCEPT ![k] = Append(c.bySwapChain[k], n + 1)]
        /\ z.bySubmit = c.bySubmit /\ z.win32k = c.win32k /\ z.dxgk = c.dxgk
        /\ z.blits = c.blits /\ z.window = c.window /\ z.legacyBlit = c.legacyBlit
        /\ z.waiting = c.waiting
        /\ z.delivered = c.delivered /\ z.lost = c.lost /\ z.failed = c.failed
        /\ z.dwmThread = c.dwmThread /\ z.hung = c.hung
    BY <1>1, <1>6 DEF Consumers
  <1>. QED  BY <1>4, <1>7 DEF Adds

\* A present that was just filed: it is the last, nobody but its thread and its process
\* finds it, and all the others are as they were.
Filed(c, z, n, e) ==
  /\ Neat(z, n + 1) /\ Open(z, n + 1) /\ z.presents[n + 1] = [e EXCEPT !.slot = c.next]
  /\ c.byThread[e.thread] = NoPresent => z.byThread[e.thread] = n + 1
  /\ z.hung = c.hung

\* TrackPresent, when its place in the ring is free.
LEMMA FileNeat ==
    ASSUME NEW n \in Nat, NEW c, Neat(c, n), c.ring[c.next] = NoPresent,
           NEW e \in Presents(n), Newborn(e)
    PROVE  Filed(c, File(c, e), n, e)
  <1>1. PICK k : k = <<e.process, e.swap>>
    OBVIOUS
  <1>2. PICK f : f = [e EXCEPT !.slot = c.next]
    OBVIOUS
  <1>3. PICK z : z = File(c, e)
    OBVIOUS
  <1>4. /\ z.presents[n + 1] = f
        /\ \A p \in 1..n : z.presents[p] = c.presents[p]
        /\ z.ring = [c.ring EXCEPT ![c.next] = n + 1]
        /\ z.byProcess = c.byProcess \cup {n + 1}
        /\ z.byThread = [c.byThread EXCEPT ![e.thread] =
                           IF c.byThread[e.thread] = NoPresent THEN n + 1
                           ELSE c.byThread[e.thread]]
        /\ z.bySwapChain = [c.bySwapChain EXCEPT ![k] = Append(c.bySwapChain[k], n + 1)]
        /\ z.bySubmit = c.bySubmit /\ z.win32k = c.win32k /\ z.dxgk = c.dxgk
        /\ z.blits = c.blits /\ z.window = c.window /\ z.legacyBlit = c.legacyBlit
        /\ z.waiting = c.waiting
        /\ z.delivered = c.delivered /\ z.lost = c.lost /\ z.failed = c.failed
        /\ z.dwmThread = c.dwmThread /\ z.hung = c.hung
    <2>1. Good(c, n)
      BY DEF Neat, Steady
    <2>2. Adds(c, z, n, e, f, k)
      BY <1>1, <1>2, <1>3, <2>1, FileFrame
    <2>. QED  BY <2>2 DEF Adds
  <1>5. Good(c, n) /\ c \in Consumers(n) /\ Good(z, n + 1) /\ z \in Consumers(n + 1)
        /\ n + 1 \in Nat
    BY <1>3, FileGood DEF Neat, Steady, Good
  <1>6. /\ f.slot = c.next /\ f.process = e.process /\ f.swap = e.swap /\ f.thread = e.thread
        /\ f.completed = e.completed /\ f.final = e.final /\ f.mode = e.mode
        /\ f.seenWin32K = e.seenWin32K /\ f.token = e.token /\ f.blitToken = e.blitToken
        /\ f.submit = e.submit /\ f.context = e.context /\ f.deps = e.deps
        /\ e.thread \in Threads
    <2>1. e \in Records(n)
      BY PresentIsRecord
    <2>2. PICK s : s = c.next
      OBVIOUS
    <2>3. PICK g : g = [e EXCEPT !.slot = s]
      OBVIOUS
    <2>4. /\ g.slot = s /\ g.process = e.process /\ g.swap = e.swap /\ g.thread = e.thread
          /\ g.completed = e.completed /\ g.final = e.final /\ g.mode = e.mode
          /\ e.thread \in Threads
      BY <2>1, <2>3 DEF Records
    <2>5. /\ g.seenWin32K = e.seenWin32K /\ g.token = e.token /\ g.blitToken = e.blitToken
          /\ g.submit = e.submit /\ g.context = e.context /\ g.deps = e.deps
      BY <2>1, <2>3 DEF Records
    <2>6. g = f
      BY <1>2, <2>2, <2>3
    <2>. QED  BY <2>2, <2>4, <2>5, <2>6
  <1>7. k \in Chains /\ Key(z, n + 1) = k /\ \A q \in 1..n : Key(z, q) = Key(c, q)
    <2>1. e \in Records(n)
      BY PresentIsRecord
    <2>2. k \in Chains
      BY <1>1, <2>1, TrackingAssumption DEF Chains, Records, Owners
    <2>. QED  BY <1>1, <1>4, <1>6, <2>2 DEF Key
  <1>8. \A q \in 1..n + 1 : q \in 1..n \/ q = n + 1
    OBVIOUS
  <1>9. n + 1 \notin 0..n /\ 1..n \subseteq 1..n + 1 /\ n + 1 \in 1..n + 1 /\ NoPresent # n + 1
    BY DEF NoPresent
  <1>10. c.bySwapChain \in [Chains -> Seq(1..n)]
    BY <1>5 DEF Consumers
  <1>11. \A q : Contains(Append(c.bySwapChain[k], n + 1), q) <=> Contains(c.bySwapChain[k], q)
         \/ q = n + 1
    <2>1. PICK s \in Seq(1..n) : s = c.bySwapChain[k]
      BY <1>7, <1>10
    <2>2. PICK a : a = Append(s, n + 1)
      OBVIOUS
    <2>3. /\ Len(s) \in Nat /\ Len(a) = Len(s) + 1 /\ a[Len(s) + 1] = n + 1
          /\ \A i \in 1..Len(s) : a[i] = s[i]
      <3>1. s \in Seq(Nat) /\ n + 1 \in Nat
        <4>1. 1..n \subseteq Nat
          OBVIOUS
        <4>. QED  BY <4>1, SeqMonotonic
      <3>. QED  BY <2>2, <3>1, AppendProperties, LenProperties
    <2>4. ASSUME NEW q PROVE Contains(a, q) <=> Contains(s, q) \/ q = n + 1
      <3>1. ASSUME Contains(a, q) PROVE Contains(s, q) \/ q = n + 1
        <4>1. PICK i \in 1..Len(s) + 1 : a[i] = q
          BY <2>3, <3>1 DEF Contains
        <4>2. i \in 1..Len(s) \/ i = Len(s) + 1
          BY <2>3
        <4>. QED  BY <2>3, <4>1, <4>2 DEF Contains
      <3>2. ASSUME Contains(s, q) PROVE Contains(a, q)
        <4>1. PICK i \in 1..Len(s) : s[i] = q
          BY <3>2 DEF Contains
        <4>2. i \in 1..Len(s) + 1
          BY <2>3
        <4>. QED  BY <2>3, <4>1, <4>2 DEF Contains
      <3>3. ASSUME q = n + 1 PROVE Contains(a, q)
        <4>1. Len(s) + 1 \in 1..Len(s) + 1
          BY <2>3
        <4>. QED  BY <2>3, <3>3, <4>1 DEF Contains
      <3>. QED  BY <3>1, <3>2, <3>3
    <2>. QED  BY <2>1, <2>2, <2>4
  <1>12. ASSUME NEW q \in 1..n
         PROVE  /\ Waits(z, q) <=> Waits(c, q)
                /\ Out(z, q) <=> Out(c, q)
                /\ Open(z, q) <=> Open(c, q)
    <2>1. Key(z, q) = Key(c, q) /\ Key(c, q) \in Chains
      BY <1>5, <1>7, KeyTyped
    <2>2. Waits(z, q) <=> Waits(c, q)
      <3>1. CASE Key(c, q) = k
        <4>1. Deque(z, q) = Append(c.bySwapChain[k], n + 1) /\ Deque(c, q) = c.bySwapChain[k]
          BY <1>4, <1>7, <1>10, <2>1, <3>1 DEF Deque
        <4>. QED  BY <1>9, <1>11, <4>1 DEF Waits
      <3>2. CASE Key(c, q) # k
        <4>1. Deque(z, q) = Deque(c, q)
          BY <1>4, <1>7, <1>10, <2>1, <3>2 DEF Deque
        <4>. QED  BY <4>1 DEF Waits
      <3>. QED  BY <3>1, <3>2
    <2>. QED  BY <1>4, <2>2 DEF Out, Open
  <1>13. Waits(z, n + 1) /\ Open(z, n + 1)
    <2>1. Deque(z, n + 1) = Append(c.bySwapChain[k], n + 1)
      BY <1>4, <1>7, <1>10 DEF Deque
    <2>2. Waits(z, n + 1)
      BY <1>11, <2>1 DEF Waits
    <2>. QED  BY <1>4, <1>6, <2>2 DEF Open, Newborn
  <1>14. ~Out(z, n + 1)
    <2>1. c.delivered \in Seq(1..n)
      BY <1>5 DEF Consumers
    <2>2. \A i \in 1..Len(c.delivered) : c.delivered[i] \in 1..n
      BY <2>1, ElementOfSeq
    <2>. QED  BY <1>4, <1>9, <2>2 DEF Out, Contains
  <1>15. Placed(z, n + 1)
    <2>1. Placed(c, n)
      BY DEF Neat, Steady
    <2>2. z.lost = c.lost /\ c.lost \subseteq 1..n
      BY <1>4, <2>1 DEF Placed
    <2>3. ASSUME NEW p \in 1..n + 1 PROVE p \in z.lost \/ Waits(z, p) \/ Out(z, p)
      BY <1>8, <1>12, <1>13, <2>1, <2>2 DEF Placed
    <2>4. ASSUME NEW p \in z.lost PROVE ~Waits(z, p) /\ ~Out(z, p)
      BY <1>12, <2>1, <2>2 DEF Placed
    <2>. QED  BY <1>9, <2>2, <2>3, <2>4 DEF Placed
  <1>16. Ringed(z, n + 1)
    <2>1. c.next \in Slots /\ c.ring \in [Slots -> 0..n]
      BY <1>5 DEF Consumers
    <2>2. \A s \in Slots : z.ring[s] = IF s = c.next THEN n + 1 ELSE c.ring[s]
      BY <1>4, <2>1
    <2>3. Ringed(c, n)
      BY DEF Neat, Steady
    <2>4. ASSUME NEW s \in Slots, z.ring[s] # NoPresent
          PROVE  Waits(z, z.ring[s]) /\ z.presents[z.ring[s]].slot = s
      <3>1. CASE s = c.next
        BY <1>4, <1>6, <1>13, <2>2, <3>1
      <3>2. CASE s # c.next
        <4>1. z.ring[s] = c.ring[s] /\ c.ring[s] # NoPresent /\ c.ring[s] \in 1..n
          BY <2>1, <2>2, <2>4, <3>2 DEF NoPresent
        <4>. QED  BY <1>4, <1>12, <2>3, <4>1 DEF Ringed
      <3>. QED  BY <3>1, <3>2
    <2>5. ASSUME NEW p \in 1..n + 1, Waits(z, p) PROVE z.ring[z.presents[p].slot] = p
      <3>1. CASE p = n + 1
        BY <1>4, <1>6, <2>1, <2>2, <3>1
      <3>2. CASE p \in 1..n
        <4>1. Waits(c, p) /\ z.presents[p] = c.presents[p]
          BY <1>4, <1>12, <2>5, <3>2
        <4>2. c.ring[c.presents[p].slot] = p /\ p # NoPresent
          BY <2>3, <3>2, <4>1 DEF Ringed, NoPresent
        <4>3. c.presents[p].slot \in Slots
          <5>1. c.presents[p] \in Records(n)
            BY <1>5, <3>2, PresentTyped, PresentIsRecord
          <5>. QED  BY <5>1 DEF Records
        <4>. QED  BY <2>2, <4>1, <4>2, <4>3
      <3>. QED  BY <1>8, <3>1, <3>2
    <2>. QED  BY <2>4, <2>5 DEF Ringed
  <1>17. Linked(z, n + 1)
    <2>. SUFFICES ASSUME NEW q \in 1..n + 1 PROVE Named(z, q) /\ (Unlinked(z, q) \/ Open(z, q))
      BY DEF Linked
    <2>1. c.byThread \in [Threads -> 0..n]
      BY <1>5 DEF Consumers
    <2>2. \A t \in Threads : z.byThread[t] = c.byThread[t] \/ (t = e.thread
          /\ z.byThread[t] = n + 1)
      BY <1>4, <2>1
    <2>3. CASE q = n + 1
      <3>1. /\ \A t \in Threads : c.byThread[t] # q
            /\ \A s \in SubmitSeqs : c.bySubmit[s] # q
            /\ \A j \in Tokens : c.win32k[j] # q /\ c.dxgk[j] # q /\ c.legacyBlit[j] # q
            /\ \A x \in Contexts : c.blits[x] # q
        BY <1>5, <1>9, <2>3 DEF Consumers
      <3>2. Named(z, q)
        BY <1>4, <1>6, <2>2, <2>3, <3>1 DEF Named, Newborn
      <3>. QED  BY <1>13, <2>3, <3>2
    <2>4. CASE q \in 1..n
      <3>1. Named(c, q) /\ (Unlinked(c, q) \/ Open(c, q))
        BY <2>4 DEF Neat, Steady, Linked
      <3>2. q # n + 1 /\ z.presents[q] = c.presents[q]
        BY <1>4, <1>9, <2>4
      <3>3. Named(z, q)
        BY <1>4, <2>2, <3>1, <3>2 DEF Named
      <3>4. Unlinked(c, q) => Unlinked(z, q)
        BY <1>4, <2>2, <3>2 DEF Unlinked
      <3>. QED  BY <1>12, <2>4, <3>1, <3>3, <3>4
    <2>. QED  BY <1>8, <2>3, <2>4
  <1>18. AllStaged(z, n + 1)
    <2>1. Staged(f)
      BY <1>6 DEF Staged, Newborn
    <2>. QED  BY <1>4, <1>8, <2>1 DEF Neat, Steady, AllStaged
  <1>19. Asserted(z)
    BY <1>4 DEF Neat, Steady, Asserted
  <1>20. Told(z, n + 1)
    BY <1>4, <1>6, <1>8, <1>12 DEF Neat, Told, Newborn
  <1>21. Lasting(z, n + 1)
    <2>1. Lasting(c, n) /\ Published \subseteq 1..n
      BY DEF Neat, Steady, Lasting
    <2>2. DOMAIN c.presents = 1..n /\ DOMAIN z.presents = 1..n + 1
      BY <1>5 DEF Consumers
    <2>3. ASSUME NEW q \in 1..n + 1, Rides(z, q) PROVE Mine(q)
      <3>1. CASE q = n + 1
        BY <1>9, <2>1, <3>1 DEF Mine
      <3>2. CASE q \in 1..n
        <4>1. z.presents[n + 1].deps = <<>>
          BY <1>4, <1>6 DEF Newborn
        <4>2. ToSet(<<>>) = {}
          BY DEF ToSet
        <4>3. Rides(c, q)
          BY <1>4, <1>8, <2>2, <2>3, <4>1, <4>2 DEF Rides
        <4>. QED  BY <2>1, <3>2, <4>3 DEF Lasting
      <3>. QED  BY <1>8, <3>1, <3>2
    <2>4. ASSUME NEW q \in Published
          PROVE  ~Waits(z, q) /\ (z.presents[q] = consumer.presents[q] \/ Mine(q))
      BY <1>4, <1>12, <2>1, <2>4 DEF Lasting
    <2>. QED  BY <1>9, <2>1, <2>3, <2>4 DEF Lasting
  <1>23. Neat(z, n + 1)
    BY <1>5, <1>15, <1>16, <1>17, <1>18, <1>19, <1>20, <1>21 DEF Neat, Steady
  <1>24. c.byThread[e.thread] = NoPresent => z.byThread[e.thread] = n + 1
    <2>1. c.byThread \in [Threads -> 0..n]
      BY <1>5 DEF Consumers
    <2>. QED  BY <1>4, <1>6, <2>1
  <1>. QED  BY <1>2, <1>3, <1>4, <1>13, <1>23, <1>24 DEF Filed

\* What waits is what it finds.
LEMMA LinkedIsOpen ==
    ASSUME NEW n \in Nat, NEW c, Linked(c, n), NEW p \in 1..n, ~Unlinked(c, p)
    PROVE  Open(c, p) /\ Waits(c, p) /\ Named(c, p)
  BY DEF Linked, Open

\* A thread that is given up leaves no present behind, and only that place of the ring.
LEMMA EvictNeat ==
    ASSUME NEW n \in Nat, NEW c, Neat(c, n)
    PROVE  LET d == Evict(c) IN
           /\ Neat(d, n) /\ d.ring[d.next] = NoPresent /\ d.next = c.next
           /\ \A t \in Threads : c.byThread[t] = NoPresent => d.byThread[t] = NoPresent
  <1>1. c.next \in Slots /\ c.ring[c.next] \in 0..n /\ c \in Consumers(n)
    BY DEF Neat, Steady, Good, Consumers
  <1>2. CASE c.ring[c.next] = NoPresent
    BY <1>2 DEF Evict
  <1>3. CASE c.ring[c.next] # NoPresent
    <2>1. PICK p : p = c.ring[c.next]
      OBVIOUS
    <2>2. p \in 1..n /\ Waits(c, p) /\ c.presents[p].slot = c.next
      BY <1>1, <1>3, <2>1 DEF Neat, Steady, Ringed, NoPresent
    <2>3. PICK d : d = RemoveLost(c, p)
      OBVIOUS
    <2>4. Removed(c, d, n, p) /\ Neat(d, n)
      BY <2>2, <2>3, RemoveLostRemoves
    <2>5. d.ring[c.next] = NoPresent /\ d.next = c.next
      BY <1>1, <2>2, <2>4 DEF Removed, Consumers
    <2>6. \A t \in Threads : c.byThread[t] = NoPresent => d.byThread[t] = NoPresent
      BY <2>4 DEF Removed, Erases
    <2>7. Evict(c) = d
      BY <1>3, <2>1, <2>3 DEF Evict
    <2>. QED  BY <2>4, <2>5, <2>6, <2>7
  <1>. QED  BY <1>2, <1>3

\* The last of the presents is new and open, and its thread works on it unless it worked
\* on another.
Makes(c, z, n, t) ==
  /\ Neat(z, n + 1) /\ Open(z, n + 1) /\ Len(z.presents) = n + 1
  /\ Newborn(z.presents[n + 1]) /\ z.presents[n + 1].thread = t
  /\ c.byThread[t] = NoPresent => z.byThread[t] = n + 1

\* A place in the ring changes nothing of that.
LEMMA NewbornAnywhere ==
    ASSUME NEW n \in Nat, NEW e \in Presents(n), Newborn(e), NEW s \in Slots
    PROVE  Newborn([e EXCEPT !.slot = s]) /\ [e EXCEPT !.slot = s].thread = e.thread
  <1>1. e \in Records(n)
    BY PresentIsRecord
  <1>2. PICK f : f = [e EXCEPT !.slot = s]
    OBVIOUS
  <1>3. /\ f.mode = e.mode /\ f.final = e.final /\ f.completed = e.completed
        /\ f.seenWin32K = e.seenWin32K /\ f.token = e.token /\ f.blitToken = e.blitToken
        /\ f.submit = e.submit
    BY <1>1, <1>2 DEF Records
  <1>4. f.context = e.context /\ f.deps = e.deps /\ f.process = e.process /\ f.thread = e.thread
    BY <1>1, <1>2 DEF Records
  <1>. QED  BY <1>2, <1>3, <1>4 DEF Newborn

\* TrackPresent makes room in the ring and files the present.
LEMMA TrackMakes ==
    ASSUME NEW n \in Nat, NEW c, Neat(c, n), NEW e \in Presents(n), Newborn(e)
    PROVE  Makes(c, Track(c, e), n, e.thread)
  <1>1. PICK d : d = Evict(c)
    OBVIOUS
  <1>2. /\ Neat(d, n) /\ d.ring[d.next] = NoPresent
        /\ \A t \in Threads : c.byThread[t] = NoPresent => d.byThread[t] = NoPresent
    BY <1>1, EvictNeat
  <1>3. PICK z : z = File(d, e)
    OBVIOUS
  <1>4. Filed(d, z, n, e)
    BY <1>2, <1>3, FileNeat
  <1>5. d.next \in Slots /\ e.thread \in Threads
    BY <1>2, PresentIsRecord DEF Neat, Steady, Good, Consumers, Records
  <1>6. Newborn(z.presents[n + 1]) /\ z.presents[n + 1].thread = e.thread
    BY <1>4, <1>5, NewbornAnywhere DEF Filed
  <1>7. Len(z.presents) = n + 1
    BY <1>4, PresentsLength DEF Filed, Neat, Steady, Good
  <1>8. Track(c, e) = z
    BY <1>1, <1>3 DEF Track
  <1>. QED  BY <1>2, <1>4, <1>5, <1>6, <1>7, <1>8 DEF Makes, Filed

\* TrackPresentOnThread.
LEMMA TrackOnThreadNeat ==
    ASSUME NEW n \in Nat, NEW c, Neat(c, n), NEW e \in Presents(n), Newborn(e)
    PROVE  Neat(TrackOnThread(c, e), n + 1)
  <1>1. PICK q : q = c.byThread[e.thread]
    OBVIOUS
  <1>2. e.thread \in Threads /\ q \in 0..n
    BY <1>1, PresentIsRecord DEF Neat, Steady, Good, Consumers, Records
  <1>3. Neat(IF q = NoPresent THEN c ELSE RemoveLost(c, q), n)
    <2>1. CASE q # NoPresent
      <3>1. q \in 1..n /\ ~Unlinked(c, q)
        BY <1>1, <1>2, <2>1 DEF Unlinked, NoPresent
      <3>2. Waits(c, q)
        BY <3>1, LinkedIsOpen DEF Neat, Steady
      <3>. QED  BY <2>1, <3>1, <3>2, RemoveLostRemoves
    <2>. QED  BY <2>1
  <1>. QED  BY <1>1, <1>3, TrackMakes DEF TrackOnThread, Makes

\* The thread's events look presents up, and nobody else of its process makes any.
LooksUp(t) == OwnThreads(trace) /\ trace.feeds[t] \cap Finders # {}

\* What a lookup returns is open, and its thread works on it.
Finds(f, n, t) ==
  /\ Neat(f.c, n) /\ f.p \in 0..n /\ f = [c |-> f.c, p |-> f.p]
  /\ f.p # NoPresent => /\ Open(f.c, f.p) /\ f.c.presents[f.p].thread = t
                        /\ f.c.byThread[t] = f.p

\* FindOrCreatePresent, and when the thread worked on none, no event was seen of it yet.
LEMMA FindOrCreateFinds ==
    ASSUME NEW n \in Nat, NEW c, Neat(c, n), NEW t \in Threads, LooksUp(t)
    PROVE  LET f == FindOrCreate(c, t) IN
           \E m \in Nat : /\ Finds(f, m, t)
                          /\ f.p # NoPresent /\ c.byThread[t] = NoPresent
                               => f.c.presents[f.p].mode = "Unknown"
  <1>1. Good(c, n) /\ c \in Consumers(n) /\ Linked(c, n)
    BY DEF Neat, Steady, Good
  <1>2. CASE c.byThread[t] # NoPresent
    <2>1. PICK p : p = c.byThread[t]
      OBVIOUS
    <2>2. p \in 1..n /\ p \in 0..n /\ ~Unlinked(c, p)
      BY <1>1, <1>2, <2>1 DEF Consumers, Unlinked, NoPresent
    <2>3. Open(c, p) /\ c.presents[p].thread = t
      BY <1>1, <2>1, <2>2, LinkedIsOpen DEF Named
    <2>4. FindOrCreate(c, t) = [c |-> c, p |-> p]
      BY <1>2, <2>1 DEF FindOrCreate
    <2>. QED  BY <1>2, <2>1, <2>2, <2>3, <2>4 DEF Finds
  <1>3. CASE c.byThread[t] = NoPresent /\ ~Tracked(c, ProcessOf(t))
    BY <1>3 DEF FindOrCreate, Finds, NoPresent
  <1>4. CASE /\ c.byThread[t] = NoPresent /\ Tracked(c, ProcessOf(t))
             /\ Unclaimed(c, ProcessOf(t)) # {}
    <2>1. PICK U : U = Unclaimed(c, ProcessOf(t))
      OBVIOUS
    <2>2. U # {} /\ U \subseteq 1..n
      BY <1>1, <1>4, <2>1 DEF Unclaimed, Consumers
    <2>3. PICK p : p = CHOOSE o \in U : \A q \in U : o <= q
      OBVIOUS
    <2>4. p \in U /\ p \in 1..n /\ p \in 0..n /\ p # NoPresent
      <3>1. U \in SUBSET Nat
        BY <2>2
      <3>2. \E m \in U : \A k \in U : m <= k
        BY <2>2, <3>1, LeastOf
      <3>3. p \in U
        BY <2>3, <3>2
      <3>. QED  BY <2>2, <3>3 DEF NoPresent
    <2>5. p \in c.byProcess /\ c.presents[p].process = ProcessOf(t)
          /\ c.presents[p].mode = "Unknown"
      BY <2>1, <2>4 DEF Unclaimed
    <2>6. Open(c, p) /\ Named(c, p)
      BY <1>1, <2>4, <2>5, LinkedIsOpen DEF Unlinked
    <2>7. c.presents[p].thread = t
      <3>1. c.presents[p].thread \in Threads
        BY <1>1, <2>4, PresentTyped, PresentIsRecord DEF Records
      <3>2. /\ c.presents[p].process = ProcessOf(c.presents[p].thread)
            /\ trace.feeds[c.presents[p].thread] \cap Creators # {}
        BY <2>5, <2>6 DEF Named
      <3>. QED  BY <2>5, <3>1, <3>2 DEF LooksUp, OwnThreads
    <2>8. PICK s : s = c.byProcess \ {p}
      OBVIOUS
    <2>9. PICK a : a = [c EXCEPT !.byProcess = s]
      OBVIOUS
    <2>10. PICK d : d = [a EXCEPT !.byThread[t] = p]
      OBVIOUS
    <2>11. Relinks(c, a, n)
      <3>1. s \in SUBSET c.byProcess /\ 0 \in 0..n
        BY <2>8
      <3>. QED  BY <2>9, <3>1, LinkNeat DEF NoPresent
    <2>12. Relinks(a, d, n)
      <3>1. Neat(a, n) /\ Open(a, p) /\ a.presents[p].thread = t
        BY <2>4, <2>6, <2>7, <2>11 DEF Relinks
      <3>. QED  BY <2>4, <2>10, <3>1, LinkNeat
    <2>13. Neat(d, n) /\ Open(d, p) /\ d.presents = c.presents
      BY <2>4, <2>6, <2>11, <2>12 DEF Relinks
    <2>14. d.byThread[t] = p
      BY <1>1, <2>9, <2>10 DEF Consumers
    <2>15. FindOrCreate(c, t) = [c |-> d, p |-> p]
      <3>1. d = [c EXCEPT !.byProcess = @ \ {p}, !.byThread[t] = p]
        BY <1>1, <2>8, <2>9, <2>10 DEF Consumers
      <3>. QED  BY <1>4, <2>1, <2>3, <3>1 DEF FindOrCreate
    <2>. QED  BY <2>4, <2>5, <2>7, <2>13, <2>14, <2>15 DEF Finds
  <1>5. CASE /\ c.byThread[t] = NoPresent /\ Tracked(c, ProcessOf(t))
             /\ Unclaimed(c, ProcessOf(t)) = {}
    <2>1. PICK e : e = NewPresent(t, "Other", None, FALSE)
      OBVIOUS
    <2>2. PICK d : d = Track(c, e)
      OBVIOUS
    <2>3. e \in Presents(n) /\ Newborn(e) /\ e.thread = t
      <3>1. e \in Presents(n)
        BY <2>1, NewPresentTyped DEF Runtimes
      <3>2. trace.feeds[t] \cap Creators # {}
        BY DEF LooksUp, Creators
      <3>. QED  BY <2>1, <3>1, <3>2, NewPresentIsNewborn
    <2>4. Makes(c, d, n, t) /\ n + 1 \in Nat /\ n + 1 \in 0..n + 1
      BY <2>2, <2>3, TrackMakes
    <2>5. FindOrCreate(c, t) = [c |-> d, p |-> n + 1]
      <3>1. FindOrCreate(c, t) = [c |-> d, p |-> Len(d.presents)]
        BY <1>5, <2>1, <2>2 DEF FindOrCreate, Newest
      <3>. QED  BY <2>4, <3>1 DEF Makes
    <2>6. Finds([c |-> d, p |-> n + 1], n + 1, t)
      BY <1>5, <2>4 DEF Finds, Makes
    <2>7. d.presents[n + 1].mode = "Unknown"
      BY <2>4 DEF Makes, Newborn
    <2>. QED  BY <2>4, <2>5, <2>6, <2>7
  <1>. QED  BY <1>2, <1>3, <1>4, <1>5

\* FindFresh: what the blit, history and Win32K handlers find has not seen their event.
\* The asserts of these three hold; the one of the flip may fail.
LEMMA FindFreshFinds ==
    ASSUME NEW n \in Nat, NEW c, Neat(c, n), NEW t \in Threads, LooksUp(t),
           NEW handler \in {"Blt", "Flip", "History", "Win32K"}
    PROVE  LET f == FindFresh(c, t, handler) IN
           \E m \in Nat : /\ Finds(f, m, t)
                          /\ f.p # NoPresent /\ handler # "Flip"
                               => ~Stuck(handler, f.c.presents[f.p])
  <1>1. PICK f : f = FindOrCreate(c, t)
    OBVIOUS
  <1>2. PICK m \in Nat : Finds(f, m, t)
    BY <1>1, FindOrCreateFinds
  <1>3. CASE ~(f.p # NoPresent /\ Stuck(handler, f.c.presents[f.p]))
    BY <1>1, <1>2, <1>3 DEF FindFresh, UnlessStuck
  <1>4. CASE f.p # NoPresent /\ Stuck(handler, f.c.presents[f.p])
    <2>1. PICK d : d = RemoveLost(f.c, f.p)
      OBVIOUS
    <2>2. Neat(d, m) /\ d.byThread[t] = NoPresent
      <3>1. f.p \in 1..m /\ Waits(f.c, f.p) /\ f.c.byThread[t] = f.p /\ Neat(f.c, m)
        BY <1>2, <1>4 DEF Finds, NoPresent, Open
      <3>2. Removed(f.c, d, m, f.p) /\ Neat(d, m)
        BY <2>1, <3>1, RemoveLostRemoves
      <3>. QED  BY <3>1, <3>2 DEF Removed, Erases
    <2>3. PICK g : g = FindOrCreate(d, t)
      OBVIOUS
    <2>4. PICK l \in Nat : /\ Finds(g, l, t)
                           /\ g.p # NoPresent => g.c.presents[g.p].mode = "Unknown"
      BY <2>2, <2>3, FindOrCreateFinds
    <2>5. FindFresh(c, t, handler) = CheckFresh(g, handler)
      BY <1>1, <1>4, <2>1, <2>3 DEF FindFresh, UnlessStuck
    <2>6. PICK fresh \in BOOLEAN : fresh = (g.p = NoPresent \/ ~Stuck(handler, g.c.presents[g.p]))
      OBVIOUS
    <2>7. CheckFresh(g, handler) = [g EXCEPT !.c = Assert_(@, FreshAssert[handler], fresh)]
      BY <2>6 DEF CheckFresh
    <2>8. handler # "Flip" => fresh
      <3>1. SUFFICES ASSUME handler # "Flip", g.p # NoPresent
                     PROVE  ~Stuck(handler, g.c.presents[g.p])
        BY <2>6
      <3>2. Staged(g.c.presents[g.p]) /\ g.c.presents[g.p].mode = "Unknown"
        BY <2>4, <3>1 DEF Finds, Neat, Steady, AllStaged, NoPresent
      <3>. QED  BY <3>1, <3>2 DEF Staged, Stuck
    <2>9. PICK a : a = Assert_(g.c, FreshAssert[handler], fresh)
      OBVIOUS
    <2>10. Neat(a, l) /\ a.presents = g.c.presents /\ a.byThread = g.c.byThread
           /\ a.bySwapChain = g.c.bySwapChain
      <3>1. CASE fresh
        BY <2>4, <2>9, <3>1 DEF Finds, Assert_
      <3>2. CASE ~fresh
        <4>1. FreshAssert[handler] = 313 /\ 313 \in Nat
          BY <2>8, <3>2 DEF FreshAssert
        <4>2. Neat(a, l)
          BY <2>4, <2>9, <4>1, AssertNeat DEF Finds
        <4>3. g.c \in Consumers(l)
          BY <2>4 DEF Finds, Neat, Steady, Good
        <4>. QED  BY <2>9, <4>2, <4>3 DEF Assert_, Consumers
      <3>. QED  BY <3>1, <3>2
    <2>11. FindFresh(c, t, handler) = [c |-> a, p |-> g.p]
      BY <2>4, <2>5, <2>7, <2>9 DEF Finds
    <2>12. Finds([c |-> a, p |-> g.p], l, t)
      BY <2>4, <2>10 DEF Finds, Open, Waits, Deque, Key
    <2>13. PICK z : z = [c |-> a, p |-> g.p]
      OBVIOUS
    <2>14. z.c.presents = g.c.presents /\ z.p = g.p /\ Finds(z, l, t)
      BY <2>10, <2>12, <2>13
    <2>15. z.p # NoPresent /\ handler # "Flip" => ~Stuck(handler, z.c.presents[z.p])
      BY <2>6, <2>8, <2>14
    <2>16. FindFresh(c, t, handler) = z
      BY <2>11, <2>13
    <2>. QED  BY <2>14, <2>15, <2>16
  <1>. QED  BY <1>3, <1>4
=============================================================================

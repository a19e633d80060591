--------------------------- MODULE Documents_proofs ---------------------------
(* Proofs about the documents of the Rust process, for any files, readers,   *)
(* streams, tasks and bounds.  Files: no agent replaces a content it has not *)
(* been shown.  Plans: what is left behind can be opened again, the text of  *)
(* a plan reads as it is meant, an update leaves the other steps alone, and  *)
(* a plan is marked only when its planner was resumed.                       *)
(* Output: what is shown of a command fits, and is its beginning and its end. *)
EXTENDS Files, Output, Plans, FiniteSetTheorems, SequenceTheorems, TLAPS

----------------------------------------------------------------------------
(* Files                                                                   *)

\* What is left as evidence was shown.
EvidenceShown ==
    \A r \in Reader, p \in Path : seen[r][p] # Missing => <<p, seen[r][p]>> \in known[r]

\* The lock: what an operation looked at is there until it is done.
LockHolds ==
    \A op \in editor :
        /\ meddled \/ disk[op.path] = op.old
        /\ op.kind = "edit" => <<op.path, op.old>> \in known[op.reader]

\* Contents and evidence keep their types (Reads of src/src/tool/write.rs).
LEMMA FilesTyped == FilesSpec => []FilesTypeOK
<1> USE FilesAssumption
<1>1. FilesInit => FilesTypeOK
  <2> SUFFICES ASSUME FilesInit PROVE FilesTypeOK
    OBVIOUS
  <2>1. disk \in [Path -> Content \cup {Missing}]
    BY DEF FilesInit
  <2>2. seen \in [Reader -> [Path -> Content \cup {Missing}]]
    BY DEF FilesInit, Nothing
  <2>3. finding \in [Reader -> [Path -> Content \cup {Missing}]]
    BY DEF FilesInit, Nothing
  <2>4. known \in [Reader -> SUBSET (Path \X Content)]
    BY DEF FilesInit
  <2> QED
    BY <2>1, <2>2, <2>3, <2>4 DEF FilesInit, FilesTypeOK
<1>2. FilesTypeOK /\ [FilesNext]_filesVars => FilesTypeOK'
  <2> SUFFICES ASSUME FilesTypeOK, [FilesNext]_filesVars
               PROVE  FilesTypeOK'
    OBVIOUS
  <2>1. ASSUME NEW r \in Reader, Finds(r)
        PROVE  FilesTypeOK'
    <3>1. PICK found \in SUBSET {p \in Path : disk[p] \in Text} \ {{}} :
            finding' = [finding EXCEPT ![r] = [p \in Path |-> IF p \in found THEN disk[p] ELSE Missing]]
      BY <2>1 DEF Finds
    <3>2. [p \in Path |-> IF p \in found THEN disk[p] ELSE Missing] \in [Path -> Content \cup {Missing}]
      BY DEF FilesTypeOK
    <3> QED
      BY <2>1, <3>1, <3>2 DEF Finds, FilesTypeOK
  <2>2. ASSUME NEW r \in Reader, Marks(r)
        PROVE  FilesTypeOK'
    <3>1. seen' \in [Reader -> [Path -> Content \cup {Missing}]]
      BY <2>2 DEF Marks, FilesTypeOK
    <3>2. {<<p, finding[r][p]>> : p \in {q \in Path : finding[r][q] # Missing}} \subseteq Path \X Content
      BY DEF FilesTypeOK
    <3>3. known' \in [Reader -> SUBSET (Path \X Content)]
      BY <2>2, <3>2 DEF Marks, FilesTypeOK
    <3>4. finding' \in [Reader -> [Path -> Content \cup {Missing}]]
      BY <2>2 DEF Marks, FilesTypeOK, Nothing
    <3> QED
      BY <2>2, <3>1, <3>3, <3>4 DEF Marks, FilesTypeOK
  <2>3. ASSUME NEW r \in Reader, WriteBegins(r)
        PROVE  FilesTypeOK'
    <3>1. editor' \subseteq Edited
      BY <2>3 DEF WriteBegins, FilesTypeOK, Edited
    <3> QED
      BY <2>3, <3>1 DEF WriteBegins, FilesTypeOK
  <2>4. ASSUME NEW r \in Reader, EditBegins(r)
        PROVE  FilesTypeOK'
    <3>1. editor' \subseteq Edited
      BY <2>4 DEF EditBegins, FilesTypeOK, Edited
    <3> QED
      BY <2>4, <3>1 DEF EditBegins, FilesTypeOK
  <2>5. ASSUME NEW op \in editor, Replaces(op)
        PROVE  /\ disk' \in [Path -> Content \cup {Missing}]
               /\ last' \subseteq Edited \X (Content \cup {Missing}) \X BOOLEAN
    BY <2>5 DEF Replaces, FilesTypeOK, Edited
  <2>6. CASE Succeeds
    <3>1. PICK op \in editor :
            /\ Replaces(op)
            /\ seen' = IF op.kind = "write"
                       THEN [r \in Reader |-> [seen[r] EXCEPT ![op.path] = Missing]]
                       ELSE [seen EXCEPT ![op.reader][op.path] = op.new]
            /\ known' = IF op.kind = "write" THEN known
                        ELSE [known EXCEPT ![op.reader] = @ \cup {<<op.path, op.new>>}]
      BY <2>6 DEF Succeeds
    <3>2. op.reader \in Reader /\ op.path \in Path /\ op.new \in Content
      BY DEF FilesTypeOK, Edited
    <3>3. seen' \in [Reader -> [Path -> Content \cup {Missing}]]
      <4>1. CASE op.kind = "write"
        BY <3>1, <4>1 DEF FilesTypeOK
      <4>2. CASE op.kind # "write"
        BY <3>1, <3>2, <4>2 DEF FilesTypeOK
      <4> QED
        BY <4>1, <4>2
    <3>4. known' \in [Reader -> SUBSET (Path \X Content)]
      BY <3>1, <3>2 DEF FilesTypeOK
    <3> QED
      BY <2>5, <2>6, <3>1, <3>3, <3>4 DEF Succeeds, FilesTypeOK
  <2>7. CASE Fails
    BY <2>5, <2>7 DEF Fails, FilesTypeOK
  <2>8. CASE Outsider
    BY <2>8 DEF Outsider, FilesTypeOK
  <2>9. CASE UNCHANGED filesVars
    BY <2>9 DEF filesVars, FilesTypeOK
  <2> QED
    BY <2>1, <2>2, <2>3, <2>4, <2>6, <2>7, <2>8, <2>9 DEF FilesNext
<1> QED
  BY <1>1, <1>2, PTL DEF FilesSpec

\* One step keeps the evidence, the lock and what was replaced.
LEMMA FilesStep ==
    ASSUME FilesTypeOK, FilesTypeOK', EvidenceShown, LockHolds, ReplacesWhatItSaw,
           [FilesNext]_filesVars
    PROVE  EvidenceShown' /\ LockHolds' /\ ReplacesWhatItSaw'
<1> USE FilesAssumption
<1> DEFINE Shown(op) == op.kind = "edit" => <<op.path, op.old>> \in known[op.reader]
<1>1. ASSUME NEW r \in Reader, Finds(r)
      PROVE  EvidenceShown' /\ LockHolds' /\ ReplacesWhatItSaw'
  BY <1>1 DEF Finds, EvidenceShown, LockHolds, ReplacesWhatItSaw
<1>2. ASSUME NEW r \in Reader, Marks(r)
      PROVE  EvidenceShown' /\ LockHolds' /\ ReplacesWhatItSaw'
  <2>1. \A q \in Reader : known[q] \subseteq known'[q]
    BY <1>2 DEF Marks, FilesTypeOK
  <2>2. EvidenceShown'
    <3> SUFFICES ASSUME NEW q \in Reader, NEW p \in Path, seen'[q][p] # Missing
                 PROVE  <<p, seen'[q][p]>> \in known'[q]
      BY DEF EvidenceShown
    <3>1. CASE q = r /\ finding[r][p] # Missing
      BY <1>2, <3>1 DEF Marks, FilesTypeOK
    <3>2. CASE ~(q = r /\ finding[r][p] # Missing)
      <4>1. seen'[q][p] = seen[q][p]
        BY <1>2, <3>2 DEF Marks, FilesTypeOK
      <4> QED
        BY <2>1, <4>1 DEF EvidenceShown
    <3> QED
      BY <3>1, <3>2
  <2>3. LockHolds'
    BY <1>2 DEF Marks, LockHolds
  <2>4. ReplacesWhatItSaw'
    BY <1>2, <2>1 DEF Marks, ReplacesWhatItSaw, FilesTypeOK, Edited
  <2> QED
    BY <2>2, <2>3, <2>4
<1>3. ASSUME NEW r \in Reader, WriteBegins(r)
      PROVE  EvidenceShown' /\ LockHolds' /\ ReplacesWhatItSaw'
  BY <1>3 DEF WriteBegins, EvidenceShown, LockHolds, ReplacesWhatItSaw
<1>4. ASSUME NEW r \in Reader, EditBegins(r)
      PROVE  EvidenceShown' /\ LockHolds' /\ ReplacesWhatItSaw'
  <2>1. PICK p \in Path, new \in Text :
          /\ seen[r][p] # Missing
          /\ disk[p] = seen[r][p]
          /\ editor' = {[reader |-> r, path |-> p, kind |-> "edit", old |-> disk[p], new |-> new]}
    BY <1>4 DEF EditBegins
  <2>2. <<p, disk[p]>> \in known[r]
    BY <2>1 DEF EvidenceShown
  <2> QED
    BY <1>4, <2>1, <2>2 DEF EditBegins, EvidenceShown, LockHolds, ReplacesWhatItSaw
<1>5. ASSUME NEW op \in editor, Replaces(op), \A q \in Reader : known[q] \subseteq known'[q]
      PROVE  ReplacesWhatItSaw'
  <2>1. last' = {<<op, disk[op.path], meddled>>}
    BY <1>5 DEF Replaces
  <2>2. op.kind = "edit" => <<op.path, op.old>> \in known'[op.reader]
    BY <1>5 DEF LockHolds, FilesTypeOK, Edited
  <2> QED
    BY <2>1, <2>2 DEF LockHolds, ReplacesWhatItSaw
<1>6. CASE Succeeds
  <2>1. PICK op \in editor :
          /\ Replaces(op)
          /\ seen' = IF op.kind = "write"
                     THEN [r \in Reader |-> [seen[r] EXCEPT ![op.path] = Missing]]
                     ELSE [seen EXCEPT ![op.reader][op.path] = op.new]
          /\ known' = IF op.kind = "write" THEN known
                      ELSE [known EXCEPT ![op.reader] = @ \cup {<<op.path, op.new>>}]
    BY <1>6 DEF Succeeds
  <2>2. op.reader \in Reader /\ op.path \in Path
    BY DEF FilesTypeOK, Edited
  <2>3. \A q \in Reader : known[q] \subseteq known'[q]
    BY <2>1, <2>2 DEF FilesTypeOK
  <2>4. EvidenceShown'
    <3> SUFFICES ASSUME NEW q \in Reader, NEW p \in Path, seen'[q][p] # Missing
                 PROVE  <<p, seen'[q][p]>> \in known'[q]
      BY DEF EvidenceShown
    <3>1. CASE op.kind = "write"
      BY <2>1, <2>2, <3>1 DEF EvidenceShown, FilesTypeOK
    <3>2. CASE op.kind # "write"
      <4>1. CASE q = op.reader /\ p = op.path
        BY <2>1, <2>2, <3>2, <4>1 DEF FilesTypeOK
      <4>2. CASE ~(q = op.reader /\ p = op.path)
        <5>1. seen'[q][p] = seen[q][p]
          BY <2>1, <2>2, <3>2, <4>2 DEF FilesTypeOK
        <5> QED
          BY <2>3, <5>1 DEF EvidenceShown
      <4> QED
        BY <4>1, <4>2
    <3> QED
      BY <3>1, <3>2
  <2> QED
    BY <1>5, <1>6, <2>1, <2>3, <2>4 DEF Succeeds, LockHolds
<1>7. CASE Fails
  <2>1. \A q \in Reader : known[q] \subseteq known'[q]
    BY <1>7 DEF Fails
  <2>2. ReplacesWhatItSaw'
    <3>1. CASE UNCHANGED last
      BY <1>7, <3>1 DEF Fails, ReplacesWhatItSaw
    <3> QED
      BY <1>5, <1>7, <2>1, <3>1 DEF Fails
  <2> QED
    BY <1>7, <2>2 DEF Fails, EvidenceShown, LockHolds
<1>8. CASE Outsider
  BY <1>8 DEF Outsider, EvidenceShown, LockHolds, ReplacesWhatItSaw
<1>9. CASE UNCHANGED filesVars
  BY <1>9 DEF filesVars, EvidenceShown, LockHolds, ReplacesWhatItSaw
<1> QED
  BY <1>1, <1>2, <1>3, <1>4, <1>6, <1>7, <1>8, <1>9 DEF FilesNext

\* No agent destroys what it has not been shown (Reads::write and Reads::edit of
\* src/src/tool/write.rs), with the evidence and the lock as inductive invariant.
THEOREM FilesSafe == FilesSpec => []ReplacesWhatItSaw
<1>1. FilesInit => EvidenceShown /\ LockHolds /\ ReplacesWhatItSaw
  BY DEF FilesInit, Nothing, EvidenceShown, LockHolds, ReplacesWhatItSaw
<1>2. FilesTypeOK /\ FilesTypeOK' /\ EvidenceShown /\ LockHolds /\ ReplacesWhatItSaw
        /\ [FilesNext]_filesVars
      => EvidenceShown' /\ LockHolds' /\ ReplacesWhatItSaw'
  BY FilesStep
<1> QED
  BY <1>1, <1>2, FilesTyped, PTL DEF FilesSpec
----------------------------------------------------------------------------
(* Numbers.                                                                *)

LEMMA HasGreatest ==
    ASSUME NEW n \in Nat, NEW S \in SUBSET (0 .. n), S # {}
    PROVE  \E m \in S : \A k \in S : k <= m
<1> DEFINE T == {k .. n : k \in S}
<1>1. IsWellFoundedOn(StrictSubsetOrdering(0 .. n), FiniteSubsetsOf(0 .. n))
  BY FS_StrictSubsetOrderingWellFounded
<1>2. T \subseteq FiniteSubsetsOf(0 .. n) /\ T # {}
  <2>1. IsFiniteSet(0 .. n)
    BY FS_Interval
  <2>2. FiniteSubsetsOf(0 .. n) = SUBSET (0 .. n)
    BY <2>1, FS_FiniteSubsetsOfFinite
  <2>3. \A k \in S : k .. n \in SUBSET (0 .. n)
    OBVIOUS
  <2>4. PICK k \in S : TRUE
    OBVIOUS
  <2>5. k .. n \in T
    BY <2>4
  <2> QED
    BY <2>2, <2>3, <2>5
<1> HIDE DEF T
<1>3. PICK x \in T : \A y \in T : <<y, x>> \notin StrictSubsetOrdering(0 .. n)
  BY <1>1, <1>2, WFMin
<1>4. PICK m \in S : x = m .. n
  BY <1>3 DEF T
<1>5. ASSUME NEW k \in S, ~ (k <= m) PROVE FALSE
  <2>1. k .. n \subseteq m .. n /\ m \in m .. n /\ m \notin k .. n
    BY <1>5
  <2>2. k .. n \in SUBSET (0 .. n) /\ m .. n \in SUBSET (0 .. n)
    OBVIOUS
  <2>3. <<k .. n, m .. n>> \in StrictSubsetOrdering(0 .. n)
    BY <2>1, <2>2 DEF StrictSubsetOrdering
  <2> QED
    BY <1>3, <1>4, <2>3 DEF T
<1> QED
  BY <1>5

LEMMA HasLeast ==
    ASSUME NEW n \in Nat, NEW S \in SUBSET (0 .. n), S # {}
    PROVE  \E m \in S : \A k \in S : m <= k
<1> DEFINE R == {n - k : k \in S}
<1>1. R \in SUBSET (0 .. n) /\ R # {}
  <2>1. \A k \in S : n - k \in 0 .. n
    OBVIOUS
  <2>2. PICK k \in S : TRUE
    OBVIOUS
  <2>3. n - k \in R
    BY <2>2
  <2> QED
    BY <2>1, <2>3
<1>2. PICK r \in R : \A q \in R : q <= r
  BY <1>1, HasGreatest
<1>3. PICK m \in S : r = n - m
  BY <1>2
<1>4. \A k \in S : n - k <= n - m
  BY <1>2, <1>3
<1>5. \A k \in S : m <= k
  BY <1>4
<1> QED
  BY <1>5

\* Induction up to a bound.
LEMMA Climb ==
    ASSUME NEW n \in Nat, NEW S, 1 \in S, \A i \in 1 .. n : i \in S /\ i + 1 \in 1 .. n => i + 1 \in S
    PROVE  1 .. n \subseteq S
<1> DEFINE T == (1 .. n) \ S
<1> SUFFICES ASSUME T # {} PROVE FALSE
  OBVIOUS
<1>1. PICK m \in T : \A k \in T : m <= k
  <2>1. T \in SUBSET (0 .. n)
    OBVIOUS
  <2> HIDE DEF T
  <2> QED
    BY <2>1, HasLeast
<1>2. m \in 1 .. n /\ m # 1 /\ m - 1 \in 1 .. n
  BY <1>1
<1>3. m - 1 \notin T
  BY <1>1, <1>2
<1> QED
  BY <1>1, <1>2, <1>3

----------------------------------------------------------------------------
(* Sequences.                                                              *)

LEMMA SeqShape ==
    ASSUME NEW S, NEW s \in Seq(S)
    PROVE  /\ Len(s) \in Nat /\ DOMAIN s = 1 .. Len(s)
           /\ s = [i \in 1 .. Len(s) |-> s[i]]
           /\ \A i \in 1 .. Len(s) : s[i] \in S
           /\ s = <<>> <=> Len(s) = 0
OBVIOUS

LEMMA SeqMade ==
    ASSUME NEW S, NEW n \in Nat, NEW s, s = [i \in 1 .. n |-> s[i]],
           \A i \in 1 .. n : s[i] \in S
    PROVE  s \in Seq(S) /\ Len(s) = n
<1>1. s \in [1 .. n -> S]
  OBVIOUS
<1> QED
  BY <1>1

LEMMA SameSeq ==
    ASSUME NEW S, NEW T, NEW s \in Seq(S), NEW t \in Seq(T), Len(s) = Len(t),
           \A i \in 1 .. Len(s) : s[i] = t[i]
    PROVE  s = t
<1>1. /\ Len(s) \in Nat
      /\ s = [i \in 1 .. Len(s) |-> s[i]]
      /\ t = [i \in 1 .. Len(t) |-> t[i]]
  BY SeqShape
<1> QED
  BY <1>1

\* How a sequence of sequences becomes one.
Grown(s, g, k) == g[1] = s[1] /\ \A i \in 2 .. k : g[i] = g[i - 1] \o s[i]

LEMMA Flattens ==
    ASSUME NEW X, NEW s \in Seq(Seq(X)), s # <<>>
    PROVE  \E f \in [1 .. Len(s) -> Seq(X)] : Grown(s, f, Len(s)) /\ FlattenSeq(s) = f[Len(s)]
<1> DEFINE n == Len(s)
           Next1(g) == [i \in 1 .. n |-> IF i = 1 THEN s[i] ELSE g[i - 1] \o s[i]]
           S == {k \in 1 .. n : \E g \in [1 .. n -> Seq(X)] : Grown(s, g, k)}
<1>1. n \in Nat /\ n >= 1 /\ \A i \in 1 .. n : s[i] \in Seq(X)
  BY SeqShape
<1>2. 1 \in S
  <2>1. s \in [1 .. n -> Seq(X)]
    BY <1>1
  <2>2. Grown(s, s, 1)
    BY DEF Grown
  <2> QED
    BY <1>1, <2>1, <2>2
<1>3. ASSUME NEW k \in 1 .. n, k \in S, k + 1 \in 1 .. n PROVE k + 1 \in S
  <2>1. PICK g \in [1 .. n -> Seq(X)] : Grown(s, g, k)
    BY <1>3
  <2> DEFINE h == [g EXCEPT ![k + 1] = g[k] \o s[k + 1]]
  <2>2. h \in [1 .. n -> Seq(X)]
    <3>1. g[k] \o s[k + 1] \in Seq(X)
      <4>1. g[k] \in Seq(X) /\ s[k + 1] \in Seq(X)
        BY <1>1, <1>3
      <4> QED
        BY <4>1, ConcatProperties
    <3> QED
      BY <3>1
  <2>3. Grown(s, h, k + 1)
    <3>1. h[1] = s[1]
      BY <1>3, <2>1 DEF Grown
    <3>2. ASSUME NEW i \in 2 .. k + 1 PROVE h[i] = h[i - 1] \o s[i]
      <4>1. CASE i = k + 1
        <5>1. h[k + 1] = g[k] \o s[k + 1] /\ h[k] = g[k] /\ (k + 1) - 1 = k
          BY <1>3
        <5> HIDE DEF h
        <5> QED
          BY <4>1, <5>1
      <4>2. CASE i # k + 1
        <5>1. i \in 2 .. k /\ h[i] = g[i] /\ h[i - 1] = g[i - 1]
          BY <1>3, <4>2
        <5> QED
          BY <2>1, <5>1 DEF Grown
      <4> QED
        BY <4>1, <4>2
    <3> HIDE DEF h
    <3> QED
      BY <3>1, <3>2 DEF Grown
  <2> HIDE DEF h
  <2> QED
    BY <1>3, <2>2, <2>3
<1>4. n \in S
  <2> HIDE DEF S, n
  <2>1. 1 .. n \subseteq S
    BY <1>1, <1>2, <1>3, Climb
  <2> QED
    BY <1>1, <2>1
<1>5. PICK f \in [1 .. n -> Seq(X)] : Grown(s, f, n)
  BY <1>4
<1>6. f = Next1(f)
  <2>1. \A i \in 1 .. n : f[i] = Next1(f)[i]
    <3>1. f[1] = s[1] /\ \A i \in 2 .. n : f[i] = f[i - 1] \o s[i]
      BY <1>5 DEF Grown
    <3>2. \A i \in 1 .. n : i # 1 => i \in 2 .. n
      BY <1>1
    <3> HIDE DEF n
    <3> QED
      BY <3>1, <3>2
  <2>2. Next1(f) = [i \in 1 .. n |-> Next1(f)[i]] /\ f = [i \in 1 .. n |-> f[i]]
    OBVIOUS
  <2> QED
    BY <2>1, <2>2
<1> DEFINE c == CHOOSE g : g = Next1(g)
<1>7. c = Next1(c)
  BY <1>6
<1>8. FlattenSeq(s) = c[n]
  BY <1>1 DEF FlattenSeq
<1>9. Grown(s, c, n)
  <2> HIDE DEF c
  <2> QED
    <3> HIDE DEF n
    <3>1. c[1] = s[1]
      BY <1>1, <1>7
    <3>2. \A i \in 2 .. n : i \in 1 .. n /\ i # 1
      BY <1>1
    <3>3. \A i \in 2 .. n : c[i] = c[i - 1] \o s[i]
      BY <1>7, <3>2
    <3> QED
      BY <3>1, <3>3 DEF Grown
<1>10. c \in [1 .. n -> Seq(X)]
  <2> DEFINE P == {i \in 1 .. n : c[i] \in Seq(X)}
  <2>1. 1 \in P
    BY <1>1, <1>9 DEF Grown
  <2>2. ASSUME NEW i \in 1 .. n, i \in P, i + 1 \in 1 .. n PROVE i + 1 \in P
    <3>1. c[i + 1] = c[i] \o s[i + 1]
      <4>1. i + 1 \in 2 .. n /\ (i + 1) - 1 = i
        BY <1>1, <2>2
      <4> HIDE DEF c, n
      <4> QED
        BY <1>9, <4>1 DEF Grown
    <3>2. c[i] \in Seq(X) /\ s[i + 1] \in Seq(X)
      BY <1>1, <2>2
    <3> HIDE DEF c, n
    <3>3. c[i + 1] \in Seq(X)
      BY <3>1, <3>2, ConcatProperties
    <3> QED
      BY <2>2, <3>3
  <2>3. 1 .. n \subseteq P
    <3> HIDE DEF P, n
    <3> QED
      BY <1>1, <2>1, <2>2, Climb
  <2>4. c = [i \in 1 .. n |-> c[i]]
    <3> HIDE DEF c
    <3> QED
      BY <1>7
  <2> QED
    BY <2>3, <2>4
<1> QED
  BY <1>8, <1>9, <1>10

----------------------------------------------------------------------------
(* Lines.                                                                  *)

LEMMA Singles ==
    ASSUME NEW S, NEW x \in S
    PROVE  <<x>> \in Seq(S) /\ Len(<<x>>) = 1 /\ <<x>>[1] = x
OBVIOUS

LEMMA Adds ==
    ASSUME NEW S, NEW s \in Seq(S), NEW x \in S
    PROVE  /\ s \o <<x>> \in Seq(S) /\ Len(s \o <<x>>) = Len(s) + 1
           /\ (s \o <<x>>)[Len(s) + 1] = x
           /\ \A j \in 1 .. Len(s) : (s \o <<x>>)[j] = s[j]
OBVIOUS

----------------------------------------------------------------------------
(* What is read of a section.                                              *)

WordLine == {line \in Line : IsWords(line)}
Split(lines) == [i \in DOMAIN lines |-> IF IsWords(lines[i]) THEN <<lines[i]>> ELSE <<>>]

LEMMA Splits ==
    ASSUME NEW lines \in Seq(Line)
    PROVE  /\ Split(lines) \in Seq(Seq(WordLine)) /\ Len(Split(lines)) = Len(lines)
           /\ \A i \in 1 .. Len(lines) :
                Split(lines)[i] = IF IsWords(lines[i]) THEN <<lines[i]>> ELSE <<>>
           /\ Detail(lines) = FlattenSeq(Split(lines))
<1>1. /\ Len(lines) \in Nat /\ DOMAIN lines = 1 .. Len(lines)
      /\ \A i \in 1 .. Len(lines) : lines[i] \in Line
  BY SeqShape
<1>2. /\ Split(lines) = [i \in 1 .. Len(lines) |-> Split(lines)[i]]
      /\ \A i \in 1 .. Len(lines) :
            Split(lines)[i] = IF IsWords(lines[i]) THEN <<lines[i]>> ELSE <<>>
  BY <1>1 DEF Split
<1>3. ASSUME NEW i \in 1 .. Len(lines) PROVE Split(lines)[i] \in Seq(WordLine)
  <2>1. CASE IsWords(lines[i])
    <3>1. lines[i] \in WordLine
      BY <1>1, <2>1 DEF WordLine
    <3> QED
      BY <1>2, <2>1, <3>1, Singles
  <2>2. CASE ~IsWords(lines[i])
    <3>1. <<>> \in Seq(WordLine)
      BY EmptySeq
    <3> QED
      BY <1>2, <2>2, <3>1
  <2> QED
    BY <2>1, <2>2
<1>4. Split(lines) \in Seq(Seq(WordLine)) /\ Len(Split(lines)) = Len(lines)
  BY <1>1, <1>2, <1>3, SeqMade
<1>5. Detail(lines) = FlattenSeq(Split(lines))
  BY DEF Detail, Split
<1> QED
  BY <1>2, <1>4, <1>5

LEMMA FlattenNone == FlattenSeq(<<>>) = <<>>
BY DEF FlattenSeq

LEMMA FlattenTyped ==
    ASSUME NEW X, NEW s \in Seq(Seq(X))
    PROVE  FlattenSeq(s) \in Seq(X)
<1>1. CASE s = <<>>
  BY <1>1, FlattenNone, EmptySeq
<1>2. CASE s # <<>>
  <2>1. PICK f \in [1 .. Len(s) -> Seq(X)] : FlattenSeq(s) = f[Len(s)]
    BY <1>2, Flattens
  <2>2. Len(s) \in 1 .. Len(s)
    BY <1>2, SeqShape
  <2> QED
    BY <2>1, <2>2
<1> QED
  BY <1>1, <1>2

LEMMA DetailTyped ==
    ASSUME NEW lines \in Seq(Line)
    PROVE  Detail(lines) \in Seq(WordLine)
BY Splits, FlattenTyped

LEMMA WordsTyped ==
    /\ Seq(WordLine) \subseteq Seq(Line)
    /\ \A lines \in Seq(WordLine) : Words(lines)
    /\ \A lines \in Seq(Line) : Words(lines) => lines \in Seq(WordLine)
<1>1. WordLine \subseteq Line
  BY DEF WordLine
<1>2. Seq(WordLine) \subseteq Seq(Line)
  BY <1>1, SeqMonotonic
<1>3. ASSUME NEW lines \in Seq(WordLine) PROVE Words(lines)
  BY SeqShape DEF Words, WordLine
<1>4. ASSUME NEW lines \in Seq(Line), Words(lines) PROVE lines \in Seq(WordLine)
  <2>1. /\ Len(lines) \in Nat /\ DOMAIN lines = 1 .. Len(lines)
        /\ lines = [i \in 1 .. Len(lines) |-> lines[i]]
        /\ \A i \in 1 .. Len(lines) : lines[i] \in Line
    BY SeqShape
  <2>2. \A i \in 1 .. Len(lines) : lines[i] \in WordLine
    BY <1>4, <2>1 DEF Words, WordLine
  <2> QED
    BY <2>1, <2>2, SeqMade
<1> QED
  BY <1>2, <1>3, <1>4

\* Above are fields, below are words: these are the detail.
LEMMA DetailBelow ==
    ASSUME NEW lines \in Seq(Line), NEW m \in 0 .. Len(lines),
           \A i \in 1 .. Len(lines) : IsWords(lines[i]) <=> i > m
    PROVE  /\ Len(Detail(lines)) = Len(lines) - m
           /\ \A j \in 1 .. Len(lines) - m : Detail(lines)[j] = lines[m + j]
<1> DEFINE n == Len(lines)
           s == Split(lines)
<1>1. /\ n \in Nat /\ m \in Nat /\ m <= n
      /\ s \in Seq(Seq(WordLine)) /\ Len(s) = n
      /\ \A i \in 1 .. n : s[i] = IF i > m THEN <<lines[i]>> ELSE <<>>
      /\ Detail(lines) = FlattenSeq(s)
  BY Splits, SeqShape
<1> HIDE DEF s, n
<1>2. CASE n = 0
  <2>1. s = <<>>
    BY <1>1, <1>2
  <2>2. Detail(lines) = <<>> /\ m = 0
    BY <1>1, <1>2, <2>1, FlattenNone
  <2> QED
    BY <1>1, <1>2, <2>2 DEF n
<1>3. CASE n # 0
  <2>1. PICK f \in [1 .. n -> Seq(WordLine)] : Grown(s, f, n) /\ FlattenSeq(s) = f[n]
    <3>1. s # <<>>
      BY <1>1, <1>3
    <3> QED
      BY <1>1, <3>1, Flattens
  <2> DEFINE Right(i) == IF i <= m THEN f[i] = <<>>
                         ELSE /\ Len(f[i]) = i - m
                              /\ \A j \in 1 .. i - m : f[i][j] = lines[m + j]
             S == {i \in 1 .. n : Right(i)}
  <2>2. 1 \in 1 .. n /\ n \in 1 .. n
    BY <1>1, <1>3
  <2>3. f[1] = s[1] /\ \A i \in 1 .. n : i + 1 \in 1 .. n => f[i + 1] = f[i] \o s[i + 1]
    <3>1. \A i \in 1 .. n : i + 1 \in 1 .. n => i + 1 \in 2 .. n /\ (i + 1) - 1 = i
      BY <1>1
    <3> QED
      BY <2>1, <3>1 DEF Grown
  <2>4. Right(1)
    <3>1. CASE 1 <= m
      BY <1>1, <2>2, <2>3, <3>1
    <3>2. CASE ~ (1 <= m)
      <4>1. m = 0 /\ f[1] = <<lines[1]>>
        BY <1>1, <2>2, <2>3, <3>2
      <4> QED
        BY <3>2, <4>1
    <3> QED
      BY <3>1, <3>2
  <2>5. ASSUME NEW i \in 1 .. n, Right(i), i + 1 \in 1 .. n PROVE Right(i + 1)
    <3>1. f[i + 1] = f[i] \o s[i + 1] /\ f[i] \in Seq(WordLine)
      BY <2>1, <2>3, <2>5
    <3>2. CASE i + 1 <= m
      <4>0. i <= m
        BY <1>1, <3>2
      <4>1. f[i] = <<>> /\ s[i + 1] = <<>>
        <5>1. f[i] = <<>>
          BY <2>5, <4>0
        <5>2. s[i + 1] = <<>>
          BY <1>1, <2>5, <3>2
        <5> QED
          BY <5>1, <5>2
      <4> QED
        BY <3>1, <3>2, <4>1
    <3>3. CASE i = m
      <4>0. i <= m /\ i + 1 > m
        BY <1>1, <3>3
      <4>1. f[i] = <<>> /\ s[i + 1] = <<lines[i + 1]>>
        <5>1. f[i] = <<>>
          BY <2>5, <4>0
        <5>2. s[i + 1] = <<lines[i + 1]>>
          BY <1>1, <2>5, <4>0
        <5> QED
          BY <5>1, <5>2
      <4>2. f[i + 1] = <<lines[i + 1]>>
        BY <3>1, <4>1
      <4>3. (i + 1) - m = 1 /\ ~ (i + 1 <= m) /\ m + 1 = i + 1
        BY <1>1, <3>3
      <4> QED
        BY <4>2, <4>3
    <3>4. CASE i > m
      <4> DEFINE d == i - m
      <4>1. /\ d \in Nat /\ (i + 1) - m = d + 1 /\ m + (d + 1) = i + 1 /\ i + 1 > m
            /\ i \in Nat /\ ~ (i <= m) /\ ~ (i + 1 <= m)
        <5>1. i \in Nat /\ m \in Nat
          BY <1>1
        <5> QED
          BY <3>4, <5>1
      <4>2. /\ Len(f[i]) = d /\ \A j \in 1 .. d : f[i][j] = lines[m + j]
            /\ s[i + 1] = <<lines[i + 1]>>
        BY <1>1, <2>5, <4>1
      <4>3. lines[i + 1] \in WordLine
        <5>1. s[i + 1] \in Seq(WordLine)
          BY <1>1, <2>5, SeqShape
        <5> QED
          BY <4>2, <5>1, SeqShape
      <4> HIDE DEF d
      <4>4. /\ Len(f[i + 1]) = d + 1
            /\ f[i + 1][d + 1] = lines[i + 1]
            /\ \A j \in 1 .. d : f[i + 1][j] = f[i][j]
        <5> DEFINE a == f[i]
                   x == lines[i + 1]
        <5>1. a \in Seq(WordLine) /\ Len(a) = d /\ x \in WordLine /\ f[i + 1] = a \o <<x>>
          BY <3>1, <4>2, <4>3
        <5> HIDE DEF a, x
        <5>2. /\ Len(a \o <<x>>) = d + 1 /\ (a \o <<x>>)[d + 1] = x
              /\ \A j \in 1 .. d : (a \o <<x>>)[j] = a[j]
          BY <5>1, Adds
        <5> QED
          BY <5>1, <5>2 DEF a, x
      <4>5. \A j \in 1 .. d + 1 : j \in 1 .. d \/ j = d + 1
        BY <4>1
      <4>6. \A j \in 1 .. d + 1 : f[i + 1][j] = lines[m + j]
        BY <4>1, <4>2, <4>4, <4>5
      <4> QED
        BY <4>1, <4>4, <4>6
    <3> QED
      BY <1>1, <3>2, <3>3, <3>4
  <2>6. Right(n)
    <3>1. 1 .. n \subseteq S
      <4>1. 1 \in S
        BY <2>2, <2>4
      <4>2. \A i \in 1 .. n : i \in S /\ i + 1 \in 1 .. n => i + 1 \in S
        BY <2>5
      <4> HIDE DEF S
      <4> QED
        BY <1>1, <4>1, <4>2, Climb
    <3> QED
      BY <2>2, <3>1
  <2>7. CASE n <= m
    BY <1>1, <2>1, <2>6, <2>7 DEF n
  <2>8. CASE ~ (n <= m)
    BY <1>1, <2>1, <2>6, <2>8 DEF n
  <2> QED
    BY <2>7, <2>8
<1> QED
  BY <1>2, <1>3

----------------------------------------------------------------------------
(* What a text is read as.                                                 *)

\* A step and a plan as they are read: a note has one line.
ReadStep == {step \in Step : step.id # 0 /\ step.note = Says(step.note.says)
                             /\ step.detail \in Seq(WordLine)}
ReadPlan == {plan \in [goal : Passage, steps : Seq(ReadStep)] : plan.goal = Says(plan.goal.says)}

LEMMA SaysTyped ==
    ASSUME NEW n \in Nat
    PROVE  Says(n) \in Passage /\ Says(n).says = n /\ Says(n).lines = <<>> /\ Says(n).sections = <<>>
<1>1. <<>> \in Seq(Line) /\ <<>> \in Seq(Section)
  BY EmptySeq
<1> QED
  BY <1>1 DEF Says, Passage

\* The lines of a field, and the last of them.
At(lines, field) == {i \in DOMAIN lines : lines[i][1] = field}

LEMMA LastOfNone ==
    ASSUME NEW lines, NEW field, NEW default, At(lines, field) = {}
    PROVE  LastOf(lines, field, default) = default
BY DEF LastOf, At

LEMMA LastOfOne ==
    ASSUME NEW lines, NEW field, NEW default, NEW p \in Nat, At(lines, field) = {p}
    PROVE  LastOf(lines, field, default) = lines[p][2]
<1>1. Max({p}) = p
  BY DEF Max
<1>2. {p} # {}
  OBVIOUS
<1> QED
  BY <1>1, <1>2 DEF LastOf, At

LEMMA LastOfSome ==
    ASSUME NEW lines \in Seq(Line), NEW field, NEW default, At(lines, field) # {}
    PROVE  \E i \in At(lines, field) : LastOf(lines, field, default) = lines[i][2]
<1>1. At(lines, field) \in SUBSET (0 .. Len(lines)) /\ Len(lines) \in Nat
  BY SeqShape DEF At
<1>2. PICK m \in At(lines, field) : \A k \in At(lines, field) : k <= m
  BY <1>1, HasGreatest
<1>3. \A k \in At(lines, field) : m >= k
  BY <1>1, <1>2
<1>4. Max(At(lines, field)) \in At(lines, field)
  BY <1>3 DEF Max
<1>5. LastOf(lines, field, default) = lines[Max(At(lines, field))][2]
  BY DEF LastOf, At
<1> QED
  BY <1>4, <1>5

LEMMA LineShape ==
    ASSUME NEW line \in Line
    PROVE  /\ line[1] \in {"status", "note", "words"}
           /\ line[1] = "status" => line[2] \in Status
           /\ line[1] = "note" => line[2] \in Nat
BY DEF Line

LEMMA LastOfTyped ==
    ASSUME NEW lines \in Seq(Line)
    PROVE  LastOf(lines, "status", "todo") \in Status /\ LastOf(lines, "note", 0) \in Nat
<1>1. \A i \in DOMAIN lines : lines[i] \in Line
  BY SeqShape
<1>2. LastOf(lines, "status", "todo") \in Status
  <2>1. CASE At(lines, "status") = {}
    BY <2>1, LastOfNone DEF Status
  <2>2. CASE At(lines, "status") # {}
    <3>1. PICK i \in At(lines, "status") : LastOf(lines, "status", "todo") = lines[i][2]
      BY <2>2, LastOfSome
    <3> QED
      BY <1>1, <3>1, LineShape DEF At
  <2> QED
    BY <2>1, <2>2
<1>3. LastOf(lines, "note", 0) \in Nat
  <2>1. CASE At(lines, "note") = {}
    BY <2>1, LastOfNone
  <2>2. CASE At(lines, "note") # {}
    <3>1. PICK i \in At(lines, "note") : LastOf(lines, "note", 0) = lines[i][2]
      BY <2>2, LastOfSome
    <3> QED
      BY <1>1, <3>1, LineShape DEF At
  <2> QED
    BY <2>1, <2>2
<1> QED
  BY <1>2, <1>3

LEMMA StepParsed ==
    ASSUME NEW section \in Section, NEW i \in Nat \ {0}
    PROVE  ParseStep(section, i) \in ReadStep
<1>1. section.head \in Nat /\ section.lines \in Seq(Line)
  BY DEF Section
<1>2. /\ LastOf(section.lines, "status", "todo") \in Status
      /\ LastOf(section.lines, "note", 0) \in Nat
  BY <1>1, LastOfTyped
<1>3. /\ Detail(section.lines) \in Seq(WordLine) /\ Detail(section.lines) \in Seq(Line)
  BY <1>1, DetailTyped, WordsTyped
<1> QED
  BY <1>1, <1>2, <1>3, SaysTyped DEF ParseStep, ReadStep, Step

LEMMA TextMade ==
    ASSUME NEW n \in Nat, NEW s \in Seq(Section)
    PROVE  [goal |-> n, sections |-> s] \in Markdown
BY DEF Markdown

LEMMA Parsed ==
    ASSUME NEW x \in Markdown
    PROVE  /\ ParsePlan(x) \in ReadPlan
           /\ ParsePlan(x).goal = Says(x.goal)
           /\ Len(ParsePlan(x).steps) = Len(x.sections)
           /\ \A i \in 1 .. Len(x.sections) : ParsePlan(x).steps[i] = ParseStep(x.sections[i], i)
<1> DEFINE s == ParsePlan(x).steps
<1>1. /\ x.goal \in Nat /\ x.sections \in Seq(Section) /\ Len(x.sections) \in Nat
      /\ DOMAIN x.sections = 1 .. Len(x.sections)
      /\ \A i \in 1 .. Len(x.sections) : x.sections[i] \in Section
  BY SeqShape DEF Markdown
<1>2. /\ s = [i \in 1 .. Len(x.sections) |-> s[i]]
      /\ \A i \in 1 .. Len(x.sections) : s[i] = ParseStep(x.sections[i], i)
  BY <1>1 DEF ParsePlan
<1>4. ParsePlan(x) = [goal |-> Says(x.goal), steps |-> s]
  BY DEF ParsePlan
<1>7. ParsePlan(x).steps = s
  OBVIOUS
<1> HIDE DEF s
<1>3. ASSUME NEW i \in 1 .. Len(x.sections) PROVE s[i] \in ReadStep
  <2>1. i \in Nat \ {0} /\ x.sections[i] \in Section
    BY <1>1
  <2> QED
    BY <1>2, <2>1, StepParsed
<1>5. s \in Seq(ReadStep) /\ Len(s) = Len(x.sections)
  BY <1>1, <1>2, <1>3, SeqMade
<1>6. ParsePlan(x) \in ReadPlan
  BY <1>1, <1>4, <1>5, SaysTyped DEF ReadPlan
<1>8. ParsePlan(x).goal = Says(x.goal)
  BY <1>4
<1> QED
  BY <1>2, <1>5, <1>6, <1>7, <1>8

LEMMA ReadIsPlan == ReadStep \subseteq Step /\ ReadPlan \subseteq Plan
<1>1. ReadStep \subseteq Step
  BY DEF ReadStep
<1>2. Seq(ReadStep) \subseteq Seq(Step)
  BY <1>1, SeqMonotonic
<1> QED
  BY <1>1, <1>2 DEF ReadPlan, Plan

----------------------------------------------------------------------------
(* What is written of a step.                                              *)

\* The fields of a step, above its detail.
NoteLines(note) == IF note.says = 0 THEN <<>> ELSE <<<<"note", note.says>>>> \o note.lines
Fields(step) == <<<<"status", step.status>>>> \o NoteLines(step.note)

LEMMA FieldsTyped ==
    ASSUME NEW step \in Step
    PROVE  Fields(step) \in Seq(Line) /\ step.note \in Passage /\ step.detail \in Seq(Line)
           /\ step.id \in Nat /\ NoteLines(step.note) \in Seq(Line) /\ <<"status", step.status>> \in Line
<1>1. /\ step.note \in Passage /\ step.detail \in Seq(Line) /\ step.id \in Nat
      /\ step.status \in Status
  BY DEF Step
<1>2. step.note.says \in Nat /\ step.note.lines \in Seq(Line)
  BY <1>1 DEF Passage
<1>3. <<"status", step.status>> \in Line /\ <<"note", step.note.says>> \in Line
  BY <1>1, <1>2 DEF Line
<1>4. <<<<"status", step.status>>>> \in Seq(Line) /\ <<<<"note", step.note.says>>>> \in Seq(Line)
  BY <1>3, Singles
<1>5. NoteLines(step.note) \in Seq(Line)
  BY <1>2, <1>4, ConcatProperties, EmptySeq DEF NoteLines
<1>6. Fields(step) \in Seq(Line)
  BY <1>4, <1>5, ConcatProperties DEF Fields
<1> QED
  BY <1>1, <1>3, <1>5, <1>6

LEMMA StepRendered ==
    ASSUME NEW step \in Step
    PROVE  /\ RenderStep(step) \in Seq(Section)
           /\ Len(RenderStep(step)) = Len(step.note.sections) + 1
           /\ Len(step.note.sections) \in Nat
           /\ RenderStep(step)[1] \in Section
           /\ RenderStep(step)[1].head = step.id
           /\ step.note.sections = <<>> =>
                RenderStep(step)[1].lines = Fields(step) \o step.detail
<1> DEFINE own == [head |-> step.id, lines |-> Fields(step)]
           all == <<own>> \o step.note.sections
           n == Len(step.note.sections)
           r == RenderStep(step)
<1>1. /\ Fields(step) \in Seq(Line) /\ step.detail \in Seq(Line) /\ step.id \in Nat
      /\ step.note.sections \in Seq(Section) /\ n \in Nat
  BY FieldsTyped, SeqShape DEF Passage
<1>2. own \in Section
  BY <1>1 DEF Section
<1> HIDE DEF own
<1>3. <<own>> \in Seq(Section) /\ Len(<<own>>) = 1 /\ <<own>>[1] = own
  BY <1>2, Singles
<1>4. all \in Seq(Section) /\ Len(all) = n + 1 /\ all[1] = own
  BY <1>1, <1>3, ConcatProperties
<1>5. r = [all EXCEPT ![Len(all)].lines = @ \o step.detail]
  BY DEF RenderStep, own, Fields, NoteLines
<1> DEFINE final == [all[n + 1] EXCEPT !.lines = @ \o step.detail]
<1> HIDE DEF all, n, r
<1>6. all[n + 1] \in Section
  BY <1>1, <1>4, SeqShape
<1>7. final \in Section /\ final.head = all[n + 1].head /\ final.lines = all[n + 1].lines \o step.detail
  <2>1. all[n + 1].lines \in Seq(Line)
    BY <1>6 DEF Section
  <2>2. all[n + 1].lines \o step.detail \in Seq(Line)
    BY <1>1, <2>1, ConcatProperties
  <2> QED
    BY <1>6, <2>2 DEF Section
<1>8. r = [all EXCEPT ![n + 1] = final]
  BY <1>4, <1>5
<1> HIDE DEF final
<1>9. /\ r \in Seq(Section) /\ Len(r) = n + 1
      /\ r[1] = IF n = 0 THEN final ELSE own
  <2>1. n + 1 \in 1 .. Len(all) /\ 1 \in 1 .. Len(all) /\ (n + 1 = 1 <=> n = 0)
    BY <1>1, <1>4
  <2> QED
    BY <1>4, <1>7, <1>8, <2>1, ExceptSeq
<1>10. n = 0 => all[n + 1] = own
  BY <1>4
<1>11. own.head = step.id /\ own.lines = Fields(step)
  BY DEF own
<1>12. step.note.sections = <<>> => n = 0
  BY DEF n
<1> QED
  BY <1>1, <1>2, <1>7, <1>9, <1>10, <1>11, <1>12 DEF n, r

----------------------------------------------------------------------------
(* What a step is written as, and read as again.                           *)

\* What stands above the words of a step.
Above(status, n) ==
    <<<<"status", status>>>> \o IF n = 0 THEN <<>> ELSE <<<<"note", n>>>>

LEMMA AboveTyped ==
    ASSUME NEW status \in Status, NEW n \in Nat
    PROVE  /\ Above(status, n) \in Seq(Line)
           /\ Len(Above(status, n)) = (IF n = 0 THEN 1 ELSE 2)
           /\ Above(status, n)[1] = <<"status", status>>
           /\ n # 0 => Above(status, n)[2] = <<"note", n>>
<1>1. <<"status", status>> \in Line /\ <<"note", n>> \in Line
  BY DEF Line
<1>2. /\ <<<<"status", status>>>> \in Seq(Line) /\ Len(<<<<"status", status>>>>) = 1
      /\ <<<<"status", status>>>>[1] = <<"status", status>>
  BY <1>1, Singles
<1>3. CASE n = 0
  BY <1>2, <1>3, ConcatEmptySeq DEF Above
<1>4. CASE n # 0
  <2>1. Above(status, n) = <<<<"status", status>>>> \o <<<<"note", n>>>>
    BY <1>4 DEF Above
  <2>2. /\ Above(status, n) \in Seq(Line) /\ Len(Above(status, n)) = 1 + 1
        /\ Above(status, n)[1 + 1] = <<"note", n>>
        /\ \A j \in 1 .. 1 : Above(status, n)[j] = <<<<"status", status>>>>[j]
    BY <1>1, <1>2, <2>1, Adds
  <2> QED
    BY <1>2, <1>4, <2>2
<1> QED
  BY <1>3, <1>4

Stacked(status, n, words) == Above(status, n) \o words

LEMMA FieldsRead ==
    ASSUME NEW status \in Status, NEW n \in Nat, NEW words \in Seq(WordLine), NEW lines,
           lines = Stacked(status, n, words)
    PROVE  /\ LastOf(lines, "status", "todo") = status
           /\ LastOf(lines, "note", 0) = n
           /\ Detail(lines) = words
<1> DEFINE m == IF n = 0 THEN 1 ELSE 2
<1>1. /\ words \in Seq(Line) /\ Len(words) \in Nat
      /\ \A i \in 1 .. Len(words) : words[i] \in WordLine
  BY WordsTyped, SeqShape
<1>2. /\ lines \in Seq(Line) /\ Len(lines) = m + Len(words) /\ DOMAIN lines = 1 .. Len(lines)
      /\ lines[1] = <<"status", status>>
      /\ m = 2 => lines[2] = <<"note", n>>
      /\ \A j \in 1 .. Len(words) : lines[m + j] = words[j]
  <2>1. lines \in Seq(Line) /\ Len(lines) = m + Len(words)
        /\ \A i \in 1 .. m + Len(words) :
                lines[i] = IF i <= m THEN Above(status, n)[i] ELSE words[i - m]
    <3>1. Above(status, n) \in Seq(Line) /\ Len(Above(status, n)) = m
      BY AboveTyped
    <3> HIDE DEF m
    <3> QED
      BY <1>1, <3>1, ConcatProperties DEF Stacked
  <2>2. \A j \in 1 .. Len(words) : lines[m + j] = words[j]
    <3> SUFFICES ASSUME NEW j \in 1 .. Len(words) PROVE lines[m + j] = words[j]
      OBVIOUS
    <3>1. m + j \in 1 .. m + Len(words) /\ ~ (m + j <= m) /\ (m + j) - m = j
      BY <1>1
    <3> QED
      BY <2>1, <3>1
  <2>3. 1 \in 1 .. m + Len(words) /\ (m = 2 => 2 \in 1 .. m + Len(words) /\ n # 0)
    BY <1>1
  <2> QED
    BY <2>1, <2>2, <2>3, AboveTyped, SeqShape
<1>3. m \in {1, 2} /\ (m = 1 <=> n = 0) /\ m \in 0 .. Len(lines)
  BY <1>1, <1>2
<1> HIDE DEF m
<1>4. ASSUME NEW i \in 1 .. Len(lines)
      PROVE  /\ IsWords(lines[i]) <=> i > m
             /\ i > m => lines[i][1] = "words"
             /\ i = 1 => lines[i][1] = "status" /\ lines[i][2] = status
             /\ i = 2 /\ m = 2 => lines[i][1] = "note" /\ lines[i][2] = n
  <2>1. CASE i > m
    <3>1. i - m \in 1 .. Len(words) /\ m + (i - m) = i
      BY <1>1, <1>2, <1>3, <2>1
    <3>2. lines[i] = words[i - m]
      BY <1>2, <3>1
    <3>3. lines[i] \in WordLine
      BY <1>1, <3>1, <3>2
    <3>4. IsWords(lines[i])
      BY <3>3 DEF WordLine
    <3>5. i # 1 /\ ~ (i = 2 /\ m = 2)
      BY <1>3, <2>1
    <3> QED
      BY <2>1, <3>4, <3>5 DEF IsWords
  <2>2. CASE ~ (i > m)
    <3>1. i = 1 \/ (i = 2 /\ m = 2)
      BY <1>3, <2>2
    <3>2. CASE i = 1
      BY <1>2, <2>2, <3>2 DEF IsWords
    <3>3. CASE i = 2 /\ m = 2
      BY <1>2, <2>2, <3>3 DEF IsWords
    <3> QED
      BY <3>1, <3>2, <3>3
  <2> QED
    BY <2>1, <2>2
<1>5. 1 \in 1 .. Len(lines) /\ (m = 2 => 2 \in 1 .. Len(lines))
  BY <1>1, <1>2, <1>3
<1>6. ASSUME NEW i \in 1 .. Len(lines) PROVE i > m \/ i = 1 \/ (i = 2 /\ m = 2)
  BY <1>3
<1>7. At(lines, "status") = {1}
  BY <1>2, <1>4, <1>5, <1>6 DEF At
<1>8. LastOf(lines, "status", "todo") = status
  <2>1. lines[1][2] = status
    BY <1>2
  <2> QED
    BY <1>7, <2>1, LastOfOne
<1>9. LastOf(lines, "note", 0) = n
  <2>1. CASE m = 1
    <3>1. At(lines, "note") = {}
      BY <1>2, <1>4, <1>6, <2>1 DEF At
    <3> QED
      BY <1>3, <2>1, <3>1, LastOfNone
  <2>2. CASE m = 2
    <3>1. At(lines, "note") = {m}
      BY <1>2, <1>4, <1>5, <1>6, <2>2 DEF At
    <3>2. lines[m][2] = n /\ m \in Nat
      BY <1>2, <2>2
    <3> QED
      BY <3>1, <3>2, LastOfOne
  <2> QED
    BY <1>3, <2>1, <2>2
<1>10. Detail(lines) = words
  <2>1. /\ Len(Detail(lines)) = Len(lines) - m
        /\ \A j \in 1 .. Len(lines) - m : Detail(lines)[j] = lines[m + j]
    BY <1>2, <1>3, <1>4, DetailBelow
  <2>2. Detail(lines) \in Seq(WordLine)
    BY <1>2, DetailTyped
  <2>3. Len(lines) - m = Len(words)
    BY <1>1, <1>2, <1>3
  <2> QED
    BY <1>2, <2>1, <2>2, <2>3, SameSeq
<1> QED
  BY <1>8, <1>9, <1>10

\* The words that stand below: those of the note, and the detail.
Below(step) == IF step.note.says = 0 THEN step.detail ELSE step.note.lines \o step.detail

LEMMA FieldsShape ==
    ASSUME NEW step \in Step
    PROVE  Fields(step) \o step.detail = Above(step.status, step.note.says) \o Below(step)
<1> DEFINE a == <<<<"status", step.status>>>>
           b == <<<<"note", step.note.says>>>>
           c == step.note.lines
           d == step.detail
<1>1. c \in Seq(Line) /\ d \in Seq(Line) /\ a \in Seq(Line) /\ b \in Seq(Line)
  <2>1. /\ step.note.lines \in Seq(Line) /\ step.detail \in Seq(Line)
        /\ <<"status", step.status>> \in Line /\ <<"note", step.note.says>> \in Line
    BY DEF Step, Passage, Line
  <2> QED
    BY <2>1, Singles
<1>2. /\ Fields(step) = a \o (IF step.note.says = 0 THEN <<>> ELSE b \o c)
      /\ Above(step.status, step.note.says) = a \o (IF step.note.says = 0 THEN <<>> ELSE b)
      /\ Below(step) = IF step.note.says = 0 THEN d ELSE c \o d
  BY DEF Fields, NoteLines, Above, Below
<1> HIDE DEF a, b, c
<1>3. CASE step.note.says = 0
  BY <1>2, <1>3
<1>4. CASE step.note.says # 0
  <2>1. Fields(step) = a \o (b \o c) /\ Above(step.status, step.note.says) = a \o b /\ Below(step) = c \o d
    BY <1>2, <1>4
  <2> HIDE DEF d
  <2>2. (a \o (b \o c)) \o d = (a \o b) \o (c \o d)
    <3>1. a \o b \in Seq(Line)
      BY <1>1, ConcatProperties
    <3>2. (a \o b) \o c = a \o (b \o c)
      BY <1>1, ConcatAssociative
    <3>3. ((a \o b) \o c) \o d = (a \o b) \o (c \o d)
      BY <1>1, <3>1, ConcatAssociative
    <3> QED
      BY <3>2, <3>3
  <2> QED
    BY <2>1, <2>2 DEF d
<1> QED
  BY <1>3, <1>4

LEMMA StepWith ==
    ASSUME NEW step \in Step, NEW n, NEW b
    PROVE  [step EXCEPT !.note = n, !.detail = b] =
              [id |-> step.id, status |-> step.status, note |-> n, detail |-> b]
<1> USE DEF Step
<1> DEFINE r == [step EXCEPT !.note = n, !.detail = b]
<1>1. r = [f \in {"id", "status", "note", "detail"} |-> r[f]]
  OBVIOUS
<1>2. r.id = step.id /\ r.status = step.status /\ r.note = n /\ r.detail = b
  OBVIOUS
<1> HIDE DEF r
<1>3. r = [id |-> step.id, status |-> step.status, note |-> n, detail |-> b]
  BY <1>1, <1>2
<1> QED
  BY <1>3 DEF r

\* A step that says no more than its fields is read as it is meant, with its note's
\* other lines above its detail.
LEMMA StepRead ==
    ASSUME NEW step \in Step, step.id # 0, Innocent(step.note), Words(step.detail), NEW i
    PROVE  ParseStep(RenderStep(step)[1], i) =
              [step EXCEPT !.note = Says(@.says), !.detail = Below(step)]
<1> DEFINE section == RenderStep(step)[1]
<1>1. section.head = step.id /\ section.lines = Above(step.status, step.note.says) \o Below(step)
  BY StepRendered, FieldsShape DEF Innocent
<1>2. /\ step.status \in Status /\ step.note.says \in Nat
      /\ step.note.lines \in Seq(Line) /\ step.detail \in Seq(Line)
  BY DEF Step, Passage
<1>3. Below(step) \in Seq(WordLine)
  <2>1. step.note.lines \in Seq(WordLine) /\ step.detail \in Seq(WordLine)
    BY <1>2, WordsTyped DEF Innocent
  <2> QED
    BY <2>1, ConcatProperties DEF Below
<1> HIDE DEF section
<1>4. /\ LastOf(section.lines, "status", "todo") = step.status
      /\ LastOf(section.lines, "note", 0) = step.note.says
      /\ Detail(section.lines) = Below(step)
  <2> DEFINE lines == section.lines
  <2>1. lines = Stacked(step.status, step.note.says, Below(step))
    BY <1>1 DEF Stacked
  <2> HIDE DEF lines
  <2>2. /\ LastOf(lines, "status", "todo") = step.status
        /\ LastOf(lines, "note", 0) = step.note.says
        /\ Detail(lines) = Below(step)
    BY <1>2, <1>3, <2>1, FieldsRead
  <2> QED
    BY <2>2 DEF lines
<1>5. ParseStep(section, i) = [id |-> step.id, status |-> step.status,
                               note |-> Says(step.note.says), detail |-> Below(step)]
  BY <1>1, <1>4 DEF ParseStep
<1>6. [step EXCEPT !.note = Says(@.says), !.detail = Below(step)] =
            [id |-> step.id, status |-> step.status,
             note |-> Says(step.note.says), detail |-> Below(step)]
  <2> DEFINE b == Below(step)
             n == Says(step.note.says)
  <2> HIDE DEF section, b, n
  <2>2. [step EXCEPT !.note = n, !.detail = b] =
            [id |-> step.id, status |-> step.status, note |-> n, detail |-> b]
    BY StepWith
  <2> QED
    BY <2>2 DEF b, n
<1> QED
  BY <1>5, <1>6 DEF section

\* What was read is read again.
LEMMA ReadAgain ==
    ASSUME NEW step \in ReadStep, NEW i
    PROVE  /\ ParseStep(RenderStep(step)[1], i) = step
           /\ Len(RenderStep(step)) = 1
<1>1. /\ step \in Step /\ step.id # 0 /\ step.note = Says(step.note.says)
      /\ step.detail \in Seq(WordLine) /\ step.note.says \in Nat
  BY DEF ReadStep, Step, Passage
<1>2. step.note.lines = <<>> /\ step.note.sections = <<>>
  BY <1>1, SaysTyped
<1>3. Innocent(step.note) /\ Words(step.detail)
  BY <1>1, <1>2, WordsTyped, EmptySeq DEF Innocent, Words
<1>4. Below(step) = step.detail
  <2>1. <<>> \o step.detail = step.detail
    BY <1>1, ConcatEmptySeq
  <2> QED
    BY <1>2, <2>1 DEF Below
<1>5. [step EXCEPT !.note = Says(@.says), !.detail = Below(step)] = step
  <2>1. step = [id |-> step.id, status |-> step.status, note |-> step.note, detail |-> step.detail]
    BY <1>1 DEF Step
  <2> QED
    BY <1>1, <1>4, <2>1
<1>6. Len(RenderStep(step)) = 1
  <2>1. Len(step.note.sections) = 0
    BY <1>2
  <2> QED
    <3>1. step \in Step
      BY <1>1
    <3>2. Len(RenderStep(step)) = Len(step.note.sections) + 1
      BY <3>1, StepRendered
    <3> QED
      BY <2>1, <3>2
<1> QED
  BY <1>1, <1>3, <1>5, <1>6, StepRead

\* The sections of several steps, of which one may make several.
LEMMA FlattenSplits ==
    ASSUME NEW X, NEW s \in Seq(Seq(X)), NEW k \in 1 .. Len(s),
           \A i \in 1 .. Len(s) : IF i = k THEN Len(s[i]) # 0 ELSE Len(s[i]) = 1
    PROVE  LET m == Len(s[k])
               f == FlattenSeq(s)
           IN  /\ f \in Seq(X) /\ m \in Nat /\ m # 0
               /\ Len(f) = Len(s) + (m - 1)
               /\ \A i \in 1 .. k : f[i] = s[i][1]
               /\ \A i \in k + 1 .. Len(s) : f[i + (m - 1)] = s[i][1]
<1> DEFINE n == Len(s)
           m == Len(s[k])
<1>1. /\ n \in Nat /\ k \in Nat /\ 1 <= k /\ k <= n /\ s # <<>>
      /\ \A i \in 1 .. n : s[i] \in Seq(X)
      /\ m \in Nat /\ m # 0
  <2>1. /\ n \in Nat /\ k \in Nat /\ 1 <= k /\ k <= n /\ s # <<>>
        /\ \A i \in 1 .. n : s[i] \in Seq(X)
    BY SeqShape
  <2>2. s[k] \in Seq(X)
    BY <2>1
  <2> QED
    BY <2>1, <2>2, SeqShape
<1>2. PICK f \in [1 .. n -> Seq(X)] : Grown(s, f, n) /\ FlattenSeq(s) = f[n]
  BY <1>1, Flattens
<1> DEFINE p == m - 1
<1>3. p \in Nat /\ m = p + 1
  BY <1>1
<1> DEFINE Right(i) == IF i < k
                       THEN Len(f[i]) = i /\ \A j \in 1 .. i : f[i][j] = s[j][1]
                       ELSE /\ Len(f[i]) = i + p
                            /\ \A j \in 1 .. k : f[i][j] = s[j][1]
                            /\ \A j \in k + 1 .. i : f[i][j + p] = s[j][1]
           S == {i \in 1 .. n : Right(i)}
<1>4. \A i \in 1 .. n : IF i = k THEN Len(s[i]) = p + 1 ELSE Len(s[i]) = 1
  BY <1>3
<1> HIDE DEF n, m, p
<1>5. f[1] = s[1] /\ \A i \in 1 .. n : i + 1 \in 1 .. n => f[i + 1] = f[i] \o s[i + 1]
  <2>1. \A i \in 1 .. n : i + 1 \in 1 .. n => i + 1 \in 2 .. n /\ (i + 1) - 1 = i
    BY <1>1
  <2> QED
    BY <1>2, <2>1 DEF Grown
<1>6. Right(1)
  <2>1. 1 \in 1 .. n
    BY <1>1
  <2>2. CASE k = 1
    <3>1. Len(f[1]) = 1 + p /\ f[1][1] = s[1][1]
      BY <1>3, <1>4, <1>5, <2>1, <2>2
    <3> QED
      BY <1>1, <2>2, <3>1
  <2>3. CASE k # 1
    <3>1. Len(f[1]) = 1 /\ f[1][1] = s[1][1]
      BY <1>4, <1>5, <2>1, <2>3
    <3> QED
      BY <1>1, <2>3, <3>1
  <2> QED
    BY <2>2, <2>3
<1>7. ASSUME NEW i \in 1 .. n, Right(i), i + 1 \in 1 .. n PROVE Right(i + 1)
  <2>1. /\ f[i + 1] = f[i] \o s[i + 1] /\ f[i] \in Seq(X) /\ s[i + 1] \in Seq(X)
    BY <1>1, <1>2, <1>5, <1>7
  <2>2. /\ Len(f[i + 1]) = Len(f[i]) + Len(s[i + 1])
        /\ \A j \in 1 .. Len(f[i]) + Len(s[i + 1]) :
              f[i + 1][j] = IF j <= Len(f[i]) THEN f[i][j] ELSE s[i + 1][j - Len(f[i])]
        /\ Len(f[i]) \in Nat
    BY <2>1, ConcatProperties, SeqShape
  <2>3. i \in Nat
    BY <1>1
  <2>4. CASE i + 1 < k
    <3>1. Len(f[i]) = i /\ Len(s[i + 1]) = 1 /\ \A j \in 1 .. i : f[i][j] = s[j][1]
      BY <1>1, <1>4, <1>7, <2>3, <2>4
    <3>2. \A j \in 1 .. i + 1 : f[i + 1][j] = s[j][1]
      <4> SUFFICES ASSUME NEW j \in 1 .. i + 1 PROVE f[i + 1][j] = s[j][1]
        OBVIOUS
      <4>1. CASE j <= i
        BY <2>2, <2>3, <3>1, <4>1
      <4>2. CASE j = i + 1
        <5>1. ~ (j <= i) /\ j - i = 1 /\ j \in 1 .. i + 1
          BY <2>3, <4>2
        <5> QED
          BY <2>2, <3>1, <4>2, <5>1
      <4> QED
        BY <2>3, <4>1, <4>2
    <3> QED
      BY <2>2, <2>4, <3>1, <3>2
  <2>5. CASE i + 1 = k
    <3>1. Len(f[i]) = i /\ Len(s[i + 1]) = p + 1 /\ \A j \in 1 .. i : f[i][j] = s[j][1]
      BY <1>1, <1>4, <1>7, <2>3, <2>5
    <3>2. Len(f[i + 1]) = (i + 1) + p
      BY <1>3, <2>2, <2>3, <3>1
    <3>3. ASSUME NEW j \in 1 .. i + 1 PROVE f[i + 1][j] = s[j][1]
      <4>0. j \in 1 .. i + (p + 1)
        BY <1>3, <2>3
      <4>1. CASE j <= i
        BY <2>2, <2>3, <3>1, <4>0, <4>1
      <4>2. CASE j = i + 1
        <5>1. ~ (j <= i) /\ j - i = 1
          BY <2>3, <4>2
        <5> QED
          BY <2>2, <3>1, <4>0, <4>2, <5>1
      <4> QED
        BY <2>3, <4>1, <4>2
    <3>4. ~ (i + 1 < k) /\ k + 1 .. i + 1 = {}
      BY <1>1, <2>5
    <3> QED
      BY <2>5, <3>2, <3>3, <3>4
  <2>6. CASE i + 1 > k
    <3>1. /\ Len(f[i]) = i + p /\ Len(s[i + 1]) = 1
          /\ \A j \in 1 .. k : f[i][j] = s[j][1]
          /\ \A j \in k + 1 .. i : f[i][j + p] = s[j][1]
      BY <1>1, <1>4, <1>7, <2>3, <2>6
    <3>2. Len(f[i + 1]) = (i + 1) + p
      BY <1>3, <2>2, <2>3, <3>1
    <3>3. ASSUME NEW j \in 1 .. k PROVE f[i + 1][j] = s[j][1]
      <4>1. j \in 1 .. (i + p) + 1 /\ j <= i + p
        BY <1>1, <1>3, <2>3, <2>6
      <4> QED
        BY <2>2, <3>1, <4>1
    <3>4. ASSUME NEW j \in k + 1 .. i + 1 PROVE f[i + 1][j + p] = s[j][1]
      <4>0. j + p \in 1 .. (i + p) + 1
        BY <1>1, <1>3, <2>3
      <4>1. CASE j <= i
        <5>1. j \in k + 1 .. i /\ j + p <= i + p
          BY <1>1, <1>3, <2>3, <4>1
        <5> QED
          BY <2>2, <3>1, <4>0, <5>1
      <4>2. CASE j = i + 1
        <5> DEFINE at == j + p
        <5>1. ~ (at <= i + p) /\ at - (i + p) = 1
          BY <1>3, <2>3, <4>2
        <5>2. at \in 1 .. Len(f[i]) + Len(s[i + 1])
          BY <3>1, <4>0
        <5> HIDE DEF at
        <5>3. f[i + 1][at] = s[i + 1][1]
          BY <2>2, <3>1, <5>1, <5>2
        <5> QED
          BY <4>2, <5>3 DEF at
      <4> QED
        BY <1>1, <2>3, <4>1, <4>2
    <3>5. ~ (i + 1 < k)
      BY <1>1, <2>3, <2>6
    <3> QED
      BY <3>2, <3>3, <3>4, <3>5
  <2> QED
    BY <1>1, <2>3, <2>4, <2>5, <2>6
<1>8. Right(n)
  <2>1. 1 \in S /\ n \in 1 .. n
    BY <1>1, <1>6
  <2>2. \A i \in 1 .. n : i \in S /\ i + 1 \in 1 .. n => i + 1 \in S
    BY <1>7
  <2>3. 1 .. n \subseteq S
    <3> HIDE DEF S
    <3> QED
      BY <1>1, <2>1, <2>2, Climb
  <2> QED
    BY <2>1, <2>3
<1>9. ~ (n < k) /\ f[n] \in Seq(X)
  BY <1>1, <1>2
<1> QED
  BY <1>1, <1>2, <1>8, <1>9 DEF n, m, p

----------------------------------------------------------------------------
(* What a plan is written as, and read as again.                           *)

SectionsOf(steps) == [i \in DOMAIN steps |-> RenderStep(steps[i])]

LEMMA StepsRendered ==
    ASSUME NEW steps \in Seq(Step)
    PROVE  /\ SectionsOf(steps) \in Seq(Seq(Section)) /\ Len(SectionsOf(steps)) = Len(steps)
           /\ Len(steps) \in Nat
           /\ \A i \in 1 .. Len(steps) : SectionsOf(steps)[i] = RenderStep(steps[i]) /\ steps[i] \in Step
<1>1. /\ Len(steps) \in Nat /\ DOMAIN steps = 1 .. Len(steps)
      /\ \A i \in 1 .. Len(steps) : steps[i] \in Step
  BY SeqShape
<1>2. /\ SectionsOf(steps) = [i \in 1 .. Len(steps) |-> SectionsOf(steps)[i]]
      /\ \A i \in 1 .. Len(steps) : SectionsOf(steps)[i] = RenderStep(steps[i])
  BY <1>1 DEF SectionsOf
<1>3. \A i \in 1 .. Len(steps) : SectionsOf(steps)[i] \in Seq(Section)
  BY <1>1, <1>2, StepRendered
<1> HIDE DEF SectionsOf
<1> QED
  BY <1>1, <1>2, <1>3, SeqMade

LEMMA FlattenSolid ==
    ASSUME NEW X, NEW s \in Seq(Seq(X)), s # <<>>, \A i \in 1 .. Len(s) : Len(s[i]) # 0
    PROVE  FlattenSeq(s) # <<>>
<1> DEFINE n == Len(s)
<1>1. n \in Nat /\ n \in 1 .. n /\ \A i \in 1 .. n : s[i] \in Seq(X) /\ Len(s[i]) # 0
  BY SeqShape
<1>2. PICK f \in [1 .. n -> Seq(X)] : Grown(s, f, n) /\ FlattenSeq(s) = f[n]
  BY Flattens
<1> HIDE DEF n
<1>3. Len(f[n]) # 0
  <2>1. CASE n = 1
    BY <1>1, <1>2, <2>1 DEF Grown
  <2>2. CASE n # 1
    <3>1. n \in 2 .. n /\ n - 1 \in 1 .. n
      BY <1>1, <2>2
    <3>2. f[n] = f[n - 1] \o s[n] /\ f[n - 1] \in Seq(X) /\ s[n] \in Seq(X)
      BY <1>1, <1>2, <3>1 DEF Grown
    <3>3. Len(f[n]) = Len(f[n - 1]) + Len(s[n]) /\ Len(f[n - 1]) \in Nat /\ Len(s[n]) \in Nat
      BY <3>2, ConcatProperties, SeqShape
    <3> QED
      <4>1. Len(s[n]) # 0
        BY <1>1
      <4>2. \A a, b \in Nat : b # 0 => a + b # 0
        OBVIOUS
      <4>3. Len(f[n - 1]) + Len(s[n]) # 0
        BY <3>3, <4>1, <4>2
      <4> QED
        BY <3>3, <4>3
  <2> QED
    BY <2>1, <2>2
<1> QED
  BY <1>2, <1>3, EmptySeq

LEMMA PlanRendered ==
    ASSUME NEW x \in Plan
    PROVE  /\ RenderPlan(x) \in Markdown
           /\ RenderPlan(x).goal = x.goal.says
           /\ RenderPlan(x).sections = x.goal.sections \o FlattenSeq(SectionsOf(x.steps))
           /\ x.steps # <<>> => RenderPlan(x).sections # <<>>
<1>1. /\ x.goal.says \in Nat /\ x.goal.sections \in Seq(Section) /\ x.steps \in Seq(Step)
  BY DEF Plan, Passage
<1>2. RenderPlan(x) = [goal |-> x.goal.says,
                       sections |-> x.goal.sections \o FlattenSeq(SectionsOf(x.steps))]
  BY DEF RenderPlan, SectionsOf
<1>3. SectionsOf(x.steps) \in Seq(Seq(Section)) /\ FlattenSeq(SectionsOf(x.steps)) \in Seq(Section)
  BY <1>1, StepsRendered, FlattenTyped
<1>4. x.goal.sections \o FlattenSeq(SectionsOf(x.steps)) \in Seq(Section)
  BY <1>1, <1>3, ConcatProperties
<1>5. ASSUME x.steps # <<>> PROVE x.goal.sections \o FlattenSeq(SectionsOf(x.steps)) # <<>>
  <2>1. SectionsOf(x.steps) # <<>>
    BY <1>1, <1>5, StepsRendered, SeqShape, EmptySeq
  <2>2. \A i \in 1 .. Len(SectionsOf(x.steps)) : Len(SectionsOf(x.steps)[i]) # 0
    <3> SUFFICES ASSUME NEW i \in 1 .. Len(SectionsOf(x.steps)) PROVE Len(SectionsOf(x.steps)[i]) # 0
      OBVIOUS
    <3>1. x.steps[i] \in Step /\ SectionsOf(x.steps)[i] = RenderStep(x.steps[i])
      BY <1>1, StepsRendered
    <3>2. /\ Len(RenderStep(x.steps[i])) = Len(x.steps[i].note.sections) + 1
          /\ Len(x.steps[i].note.sections) \in Nat
      BY <3>1, StepRendered
    <3> QED
      BY <3>1, <3>2
  <2>3. FlattenSeq(SectionsOf(x.steps)) # <<>>
    BY <1>3, <2>1, <2>2, FlattenSolid
  <2> QED
    BY <1>1, <1>3, <2>3, ConcatEqualIffEmpty
<1>6. RenderPlan(x) \in Markdown
  BY <1>1, <1>2, <1>4, TextMade
<1>7. RenderPlan(x).sections = x.goal.sections \o FlattenSeq(SectionsOf(x.steps))
  BY DEF RenderPlan, SectionsOf
<1>8. RenderPlan(x).goal = x.goal.says
  BY <1>2
<1> QED
  BY <1>5, <1>6, <1>7, <1>8

\* A plan that was read, of which one step is another: what was read before it and
\* behind it is read again.
Changed(plan, k, new) == [goal |-> plan.goal, steps |-> [plan.steps EXCEPT ![k] = new]]

LEMMA ReadShape ==
    ASSUME NEW plan \in ReadPlan
    PROVE  /\ plan.goal = Says(plan.goal.says) /\ plan.goal.says \in Nat /\ plan.goal \in Passage
           /\ plan.steps \in Seq(ReadStep) /\ Len(plan.steps) \in Nat
           /\ DOMAIN plan.steps = 1 .. Len(plan.steps)
           /\ \A i \in 1 .. Len(plan.steps) : plan.steps[i] \in ReadStep
<1>1. /\ plan.goal = Says(plan.goal.says) /\ plan.goal.says \in Nat /\ plan.goal \in Passage
      /\ plan.steps \in Seq(ReadStep)
  BY DEF ReadPlan, Passage
<1> QED
  BY <1>1, SeqShape

LEMMA ChangedRead ==
    ASSUME NEW plan \in ReadPlan, NEW k \in 1 .. Len(plan.steps), NEW new \in Step
    PROVE  LET more == Len(new.note.sections)
               read == ParsePlan(RenderPlan(Changed(plan, k, new)))
           IN  /\ Changed(plan, k, new) \in Plan
               /\ RenderPlan(Changed(plan, k, new)) \in Markdown
               /\ RenderPlan(Changed(plan, k, new)).sections # <<>>
               /\ more \in Nat
               /\ read.goal = plan.goal
               /\ Len(read.steps) = Len(plan.steps) + more
               /\ \A i \in 1 .. k - 1 : read.steps[i] = plan.steps[i]
               /\ read.steps[k] = ParseStep(RenderStep(new)[1], k)
               /\ \A i \in k + 1 .. Len(plan.steps) : read.steps[i + more] = plan.steps[i]
<1> DEFINE n == Len(plan.steps)
           more == Len(new.note.sections)
           steps == [plan.steps EXCEPT ![k] = new]
           text == RenderPlan(Changed(plan, k, new))
           rs == SectionsOf(steps)
<1>1. /\ plan.goal = Says(plan.goal.says) /\ plan.goal.says \in Nat /\ plan.goal \in Passage
      /\ n \in Nat /\ plan.steps \in Seq(Step) /\ k \in Nat /\ 1 <= k /\ k <= n
      /\ \A i \in 1 .. n : plan.steps[i] \in ReadStep
  BY ReadShape, ReadIsPlan, SeqMonotonic
<1>2. /\ steps \in Seq(Step) /\ Len(steps) = n
      /\ \A i \in 1 .. n : steps[i] = IF i = k THEN new ELSE plan.steps[i]
  BY <1>1, ExceptSeq
<1>3. plan.goal.sections = <<>>
  BY <1>1, SaysTyped
<1>4. Changed(plan, k, new) = [goal |-> plan.goal, steps |-> steps]
  BY DEF Changed
<1> HIDE DEF steps
<1>5. Changed(plan, k, new) \in Plan
  BY <1>1, <1>2, <1>4 DEF Plan
<1>6. /\ text \in Markdown /\ text.goal = plan.goal.says
      /\ text.sections = <<>> \o FlattenSeq(rs)
      /\ steps # <<>> => text.sections # <<>>
  BY <1>3, <1>4, <1>5, PlanRendered
<1>7. /\ rs \in Seq(Seq(Section)) /\ Len(rs) = n
      /\ \A i \in 1 .. n : rs[i] = RenderStep(steps[i])
  BY <1>2, StepsRendered
<1>8. Len(rs[k]) = more + 1 /\ more \in Nat /\ rs[k] = RenderStep(new)
  BY <1>1, <1>2, <1>7, StepRendered
<1>9. ASSUME NEW i \in 1 .. n, i # k
      PROVE  Len(rs[i]) = 1 /\ \A j : ParseStep(rs[i][1], j) = plan.steps[i]
  <2>1. rs[i] = RenderStep(plan.steps[i]) /\ plan.steps[i] \in ReadStep
    BY <1>1, <1>2, <1>7, <1>9
  <2> HIDE DEF rs
  <2> QED
    BY <2>1, ReadAgain
<1> HIDE DEF n, more, rs, text
<1> DEFINE f == FlattenSeq(rs)
<1>10. /\ f \in Seq(Section) /\ Len(f) = n + more
       /\ \A i \in 1 .. k : f[i] = rs[i][1]
       /\ \A i \in k + 1 .. n : f[i + more] = rs[i][1]
  <2>1. k \in 1 .. Len(rs) /\ Len(rs[k]) - 1 = more
    BY <1>1, <1>7, <1>8
  <2>2. \A i \in 1 .. Len(rs) : IF i = k THEN Len(rs[i]) # 0 ELSE Len(rs[i]) = 1
    BY <1>7, <1>8, <1>9
  <2> QED
    BY <1>7, <2>1, <2>2, FlattenSplits
<1> HIDE DEF f
<1>11. text.sections = f
  BY <1>6, <1>10, ConcatEmptySeq DEF f
<1>12. steps # <<>>
  BY <1>1, <1>2, SeqShape, EmptySeq
<1> DEFINE read == ParsePlan(text)
<1>13. /\ read.goal = Says(text.goal) /\ Len(read.steps) = Len(f)
       /\ \A i \in 1 .. Len(f) : read.steps[i] = ParseStep(f[i], i)
  BY <1>6, <1>11, Parsed
<1> HIDE DEF read
<1>14. \A i \in 1 .. k - 1 : read.steps[i] = plan.steps[i]
  <2> SUFFICES ASSUME NEW i \in 1 .. k - 1 PROVE read.steps[i] = plan.steps[i]
    OBVIOUS
  <2>1. i \in 1 .. k /\ i \in 1 .. n /\ i # k /\ i \in 1 .. Len(f)
    BY <1>1, <1>8, <1>10
  <2> QED
    BY <1>9, <1>10, <1>13, <2>1
<1>15. read.steps[k] = ParseStep(RenderStep(new)[1], k)
  <2>1. k \in 1 .. k /\ k \in 1 .. Len(f)
    BY <1>1, <1>8, <1>10
  <2> QED
    BY <1>8, <1>10, <1>13, <2>1
<1>16. \A i \in k + 1 .. n : read.steps[i + more] = plan.steps[i]
  <2> SUFFICES ASSUME NEW i \in k + 1 .. n PROVE read.steps[i + more] = plan.steps[i]
    OBVIOUS
  <2>1. i \in 1 .. n /\ i # k /\ i + more \in 1 .. Len(f)
    BY <1>1, <1>8, <1>10
  <2>2. read.steps[i + more] = ParseStep(f[i + more], i + more)
    BY <1>13, <2>1
  <2>3. f[i + more] = rs[i][1]
    BY <1>10
  <2>4. ParseStep(rs[i][1], i + more) = plan.steps[i]
    BY <1>9, <2>1
  <2> QED
    BY <2>2, <2>3, <2>4
<1>17. read.goal = plan.goal
  BY <1>1, <1>6, <1>13
<1>18. Len(read.steps) = n + more
  BY <1>10, <1>13
<1>19. text \in Markdown /\ text.sections # <<>>
  BY <1>6, <1>12
<1> QED
  BY <1>5, <1>8, <1>14, <1>15, <1>16, <1>17, <1>18, <1>19 DEF read, text, more, n

LEMMA NamedFirst ==
    ASSUME NEW plan \in Plan, NEW id
    PROVE  /\ Named(plan, id) \in 0 .. Len(plan.steps)
           /\ Len(plan.steps) \in Nat
           /\ (\E i \in 1 .. Len(plan.steps) : plan.steps[i].id = id) <=> Named(plan, id) # 0
           /\ Named(plan, id) # 0 => plan.steps[Named(plan, id)].id = id
<1> DEFINE S == {i \in 1 .. Len(plan.steps) : plan.steps[i].id = id}
<1>1. Len(plan.steps) \in Nat
  BY SeqShape DEF Plan
<1>2. Named(plan, id) = IF S # {} THEN Min(S) ELSE 0
  BY DEF Named, SelectInSeq
<1>3. S \in SUBSET (0 .. Len(plan.steps))
  BY <1>1
<1>4. ASSUME S # {} PROVE Min(S) \in S
  <2> HIDE DEF S
  <2>1. PICK m \in S : \A k \in S : m <= k
    BY <1>1, <1>3, <1>4, HasLeast
  <2> QED
    BY <2>1 DEF Min
<1> QED
  BY <1>1, <1>2, <1>4

LEMMA NamedSame ==
    ASSUME NEW p, NEW q, NEW id, Len(p.steps) = Len(q.steps),
           \A i \in 1 .. Len(q.steps) : p.steps[i].id = q.steps[i].id
    PROVE  Named(p, id) = Named(q, id)
<1>1. {i \in 1 .. Len(p.steps) : p.steps[i].id = id} = {i \in 1 .. Len(q.steps) : q.steps[i].id = id}
  OBVIOUS
<1> QED
  BY <1>1 DEF Named, SelectInSeq

\* The step that an update makes.
Told(step, status, note) == [id |-> step.id, status |-> status, note |-> note, detail |-> step.detail]

LEMMA ToldSo ==
    ASSUME NEW step \in Step, NEW status, NEW note
    PROVE  [[step EXCEPT !.status = status] EXCEPT !.note = note] = Told(step, status, note)
<1> USE DEF Step
<1> DEFINE r == [[step EXCEPT !.status = status] EXCEPT !.note = note]
<1>1. r = [f \in {"id", "status", "note", "detail"} |-> r[f]]
  OBVIOUS
<1>2. r.id = step.id /\ r.status = status /\ r.note = note /\ r.detail = step.detail
  OBVIOUS
<1> HIDE DEF r
<1>3. r = [id |-> step.id, status |-> status, note |-> note, detail |-> step.detail]
  BY <1>1, <1>2
<1> QED
  BY <1>3 DEF r, Told

LEMMA UpdateMakes ==
    ASSUME NEW plan \in Plan, NEW id, NEW status \in Status, NEW note \in Passage,
           Named(plan, id) # 0
    PROVE  LET k == Named(plan, id)
               new == Told(plan.steps[k], status, note)
           IN  /\ k \in 1 .. Len(plan.steps) /\ plan.steps[k].id = id /\ plan.steps[k] \in Step
               /\ new \in Step
               /\ Updated(plan, id, status, note) = Changed(plan, k, new)
               /\ Updated(plan, id, status, note) \in Plan
<1> DEFINE k == Named(plan, id)
           new == Told(plan.steps[k], status, note)
<1>1. /\ k \in 1 .. Len(plan.steps) /\ plan.steps[k].id = id
      /\ plan.steps \in Seq(Step) /\ plan.goal \in Passage
  <2>1. k \in 0 .. Len(plan.steps) /\ k # 0 /\ plan.steps[k].id = id /\ Len(plan.steps) \in Nat
    BY NamedFirst
  <2> QED
    BY <2>1 DEF Plan
<1> HIDE DEF k
<1>2. plan.steps[k] \in Step
  BY <1>1, SeqShape
<1>3. new \in Step
  BY <1>2 DEF Told, Step
<1>4. [[plan.steps[k] EXCEPT !.status = status] EXCEPT !.note = note] = new
  BY <1>2, ToldSo DEF new
<1>5. Updated(plan, id, status, note) = [goal |-> plan.goal, steps |->
        [[plan.steps EXCEPT ![k].status = status] EXCEPT ![k].note = note]]
  <2> DEFINE st == [[plan.steps EXCEPT ![k].status = status] EXCEPT ![k].note = note]
  <2>1. Updated(plan, id, status, note) = [plan EXCEPT !.steps = st]
    BY DEF Updated, Plan, k
  <2> HIDE DEF st
  <2>2. [plan EXCEPT !.steps = st] = [goal |-> plan.goal, steps |-> st]
    BY DEF Plan
  <2> QED
    BY <2>1, <2>2 DEF st
<1>6. [[plan.steps EXCEPT ![k].status = status] EXCEPT ![k].note = note] = [plan.steps EXCEPT ![k] = new]
  <2> HIDE DEF new
  <2>1. plan.steps = [i \in 1 .. Len(plan.steps) |-> plan.steps[i]]
    BY <1>1, SeqShape
  <2> QED
    BY <1>1, <1>4, <2>1
<1> HIDE DEF new
<1>7. Updated(plan, id, status, note) = Changed(plan, k, new)
  BY <1>5, <1>6 DEF Changed
<1>8. [plan.steps EXCEPT ![k] = new] \in Seq(Step)
  BY <1>1, <1>3, ExceptSeq
<1>9. Changed(plan, k, new) \in Plan
  BY <1>1, <1>8 DEF Changed, Plan
<1> QED
  BY <1>1, <1>2, <1>3, <1>7, <1>9 DEF k, new

----------------------------------------------------------------------------
(* Plans                                                                   *)

USE PlansAssumption

\* A text that is written is not the text of a file that is not there.
Solid(x) == x.goal # 0 \/ x.sections # <<>>

LEMMA HandMade ==
    ASSUME NEW x \in Markdown, x.sections # <<>>, NEW s \in ByHand(x.sections)
    PROVE  s \in Seq(Section)
<1>1. /\ x.sections \in Seq(Section) /\ Len(x.sections) \in Nat
      /\ \A i \in 1 .. Len(x.sections) : x.sections[i] \in Section
  BY SeqShape DEF Markdown
<1>2. CASE s = Tail(x.sections)
  BY <1>1, <1>2, HeadTailProperties
<1>3. CASE s = [Reverse(x.sections) EXCEPT ![1] = [head |-> 0, lines |-> <<>>]]
  <2>1. [head |-> 0, lines |-> <<>>] \in Section
    BY EmptySeq DEF Section
  <2>2. /\ Reverse(x.sections) = [i \in 1 .. Len(x.sections) |-> Reverse(x.sections)[i]]
        /\ \A i \in 1 .. Len(x.sections) : Reverse(x.sections)[i] \in Section
    BY <1>1 DEF Reverse
  <2>3. s = [i \in 1 .. Len(x.sections) |-> s[i]] /\ \A i \in 1 .. Len(x.sections) : s[i] \in Section
    BY <1>3, <2>1, <2>2
  <2> QED
    BY <1>1, <2>3, SeqMade
<1> QED
  BY <1>2, <1>3 DEF ByHand

LEMMA NewPlanOK ==
    ASSUME NEW d \in Drafts
    PROVE  /\ NewPlan(d) \in Plan
           /\ RenderPlan(NewPlan(d)) \in Markdown /\ Solid(RenderPlan(NewPlan(d)))
           /\ NewPlan(d).goal = d.goal /\ d.goal \in Passage
           /\ Len(NewPlan(d).steps) = Len(d.details) /\ Len(d.details) \in Nat \ {0}
           /\ \A i \in 1 .. Len(d.details) :
                /\ d.details[i] \in Seq(Line) /\ i \in DOMAIN d.details
                /\ NewPlan(d).steps[i] =
                      [id |-> i, status |-> "todo", note |-> Says(0), detail |-> d.details[i]]
<1> DEFINE n == Len(d.details)
           steps == [i \in DOMAIN d.details |->
                        [id |-> i, status |-> "todo", note |-> Says(0), detail |-> d.details[i]]]
<1>1. /\ d.goal \in Passage /\ n \in Nat \ {0} /\ DOMAIN d.details = 1 .. n
      /\ \A i \in 1 .. n : d.details[i] \in Seq(Line)
  BY SeqShape DEF PlansAssumption
<1>2. NewPlan(d) = [goal |-> d.goal, steps |-> steps]
  BY DEF NewPlan
<1>3. /\ steps = [i \in 1 .. n |-> steps[i]]
      /\ \A i \in 1 .. n : steps[i] =
            [id |-> i, status |-> "todo", note |-> Says(0), detail |-> d.details[i]]
  BY <1>1
<1>4. \A i \in 1 .. n : steps[i] \in Step
  BY <1>1, <1>3, SaysTyped DEF Step, Status
<1> HIDE DEF steps, n
<1>5. steps \in Seq(Step) /\ Len(steps) = n
  BY <1>1, <1>3, <1>4, SeqMade
<1>6. NewPlan(d) \in Plan /\ NewPlan(d).steps # <<>>
  BY <1>1, <1>2, <1>5, SeqShape DEF Plan
<1>7. RenderPlan(NewPlan(d)) \in Markdown /\ Solid(RenderPlan(NewPlan(d)))
  BY <1>6, PlanRendered DEF Solid
<1>8. NewPlan(d).goal = d.goal /\ NewPlan(d).steps = steps
  BY <1>2
<1> QED
  BY <1>1, <1>3, <1>5, <1>6, <1>7, <1>8 DEF n

----------------------------------------------------------------------------
(* Jobs and metas.                                                         *)

\* An update has a plan that was read and is of one of its steps.
Job ==
    {Idle}
    \cup {j \in [kind : {"update"}, task : Task, stale : BOOLEAN, plan : ReadPlan, id : Nat,
                 status : Status, note : Passage] : Named(j.plan, j.id) # 0 /\ j.note.says # 0}
    \cup {j \in [kind : {"edit"}, task : Task, stale : BOOLEAN, text : Markdown] : j.text.goal # 0}
    \cup [kind : {"resume", "mark"}, task : Task, stale : BOOLEAN]

PlansTyped ==
    /\ meta \in Metas /\ saved \in Metas
    /\ projects \subseteq Project
    /\ file \in [Task -> Markdown] /\ ideal \in [Task -> Plan]
    /\ work \in [Worker -> Job]
    /\ planner \in [Task -> {"none", "running", "rests"}]
    /\ updates \in 0 .. MaxUpdates /\ edits \in 0 .. MaxEdits /\ failures \in 0 .. MaxFailures
    /\ overlapped \subseteq Task /\ misread \subseteq Task
    /\ resumed \subseteq Task /\ overtaken \subseteq Task

LEMMA JobShape ==
    ASSUME NEW j \in Job
    PROVE  /\ j.kind \in {"idle", "update", "edit", "resume", "mark"}
           /\ j.kind # "idle" => j.task \in Task /\ j.stale \in BOOLEAN
           /\ j.kind = "update" => /\ j.plan \in ReadPlan /\ j.plan \in Plan /\ j.status \in Status
                                   /\ j.note \in Passage /\ j.note.says # 0
                                   /\ Named(j.plan, j.id) # 0
           /\ j.kind = "edit" => j.text \in Markdown /\ j.text.goal # 0
BY ReadIsPlan DEF Job, Idle

Late(j) == [j EXCEPT !.stale = TRUE]

LEMMA JobLate ==
    ASSUME NEW j \in Job, j.kind # "idle"
    PROVE  /\ Late(j) \in Job /\ Late(j).kind = j.kind /\ Late(j).task = j.task /\ Late(j).stale
<1>1. CASE j.kind = "update"
  <2>1. /\ j \in [kind : {"update"}, task : Task, stale : BOOLEAN, plan : ReadPlan, id : Nat,
                  status : Status, note : Passage]
        /\ Named(j.plan, j.id) # 0 /\ j.note.says # 0
    BY <1>1 DEF Job, Idle
  <2>2. /\ Late(j) \in [kind : {"update"}, task : Task, stale : BOOLEAN, plan : ReadPlan, id : Nat,
                        status : Status, note : Passage]
        /\ Late(j).plan = j.plan /\ Late(j).id = j.id /\ Late(j).note = j.note
        /\ Late(j).kind = j.kind /\ Late(j).task = j.task /\ Late(j).stale
    BY <2>1 DEF Late
  <2> QED
    BY <2>1, <2>2 DEF Job
<1>2. CASE j.kind = "edit"
  <2>1. /\ j \in [kind : {"edit"}, task : Task, stale : BOOLEAN, text : Markdown]
        /\ j.text.goal # 0
    BY <1>2 DEF Job, Idle
  <2>2. /\ Late(j) \in [kind : {"edit"}, task : Task, stale : BOOLEAN, text : Markdown]
        /\ Late(j).text = j.text
        /\ Late(j).kind = j.kind /\ Late(j).task = j.task /\ Late(j).stale
    BY <2>1 DEF Late
  <2> QED
    BY <2>1, <2>2 DEF Job
<1>3. CASE j.kind \in {"resume", "mark"}
  <2>1. j \in [kind : {"resume", "mark"}, task : Task, stale : BOOLEAN]
    BY <1>3 DEF Job, Idle
  <2> QED
    BY <2>1 DEF Late, Job
<1> QED
  BY <1>1, <1>2, <1>3, JobShape

LEMMA IdleJob == Idle \in Job /\ Idle.kind = "idle"
BY DEF Idle, Job

\* What becomes of the others when a text is replaced.
LEMMA Outdated ==
    ASSUME PlansTyped, NEW t \in Task, NEW w
    PROVE  /\ Outdate(t, w) \in [Worker -> Job]
           /\ \A v \in Worker :
               /\ Outdate(t, w)[v].kind = work[v].kind
               /\ work[v].kind # "idle" => Outdate(t, w)[v].task = work[v].task
               /\ work[v].kind # "idle" /\ v # w /\ work[v].task = t => Outdate(t, w)[v].stale
               /\ work[v].kind # "idle" /\ work[v].task # t => Outdate(t, w)[v] = work[v]
<1>1. \A v \in Worker : work[v] \in Job
  BY DEF PlansTyped
<1>2. Outdate(t, w) = [v \in Worker |-> IF v # w /\ work[v].kind # "idle" /\ work[v].task = t
                                     THEN Late(work[v]) ELSE work[v]]
  BY DEF Outdate, Late
<1> QED
  BY <1>1, <1>2, JobLate

\* What an update writes, as the plan it has with one step changed.
Wanted(j) == Told(j.plan.steps[Named(j.plan, j.id)], j.status, j.note)

LEMMA NewTexts ==
    ASSUME NEW j \in Job, j.kind \in {"update", "edit"}
    PROVE  /\ NewText(j) \in Markdown /\ Solid(NewText(j))
           /\ j.kind = "update" =>
                /\ NewText(j) = RenderPlan(Changed(j.plan, Named(j.plan, j.id), Wanted(j)))
                /\ Named(j.plan, j.id) \in 1 .. Len(j.plan.steps) /\ Wanted(j) \in Step
                /\ j.plan.steps[Named(j.plan, j.id)].id = j.id
<1>1. CASE j.kind = "update"
  <2>1. /\ j.plan \in ReadPlan /\ j.plan \in Plan /\ j.status \in Status
        /\ j.note \in Passage /\ Named(j.plan, j.id) # 0
    BY <1>1, JobShape
  <2>2. /\ Named(j.plan, j.id) \in 1 .. Len(j.plan.steps) /\ Wanted(j) \in Step
        /\ j.plan.steps[Named(j.plan, j.id)].id = j.id
        /\ Updated(j.plan, j.id, j.status, j.note) = Changed(j.plan, Named(j.plan, j.id), Wanted(j))
    BY <2>1, UpdateMakes DEF Wanted
  <2>3. NewText(j) = RenderPlan(Changed(j.plan, Named(j.plan, j.id), Wanted(j)))
    BY <1>1, <2>2 DEF NewText
  <2>4. NewText(j) \in Markdown /\ NewText(j).sections # <<>>
    <3> DEFINE plan == j.plan
               k == Named(plan, j.id)
               new == Wanted(j)
    <3>1. plan \in ReadPlan /\ k \in 1 .. Len(plan.steps) /\ new \in Step
      BY <2>1, <2>2
    <3>2. NewText(j) = RenderPlan(Changed(plan, k, new))
      BY <2>3
    <3> HIDE DEF plan, k, new
    <3>3. /\ RenderPlan(Changed(plan, k, new)) \in Markdown
          /\ RenderPlan(Changed(plan, k, new)).sections # <<>>
      BY <3>1, ChangedRead
    <3> QED
      BY <3>2, <3>3
  <2> QED
    BY <1>1, <2>2, <2>3, <2>4 DEF Solid
<1>2. CASE j.kind = "edit"
  BY <1>2, JobShape DEF NewText, Solid
<1> QED
  BY <1>1, <1>2

LEMMA TempTexts ==
    ASSUME PlansTyped, NEW t, NEW w, NEW x \in InTemp(t, w)
    PROVE  x \in Markdown /\ Solid(x)
BY NewTexts DEF InTemp, PlansTyped

LEMMA WriteLands ==
    ASSUME PlansTyped, NEW w \in Worker, work[w].kind \in {"update", "edit"}, Writes(w)
    PROVE  \E x \in Markdown :
            /\ Solid(x)
            /\ file' = [file EXCEPT ![work[w].task] = x]
            /\ work' = [Outdate(work[w].task, w) EXCEPT ![w] = Idle]
            /\ overlapped' = Overlapped(work[w], x)
BY NewTexts, TempTexts DEF Writes, PlansTyped

LEMMA SaveKeeps ==
    ASSUME NEW next, Save(next)
    PROVE  /\ meta' = meta \/ meta' = next
           /\ saved' = saved \/ saved' = next
           /\ failures \in 0 .. MaxFailures => failures' \in 0 .. MaxFailures
BY DEF Save

LEMMA MetaMade ==
    ASSUME NEW m \in Metas, NEW t \in Task
    PROVE  /\ \A a \in Task \cup {Nil}, s \in {"running", "closed"} :
                [m EXCEPT !.tasks[t] = s, !.active = a] \in Metas
           /\ \A s \in {"waiting", "proceeded"} : [m EXCEPT !.plans[t] = s] \in Metas
BY DEF Metas

\* The record a step saves.
MetaOf(m, t, s, a) == [m EXCEPT !.tasks[t] = s, !.active = a]
PlanOf(m, t, s) == [m EXCEPT !.plans[t] = s]

----------------------------------------------------------------------------
(* Types.                                                                  *)

LEMMA ReadsTyped ==
    ASSUME PlansTyped, NEW w \in Worker, NEW t \in Task,
           UpdateReads(w, t) \/ EditReads(w, t) \/ ProceedReads(w, t)
    PROVE  PlansTyped'
<1>1. file[t] \in Markdown
  BY DEF PlansTyped
<1>2. CASE UpdateReads(w, t)
  <2> DEFINE plan == ParsePlan(file[t])
  <2>1. PICK id \in {step.id : step \in Range(plan.steps)}, status \in Reported, note \in Notes :
          work' = [work EXCEPT ![w] =
            [kind |-> "update", task |-> t, stale |-> FALSE, plan |-> plan,
             id |-> id, status |-> status, note |-> note]]
    BY <1>2 DEF UpdateReads
  <2>2. plan \in ReadPlan
    BY <1>1, Parsed
  <2> HIDE DEF plan
  <2>3. id \in Nat /\ Named(plan, id) # 0
    <3>1. /\ DOMAIN plan.steps = 1 .. Len(plan.steps) /\ plan \in Plan
          /\ \A i \in 1 .. Len(plan.steps) : plan.steps[i] \in ReadStep
      BY <2>2, ReadShape, ReadIsPlan
    <3>2. PICK i \in 1 .. Len(plan.steps) : plan.steps[i].id = id
      BY <2>1, <3>1 DEF Range
    <3> QED
      BY <3>1, <3>2, NamedFirst DEF ReadStep, Step
  <2>4. status \in Status /\ note \in Passage /\ note.says # 0
    OBVIOUS
  <2>5. [kind |-> "update", task |-> t, stale |-> FALSE, plan |-> plan,
         id |-> id, status |-> status, note |-> note] \in Job
    BY <2>2, <2>3, <2>4 DEF Job
  <2>6. work' \in [Worker -> Job]
    BY <2>1, <2>5 DEF PlansTyped
  <2>7. updates' \in 0 .. MaxUpdates
    BY <1>2 DEF UpdateReads, PlansTyped
  <2> QED
    BY <1>2, <2>6, <2>7 DEF UpdateReads, PlansTyped, historyVars
<1>3. CASE EditReads(w, t)
  <2>1. PICK sections \in ByHand(file[t].sections) :
          work' = [work EXCEPT ![w] =
            [kind |-> "edit", task |-> t, stale |-> FALSE,
             text |-> [goal |-> edits + 1, sections |-> sections]]]
    BY <1>3 DEF EditReads
  <2>2. edits + 1 \in 0 .. MaxEdits /\ edits + 1 # 0 /\ edits' = edits + 1 /\ edits + 1 \in Nat
    BY <1>3 DEF EditReads, PlansTyped
  <2>3. [goal |-> edits + 1, sections |-> sections] \in Markdown
    BY <1>1, <1>3, <2>1, <2>2, HandMade, TextMade DEF EditReads
  <2>4. [kind |-> "edit", task |-> t, stale |-> FALSE,
         text |-> [goal |-> edits + 1, sections |-> sections]] \in Job
    BY <2>2, <2>3 DEF Job
  <2>5. work' \in [Worker -> Job]
    BY <2>1, <2>4 DEF PlansTyped
  <2> QED
    BY <1>3, <2>2, <2>5 DEF EditReads, PlansTyped, historyVars
<1>4. CASE ProceedReads(w, t)
  <2>1. [kind |-> "resume", task |-> t, stale |-> FALSE] \in Job
    BY DEF Job
  <2>2. work' \in [Worker -> Job]
    BY <1>4, <2>1 DEF ProceedReads, PlansTyped
  <2> QED
    BY <1>4, <2>2 DEF ProceedReads, PlansTyped, boundVars, historyVars
<1> QED
  BY <1>2, <1>3, <1>4

LEMMA WritesTyped ==
    ASSUME PlansTyped, NEW w \in Worker, UpdateWrites(w) \/ EditWrites(w)
    PROVE  PlansTyped'
<1> DEFINE t == work[w].task
<1>1. work[w].kind \in {"update", "edit"} /\ Writes(w)
  BY DEF UpdateWrites, EditWrites
<1>2. work[w] \in Job /\ t \in Task
  BY <1>1, JobShape DEF PlansTyped
<1>3. PICK x \in Markdown :
        /\ Solid(x)
        /\ file' = [file EXCEPT ![t] = x]
        /\ work' = [Outdate(t, w) EXCEPT ![w] = Idle]
        /\ overlapped' = Overlapped(work[w], x)
  BY <1>1, WriteLands
<1>4. ideal' \in [Task -> Plan]
  <2>1. CASE UpdateWrites(w)
    <3>1. work[w].status \in Status /\ work[w].note \in Passage /\ ideal[t] \in Plan
      BY <1>2, <2>1, JobShape DEF UpdateWrites, PlansTyped
    <3>2. CASE Named(ideal[t], work[w].id) = 0
      BY <2>1, <3>2 DEF UpdateWrites, PlansTyped
    <3>3. CASE Named(ideal[t], work[w].id) # 0
      <4>1. Updated(ideal[t], work[w].id, work[w].status, work[w].note) \in Plan
        BY <3>1, <3>3, UpdateMakes
      <4> QED
        BY <2>1, <3>3, <4>1 DEF UpdateWrites, PlansTyped
    <3> QED
      BY <3>2, <3>3
  <2>2. CASE EditWrites(w)
    <3>1. ParsePlan(work[w].text) \in Plan
      BY <1>2, <2>2, JobShape, Parsed, ReadIsPlan DEF EditWrites
    <3> QED
      BY <2>2, <3>1 DEF EditWrites, PlansTyped
  <2> QED
    BY <2>1, <2>2
<1>5. misread' \subseteq Task
  BY <1>2 DEF UpdateWrites, EditWrites, PlansTyped
<1>6. overlapped' \subseteq Task
  BY <1>2, <1>3 DEF Overlapped, PlansTyped
<1> HIDE DEF t
<1>7. work' \in [Worker -> Job]
  BY <1>2, <1>3, Outdated, IdleJob
<1>8. file' \in [Task -> Markdown]
  BY <1>2, <1>3 DEF PlansTyped
<1>9. UNCHANGED <<meta, saved, projects, planner, updates, edits, failures, resumed, overtaken>>
  BY DEF UpdateWrites, EditWrites, boundVars
<1> QED
  BY <1>4, <1>5, <1>6, <1>7, <1>8, <1>9 DEF PlansTyped

LEMMA CreateLands ==
    ASSUME PlansTyped, NEW t \in Task, PlanCreate(t)
    PROVE  /\ \E d \in Drafts, x \in Markdown :
                /\ Solid(x)
                /\ file' = [file EXCEPT ![t] = x]
                /\ overlapped' = IF x # RenderPlan(NewPlan(d)) THEN overlapped \cup {t}
                                 ELSE overlapped \ {t}
                /\ ideal' = [ideal EXCEPT ![t] = [NewPlan(d) EXCEPT !.goal = Says(@.says)]]
                /\ misread' = IF Innocent(d.goal) /\ \A i \in DOMAIN d.details : Words(d.details[i])
                              THEN misread \ {t} ELSE misread \cup {t}
           /\ work' = Outdate(t, Nil)
           /\ Save(PlanOf(meta, t, "waiting"))
<1>1. work' = Outdate(t, Nil) /\ Save(PlanOf(meta, t, "waiting"))
  BY DEF PlanCreate, PlanOf
<1>2. PICK d \in Drafts :
        /\ \E x \in {RenderPlan(NewPlan(d))} \cup InTemp(t, Nil) :
                /\ file' = [file EXCEPT ![t] = x]
                /\ overlapped' = IF x # RenderPlan(NewPlan(d)) THEN overlapped \cup {t}
                                 ELSE overlapped \ {t}
        /\ ideal' = [ideal EXCEPT ![t] = [NewPlan(d) EXCEPT !.goal = Says(@.says)]]
        /\ misread' = IF Innocent(d.goal) /\ \A i \in DOMAIN d.details : Words(d.details[i])
                      THEN misread \ {t} ELSE misread \cup {t}
  BY DEF PlanCreate
<1>3. \A x \in {RenderPlan(NewPlan(d))} \cup InTemp(t, Nil) : x \in Markdown /\ Solid(x)
  BY NewPlanOK, TempTexts
<1> QED
  BY <1>1, <1>2, <1>3

LEMMA TasksTyped ==
    ASSUME PlansTyped, NEW t \in Task, TaskCreate(t) \/ TaskUpdate(t) \/ PlanCreate(t)
    PROVE  PlansTyped'
<1>1. CASE TaskCreate(t) \/ TaskUpdate(t)
  <2>1. PICK s \in {"running", "closed"}, a \in {t, Nil} : Save([meta EXCEPT !.tasks[t] = s, !.active = a])
    BY <1>1 DEF TaskCreate, TaskUpdate
  <2>2. [meta EXCEPT !.tasks[t] = s, !.active = a] \in Metas
    BY MetaMade DEF PlansTyped
  <2>3. meta' \in Metas /\ saved' \in Metas /\ failures' \in 0 .. MaxFailures
    BY <2>1, <2>2, SaveKeeps DEF PlansTyped
  <2>4. projects' \subseteq Project
    BY <1>1 DEF TaskCreate, TaskUpdate, PlansTyped
  <2> QED
    BY <1>1, <2>3, <2>4 DEF TaskCreate, TaskUpdate, PlansTyped, historyVars, boundVars
<1>2. CASE PlanCreate(t)
  <2>1. PlanOf(meta, t, "waiting") \in Metas
    BY MetaMade DEF PlansTyped, PlanOf
  <2>2. meta' \in Metas /\ saved' \in Metas /\ failures' \in 0 .. MaxFailures
    BY <1>2, <2>1, CreateLands, SaveKeeps DEF PlansTyped
  <2>3. file' \in [Task -> Markdown] /\ overlapped' \subseteq Task
    BY <1>2, CreateLands DEF PlansTyped
  <2>4. work' \in [Worker -> Job]
    BY <1>2, CreateLands, Outdated DEF PlansTyped
  <2>5. resumed' \subseteq Task /\ overtaken' \subseteq Task
    BY <1>2 DEF PlanCreate, PlansTyped
  <2>6. ideal' \in [Task -> Plan] /\ misread' \subseteq Task
    <3>1. PICK d \in Drafts :
            /\ ideal' = [ideal EXCEPT ![t] = [NewPlan(d) EXCEPT !.goal = Says(@.says)]]
            /\ misread' = misread \ {t} \/ misread' = misread \cup {t}
      BY <1>2, CreateLands
    <3>2. [NewPlan(d) EXCEPT !.goal = Says(@.says)] \in Plan
      <4>1. NewPlan(d) \in Plan /\ Says(NewPlan(d).goal.says) \in Passage
        BY NewPlanOK, SaysTyped DEF Passage
      <4> DEFINE x == NewPlan(d)
                 g == Says(x.goal.says)
      <4> HIDE DEF x, g
      <4>2. [x EXCEPT !.goal = g] \in Plan
        BY <4>1 DEF Plan, x, g
      <4> QED
        BY <4>2 DEF x, g
    <3> QED
      BY <3>1, <3>2 DEF PlansTyped
  <2> QED
    BY <1>2, <2>2, <2>3, <2>4, <2>5, <2>6 DEF PlanCreate, PlansTyped, boundVars
<1> QED
  BY <1>1, <1>2

LEMMA ProceedTyped ==
    ASSUME PlansTyped, NEW w \in Worker,
           WriteFails(w) \/ Resumes(w) \/ ProceedFails(w) \/ Proceeds(w)
    PROVE  PlansTyped'
<1>1. work[w] \in Job /\ work[w].kind # "idle"
  BY DEF WriteFails, Resumes, ProceedFails, Proceeds, PlansTyped
<1>2. work[w].task \in Task
  BY <1>1, JobShape
<1>3. work' \in [Worker -> Job]
  <2>1. CASE Resumes(w)
    <3>1. [work[w] EXCEPT !.kind = "mark"] \in Job /\ [work[w] EXCEPT !.kind = "mark"].kind = "mark"
      <4>1. work[w] \in [kind : {"resume", "mark"}, task : Task, stale : BOOLEAN]
        BY <1>1, <2>1 DEF Resumes, Job, Idle
      <4> QED
        BY <4>1 DEF Job
    <3>2. work' = [work EXCEPT ![w] = [work[w] EXCEPT !.kind = "mark"]]
      BY <2>1 DEF Resumes
    <3> QED
      BY <3>1, <3>2 DEF PlansTyped
  <2>2. CASE WriteFails(w) \/ ProceedFails(w) \/ Proceeds(w)
    <3>1. work' = [work EXCEPT ![w] = Idle]
      BY <2>2 DEF WriteFails, ProceedFails, Proceeds
    <3> QED
      BY <3>1, IdleJob DEF PlansTyped
  <2> QED
    BY <2>1, <2>2
<1>4. planner' \in [Task -> {"none", "running", "rests"}] /\ resumed' \subseteq Task
  BY <1>2 DEF WriteFails, Resumes, ProceedFails, Proceeds, Resume, PlansTyped, historyVars, boundVars
<1>5. meta' \in Metas /\ saved' \in Metas /\ failures' \in 0 .. MaxFailures
  <2>1. CASE Proceeds(w)
    <3>1. [meta EXCEPT !.plans[work[w].task] = "proceeded"] \in Metas
      BY <1>2, MetaMade DEF PlansTyped
    <3> QED
      BY <2>1, <3>1, SaveKeeps DEF Proceeds, PlansTyped
  <2>2. CASE ~Proceeds(w)
    BY <2>2 DEF WriteFails, Resumes, ProceedFails, PlansTyped
  <2> QED
    BY <2>1, <2>2
<1>6. overtaken' \subseteq Task
  BY <1>2 DEF WriteFails, Resumes, ProceedFails, Proceeds, PlansTyped, historyVars, boundVars
<1>7. UNCHANGED <<projects, file, updates, edits, ideal, overlapped, misread>>
  BY DEF WriteFails, Resumes, ProceedFails, Proceeds, historyVars, boundVars
<1> QED
  BY <1>3, <1>4, <1>5, <1>6, <1>7 DEF PlansTyped

LEMMA PlannerTyped ==
    ASSUME PlansTyped, Reopen \/ \E t \in Task : PlannerStarts(t) \/ PlannerRests(t)
    PROVE  PlansTyped'
<1>1. CASE Reopen
  <2>1. work' \in [Worker -> Job]
    BY <1>1, IdleJob DEF Reopen
  <2> QED
    BY <1>1, <2>1 DEF Reopen, PlansTyped, historyVars, boundVars
<1>2. ASSUME NEW t \in Task, PlannerStarts(t) \/ PlannerRests(t)
      PROVE  PlansTyped'
  BY <1>2 DEF PlannerStarts, PlannerRests, PlansTyped, historyVars, boundVars
<1> QED
  BY <1>1, <1>2

LEMMA TypedHolds == PlansSpec => []PlansTyped
<1>1. PlansInit => PlansTyped
  <2> SUFFICES ASSUME PlansInit PROVE PlansTyped
    OBVIOUS
  <2>1. None \in Markdown
    BY EmptySeq DEF None, Markdown
  <2>2. ParsePlan(None) \in Plan
    BY <2>1, Parsed, ReadIsPlan
  <2>3. NoMeta \in Metas
    BY DEF NoMeta, Metas
  <2>4. work \in [Worker -> Job]
    BY IdleJob DEF PlansInit
  <2>5. file \in [Task -> Markdown] /\ ideal \in [Task -> Plan]
    BY <2>1, <2>2 DEF PlansInit
  <2>6. planner \in [Task -> {"none", "running", "rests"}]
    BY DEF PlansInit
  <2> QED
    BY <2>3, <2>4, <2>5, <2>6 DEF PlansInit, PlansTyped
<1>2. PlansTyped /\ [PlansNext]_plansVars => PlansTyped'
  <2> SUFFICES ASSUME PlansTyped, [PlansNext]_plansVars PROVE PlansTyped'
    OBVIOUS
  <2>1. CASE UNCHANGED plansVars
    BY <2>1 DEF plansVars, boundVars, historyVars, PlansTyped
  <2> QED
    BY <2>1, ReadsTyped, WritesTyped, TasksTyped, ProceedTyped, PlannerTyped DEF PlansNext
<1> QED
  BY <1>1, <1>2, PTL DEF PlansSpec

\* Every variable of the tasks and plans keeps its type, for any number of them.
THEOREM PlansTypeCorrect == PlansSpec => []PlansTypeOK
<1>1. PlansTyped => PlansTypeOK
  <2> SUFFICES ASSUME PlansTyped PROVE PlansTypeOK
    OBVIOUS
  <2>1. \A w \in Worker : work[w].kind \in {"idle", "update", "edit", "resume", "mark"}
    BY JobShape DEF PlansTyped
  <2>2. ASSUME NEW t \in Task, NEW i \in DOMAIN file[t].sections
        PROVE  ParsePlan(file[t]).steps[i].id # 0
    <3>1. file[t] \in Markdown
      BY DEF PlansTyped
    <3>2. /\ ParsePlan(file[t]) \in ReadPlan /\ Len(ParsePlan(file[t]).steps) = Len(file[t].sections)
          /\ i \in 1 .. Len(file[t].sections)
      BY <2>2, <3>1, Parsed, SeqShape DEF Markdown
    <3>3. ParsePlan(file[t]).steps[i] \in ReadStep
      BY <3>2, ReadShape
    <3> QED
      BY <3>3 DEF ReadStep
  <2> QED
    BY <2>1, <2>2 DEF PlansTyped, PlansTypeOK
<1> QED
  BY <1>1, TypedHolds, PTL

----------------------------------------------------------------------------
(* Reopening.  The state in memory has to be whole too: it is what the     *)
(* next save makes a record of.                                            *)

OneActive(m) == {t \in Task : m.tasks[t] = "running"} = {m.active} \ {Nil}

Whole(m, registered, texts) ==
    /\ OneActive(m)
    /\ \A t \in Task : m.tasks[t] # "none" => ProjectOf[t] \in registered
    /\ \A t \in Task : m.plans[t] # "none" => texts[t] # None

BothWhole == Whole(meta, projects, file) /\ Whole(saved, projects, file)

\* Projects and files are only added.
Grows == projects \subseteq projects' /\ \A t \in Task : file[t] # None => file'[t] # None

LEMMA WholeGrows ==
    ASSUME Grows, NEW m, Whole(m, projects, file)
    PROVE  Whole(m, projects', file')
BY DEF Grows, Whole

LEMMA NothingIsNotSolid == ASSUME NEW x, Solid(x) PROVE x # None
BY DEF Solid, None

LEMMA LandedGrows ==
    ASSUME PlansTyped, NEW t \in Task, NEW x, Solid(x), file' = [file EXCEPT ![t] = x],
           projects' = projects
    PROVE  Grows /\ file'[t] # None
BY NothingIsNotSolid DEF Grows, PlansTyped

LEMMA SavedWhole ==
    ASSUME Grows, BothWhole, NEW next, Save(next), Whole(next, projects', file')
    PROVE  BothWhole'
<1>1. Whole(meta', projects', file') /\ Whole(saved', projects', file')
  BY WholeGrows, SaveKeeps DEF BothWhole
<1> QED
  BY <1>1 DEF BothWhole

\* The record that a step of a task saves.
LEMMA TaskRecorded ==
    ASSUME PlansTyped, NEW t \in Task, NEW s, NEW a, Save(MetaOf(meta, t, s, a))
    PROVE  \E next :
            /\ Save(next)
            /\ next.tasks = [meta.tasks EXCEPT ![t] = s]
            /\ next.active = a
            /\ next.plans = meta.plans
<1>1. meta \in Metas
  BY DEF PlansTyped
<1>2. /\ MetaOf(meta, t, s, a).tasks = [meta.tasks EXCEPT ![t] = s]
      /\ MetaOf(meta, t, s, a).active = a
      /\ MetaOf(meta, t, s, a).plans = meta.plans
  BY <1>1 DEF Metas, MetaOf
<1> QED
  BY <1>2, Zenon

LEMMA TaskRuns ==
    ASSUME PlansTyped, BothWhole, NEW t \in Task, TaskCreate(t)
    PROVE  BothWhole'
<1>1. Save(MetaOf(meta, t, "running", t)) /\ Grows
  BY DEF TaskCreate, MetaOf, Grows
<1>2. PICK next :
        /\ Save(next)
        /\ next.tasks = [meta.tasks EXCEPT ![t] = "running"]
        /\ next.active = t
        /\ next.plans = meta.plans
  BY <1>1, TaskRecorded
<1>3. Whole(meta, projects, file) /\ meta.tasks \in [Task -> {"none", "running", "closed"}]
  BY DEF BothWhole, PlansTyped, Metas
<1>4. {u \in Task : meta.tasks[u] = "running"} = {}
  BY <1>3 DEF TaskCreate, Whole, OneActive
<1>5. OneActive(next)
  <2>1. {u \in Task : next.tasks[u] = "running"} = {t}
    BY <1>2, <1>3, <1>4
  <2> QED
    BY <1>2, <2>1 DEF OneActive
<1>6. Whole(next, projects', file')
  BY <1>2, <1>3, <1>5 DEF TaskCreate, Whole
<1> QED
  BY <1>1, <1>2, <1>6, SavedWhole

LEMMA TaskEnds ==
    ASSUME PlansTyped, BothWhole, NEW t \in Task, TaskUpdate(t)
    PROVE  BothWhole'
<1>1. Save(MetaOf(meta, t, "closed", Nil)) /\ Grows
  BY DEF TaskUpdate, MetaOf, Grows
<1>2. PICK next :
        /\ Save(next)
        /\ next.tasks = [meta.tasks EXCEPT ![t] = "closed"]
        /\ next.active = Nil
        /\ next.plans = meta.plans
  BY <1>1, TaskRecorded
<1>3. Whole(meta, projects, file) /\ meta.tasks \in [Task -> {"none", "running", "closed"}]
  BY DEF BothWhole, PlansTyped, Metas
<1>4. {u \in Task : meta.tasks[u] = "running"} = {t}
  BY <1>3 DEF TaskUpdate, Whole, OneActive
<1>5. OneActive(next)
  <2>1. {u \in Task : next.tasks[u] = "running"} = {}
    BY <1>2, <1>3, <1>4
  <2> QED
    BY <1>2, <2>1 DEF OneActive
<1>6. meta.tasks[t] = "running"
  BY <1>4
<1>7. Whole(next, projects', file')
  BY <1>2, <1>3, <1>5, <1>6 DEF TaskUpdate, Whole
<1> QED
  BY <1>1, <1>2, <1>7, SavedWhole

LEMMA PlanRecorded ==
    ASSUME PlansTyped, NEW t \in Task, NEW s, Save(PlanOf(meta, t, s))
    PROVE  \E next :
            /\ Save(next)
            /\ next.tasks = meta.tasks
            /\ next.active = meta.active
            /\ next.plans = [meta.plans EXCEPT ![t] = s]
<1>1. meta \in Metas
  BY DEF PlansTyped
<1>2. /\ PlanOf(meta, t, s).tasks = meta.tasks
      /\ PlanOf(meta, t, s).active = meta.active
      /\ PlanOf(meta, t, s).plans = [meta.plans EXCEPT ![t] = s]
  BY <1>1 DEF Metas, PlanOf
<1> QED
  BY <1>2, Zenon

LEMMA RecordedWhole ==
    ASSUME PlansTyped, BothWhole, Grows, NEW t \in Task, NEW s, Save(PlanOf(meta, t, s)),
           file'[t] # None
    PROVE  BothWhole'
<1>1. Whole(meta, projects', file') /\ meta.plans \in [Task -> {"none", "waiting", "proceeded"}]
  BY WholeGrows DEF BothWhole, PlansTyped, Metas
<1>2. PICK next :
        /\ Save(next)
        /\ next.tasks = meta.tasks
        /\ next.active = meta.active
        /\ next.plans = [meta.plans EXCEPT ![t] = s]
  BY PlanRecorded
<1>3. Whole(next, projects', file')
  BY <1>1, <1>2 DEF Whole, OneActive
<1> QED
  BY <1>2, <1>3, SavedWhole

LEMMA PlansWhole ==
    ASSUME PlansTyped, BothWhole, NEW t \in Task, PlanCreate(t)
    PROVE  BothWhole'
<1>1. PICK x \in Markdown : Solid(x) /\ file' = [file EXCEPT ![t] = x]
  BY CreateLands
<1>2. Grows /\ file'[t] # None
  BY <1>1, LandedGrows DEF PlanCreate
<1>3. Save(PlanOf(meta, t, "waiting"))
  BY CreateLands
<1> QED
  BY <1>2, <1>3, RecordedWhole

LEMMA ProceedWhole ==
    ASSUME PlansTyped, BothWhole, NEW w \in Worker, Proceeds(w)
    PROVE  BothWhole'
<1> DEFINE t == work[w].task
<1>1. t \in Task
  BY JobShape DEF PlansTyped, Proceeds
<1>2. Grows
  BY DEF Proceeds, Grows
<1>3. CASE meta.plans[t] = "waiting"
  <2>1. Save(PlanOf(meta, t, "proceeded"))
    BY <1>3 DEF Proceeds, PlanOf
  <2>2. file'[t] # None
    BY <1>1, <1>2, <1>3 DEF BothWhole, Whole, Grows
  <2> QED
    BY <1>1, <1>2, <2>1, <2>2, RecordedWhole
<1>4. CASE meta.plans[t] # "waiting"
  BY <1>4 DEF Proceeds, BothWhole
<1> QED
  BY <1>3, <1>4

LEMMA OthersWhole ==
    ASSUME BothWhole, UNCHANGED <<projects, file, saved>>, meta' = meta \/ meta' = saved
    PROVE  BothWhole'
BY DEF BothWhole

LEMMA WritesWhole ==
    ASSUME PlansTyped, BothWhole, NEW w \in Worker, UpdateWrites(w) \/ EditWrites(w)
    PROVE  BothWhole'
<1>1. work[w].kind \in {"update", "edit"} /\ Writes(w) /\ UNCHANGED <<meta, saved, projects>>
  BY DEF UpdateWrites, EditWrites
<1>2. work[w].task \in Task
  BY <1>1, JobShape DEF PlansTyped
<1>3. PICK x \in Markdown : Solid(x) /\ file' = [file EXCEPT ![work[w].task] = x]
  BY <1>1, WriteLands
<1>4. Grows
  BY <1>1, <1>2, <1>3, LandedGrows
<1> QED
  BY <1>1, <1>4, WholeGrows DEF BothWhole

\* Whatever is left behind when the processes end can be opened again.
THEOREM PlansReopen == PlansSpec => []ReopensWhole
<1>1. PlansInit => BothWhole
  BY DEF PlansInit, NoMeta, BothWhole, Whole, OneActive
<1>2. PlansTyped /\ BothWhole /\ [PlansNext]_plansVars => BothWhole'
  <2> SUFFICES ASSUME PlansTyped, BothWhole, [PlansNext]_plansVars PROVE BothWhole'
    OBVIOUS
  <2>1. ASSUME NEW t \in Task, PlannerStarts(t) \/ PlannerRests(t)
        PROVE  BothWhole'
    BY <2>1, OthersWhole DEF PlannerStarts, PlannerRests
  <2>2. ASSUME NEW t \in Task, NEW w \in Worker, UpdateReads(w, t) \/ EditReads(w, t) \/ ProceedReads(w, t)
        PROVE  BothWhole'
    BY <2>2, OthersWhole DEF UpdateReads, EditReads, ProceedReads
  <2>3. ASSUME NEW w \in Worker, WriteFails(w) \/ Resumes(w) \/ ProceedFails(w)
        PROVE  BothWhole'
    BY <2>3, OthersWhole DEF WriteFails, Resumes, ProceedFails
  <2>4. CASE Reopen \/ UNCHANGED plansVars
    BY <2>4, OthersWhole DEF Reopen, plansVars
  <2> QED
    BY <2>1, <2>2, <2>3, <2>4, TaskRuns, TaskEnds, PlansWhole, ProceedWhole, WritesWhole DEF PlansNext
<1>3. BothWhole => ReopensWhole
  BY DEF BothWhole, Whole, OneActive, ReopensWhole
<1> QED
  BY <1>1, <1>2, <1>3, TypedHolds, PTL DEF PlansSpec

----------------------------------------------------------------------------
(* Proceed.  The mark comes after the resume, so between them it is the    *)
(* job that remembers, unless the plan was replaced.                       *)

Marked(m) == \A t \in Task : m.plans[t] = "proceeded" => t \in resumed \cup overtaken

MarksKnow ==
    \A w \in Worker : work[w].kind = "mark" /\ ~work[w].stale => work[w].task \in resumed

Known == Marked(meta) /\ Marked(saved) /\ MarksKnow

LEMMA TasksKnown ==
    ASSUME PlansTyped, Known, NEW t \in Task, TaskCreate(t) \/ TaskUpdate(t)
    PROVE  Known'
<1>1. PICK s \in {"running", "closed"}, a \in {t, Nil} : Save(MetaOf(meta, t, s, a))
  BY DEF TaskCreate, TaskUpdate, MetaOf
<1>2. PICK next :
        /\ Save(next)
        /\ next.tasks = [meta.tasks EXCEPT ![t] = s]
        /\ next.active = a
        /\ next.plans = meta.plans
  BY <1>1, TaskRecorded
<1>3. UNCHANGED <<work, resumed, overtaken>>
  BY DEF TaskCreate, TaskUpdate, historyVars, boundVars
<1>4. Marked(next)'
  BY <1>2, <1>3 DEF Known, Marked
<1> QED
  BY <1>2, <1>3, <1>4, SaveKeeps DEF Known, Marked, MarksKnow

LEMMA PlansKnown ==
    ASSUME PlansTyped, Known, NEW t \in Task, PlanCreate(t)
    PROVE  Known'
<1>1. PICK next : Save(next) /\ next.plans = [meta.plans EXCEPT ![t] = "waiting"]
  BY CreateLands, PlanRecorded
<1>2. meta.plans \in [Task -> {"none", "waiting", "proceeded"}]
  BY DEF PlansTyped, Metas
<1>3. /\ \A u \in Task \ {t} : u \in resumed \cup overtaken => u \in resumed' \cup overtaken'
      /\ \/ resumed' = resumed /\ overtaken' = overtaken
         \/ meta'.plans[t] = "waiting" /\ saved'.plans[t] = "waiting"
  BY DEF PlanCreate
<1>4. \A u \in Task : next.plans[u] = "proceeded" => u # t /\ meta.plans[u] = "proceeded"
  BY <1>1, <1>2
<1>5. Marked(meta)' /\ Marked(saved)'
  <2>1. /\ meta' = meta \/ meta' = next
        /\ saved' = saved \/ saved' = next
    BY <1>1, SaveKeeps
  <2> QED
    BY <1>3, <1>4, <2>1 DEF Known, Marked
<1>6. MarksKnow'
  <2> SUFFICES ASSUME NEW w \in Worker, work'[w].kind = "mark", ~work'[w].stale
               PROVE  work'[w].task \in resumed'
    BY DEF MarksKnow
  <2>1. work' = Outdate(t, Nil) /\ w # Nil
    BY CreateLands
  <2>2. work[w].kind = "mark" /\ work[w].task \in Task
    BY <2>1, Outdated, JobShape DEF PlansTyped
  <2>3. work[w].task # t
    BY <2>1, <2>2, Outdated
  <2>4. work'[w] = work[w]
    BY <2>1, <2>2, <2>3, Outdated
  <2>5. work[w].task \in resumed
    BY <2>2, <2>4 DEF Known, MarksKnow
  <2> QED
    BY <2>2, <2>3, <2>4, <2>5 DEF PlanCreate
<1> QED
  BY <1>5, <1>6 DEF Known

LEMMA WritesKnown ==
    ASSUME PlansTyped, Known, NEW w \in Worker, UpdateWrites(w) \/ EditWrites(w)
    PROVE  Known'
<1> DEFINE t == work[w].task
<1>1. work[w].kind \in {"update", "edit"} /\ Writes(w)
  BY DEF UpdateWrites, EditWrites
<1>2. UNCHANGED <<meta, saved, resumed, overtaken>>
  BY DEF UpdateWrites, EditWrites
<1>3. t \in Task /\ work' = [Outdate(t, w) EXCEPT ![w] = Idle]
  BY <1>1, WriteLands, JobShape DEF PlansTyped
<1> HIDE DEF t
<1>4. MarksKnow'
  <2> SUFFICES ASSUME NEW v \in Worker, work'[v].kind = "mark", ~work'[v].stale
               PROVE  work'[v].task \in resumed'
    BY DEF MarksKnow
  <2>1. v # w /\ work'[v] = Outdate(t, w)[v]
    BY <1>3, IdleJob, Outdated
  <2>2. work[v].kind = "mark"
    BY <1>3, <2>1, Outdated
  <2>3. work'[v] = work[v]
    BY <1>3, <2>1, <2>2, Outdated
  <2> QED
    BY <1>2, <2>2, <2>3 DEF Known, MarksKnow
<1> QED
  BY <1>2, <1>4 DEF Known, Marked

LEMMA ResumesKnown ==
    ASSUME PlansTyped, Known, NEW w \in Worker, Resumes(w) \/ ProceedFails(w) \/ WriteFails(w)
    PROVE  Known'
<1>1. /\ meta' = meta /\ saved' = saved /\ overtaken' = overtaken /\ resumed \subseteq resumed'
  BY DEF Resumes, ProceedFails, WriteFails, Resume, historyVars, boundVars
<1>2. MarksKnow'
  <2>1. CASE Resumes(w)
    <3>1. work' = [work EXCEPT ![w] = [work[w] EXCEPT !.kind = "mark"]] /\ work[w].task \in resumed'
      BY <2>1 DEF Resumes, Resume
    <3>2. [work[w] EXCEPT !.kind = "mark"].task = work[w].task
      <4>1. work[w] \in [kind : {"resume", "mark"}, task : Task, stale : BOOLEAN]
        BY <2>1 DEF Resumes, PlansTyped, Job, Idle
      <4> QED
        BY <4>1
    <3> QED
      BY <1>1, <3>1, <3>2 DEF Known, MarksKnow, PlansTyped
  <2>2. CASE ProceedFails(w) \/ WriteFails(w)
    <3>1. work' = [work EXCEPT ![w] = Idle]
      BY <2>2 DEF ProceedFails, WriteFails
    <3> QED
      BY <1>1, <3>1, IdleJob DEF Known, MarksKnow, PlansTyped
  <2> QED
    BY <2>1, <2>2
<1> QED
  BY <1>1, <1>2 DEF Known, Marked

LEMMA ProceedKnown ==
    ASSUME PlansTyped, Known, NEW w \in Worker, Proceeds(w)
    PROVE  Known'
<1> DEFINE t == work[w].task
<1>1. /\ t \in Task
      /\ resumed' = resumed /\ overtaken \subseteq overtaken'
      /\ t \in resumed' \cup overtaken'
  <2>1. work[w].kind = "mark" /\ work[w] \in Job
    BY DEF Proceeds, PlansTyped
  <2>2. t \in Task
    BY <2>1, JobShape
  <2>3. CASE work[w].stale
    BY <2>2, <2>3 DEF Proceeds
  <2>4. CASE ~work[w].stale
    BY <2>1, <2>2, <2>4 DEF Proceeds, Known, MarksKnow
  <2> QED
    BY <2>3, <2>4
<1>2. MarksKnow'
  <2>1. work' = [work EXCEPT ![w] = Idle]
    BY DEF Proceeds
  <2> QED
    BY <1>1, <2>1, IdleJob DEF Known, MarksKnow, PlansTyped
<1>3. Marked(meta)' /\ Marked(saved)'
  <2>1. CASE meta.plans[t] = "waiting"
    <3>1. PICK next : Save(next) /\ next.plans = [meta.plans EXCEPT ![t] = "proceeded"]
      <4>1. Save(PlanOf(meta, t, "proceeded"))
        BY <2>1 DEF Proceeds, PlanOf
      <4> QED
        BY <1>1, <4>1, PlanRecorded
    <3>2. \A u \in Task : next.plans[u] = "proceeded" => u = t \/ meta.plans[u] = "proceeded"
      BY <3>1 DEF PlansTyped, Metas
    <3>3. /\ meta' = meta \/ meta' = next
          /\ saved' = saved \/ saved' = next
      BY <3>1, SaveKeeps
    <3> QED
      BY <1>1, <3>2, <3>3 DEF Known, Marked
  <2>2. CASE meta.plans[t] # "waiting"
    BY <1>1, <2>2 DEF Proceeds, Known, Marked
  <2> QED
    BY <2>1, <2>2
<1> QED
  BY <1>2, <1>3 DEF Known

LEMMA ReadsKnown ==
    ASSUME PlansTyped, Known, NEW w \in Worker, NEW t \in Task,
           UpdateReads(w, t) \/ EditReads(w, t) \/ ProceedReads(w, t)
    PROVE  Known'
<1>1. UNCHANGED <<meta, saved, resumed, overtaken>>
  BY DEF UpdateReads, EditReads, ProceedReads, historyVars, boundVars
<1>2. /\ \A v \in Worker \ {w} : work'[v] = work[v]
      /\ work'[w].kind # "mark"
  BY DEF UpdateReads, EditReads, ProceedReads, PlansTyped
<1>3. MarksKnow'
  BY <1>1, <1>2 DEF Known, MarksKnow
<1> QED
  BY <1>1, <1>3 DEF Known, Marked

\* No plan is marked as being executed unless its planner was resumed.
THEOREM PlansProceed == PlansSpec => []ProceedResumes
<1>1. PlansInit => Known
  BY IdleJob DEF PlansInit, NoMeta, Known, Marked, MarksKnow
<1>2. PlansTyped /\ Known /\ [PlansNext]_plansVars => Known'
  <2> SUFFICES ASSUME PlansTyped, Known, [PlansNext]_plansVars PROVE Known'
    OBVIOUS
  <2>1. ASSUME NEW t \in Task, PlannerStarts(t) \/ PlannerRests(t)
        PROVE  Known'
    BY <2>1 DEF PlannerStarts, PlannerRests, boundVars, historyVars, Known, Marked, MarksKnow
  <2>2. CASE Reopen
    BY <2>2, IdleJob DEF Reopen, historyVars, Known, Marked, MarksKnow
  <2>3. CASE UNCHANGED plansVars
    BY <2>3 DEF plansVars, historyVars, Known, Marked, MarksKnow
  <2> QED
    BY <2>1, <2>2, <2>3, ReadsKnown, TasksKnown, PlansKnown, WritesKnown, ResumesKnown,
       ProceedKnown DEF PlansNext
<1>3. Known => ProceedResumes
  BY DEF Known, Marked, ProceedResumes
<1> QED
  BY <1>1, <1>2, <1>3, TypedHolds, PTL DEF PlansSpec

HIDE PlansAssumption

----------------------------------------------------------------------------
(* What is read against what is meant.                                      *)

LEMMA SuffixIs ==
    ASSUME NEW S, NEW s \in Seq(S), NEW t \in Seq(S)
    PROVE  IsSuffix(s, t) <=> /\ Len(s) <= Len(t)
                              /\ \A i \in 1 .. Len(s) : s[(Len(s) - i) + 1] = t[(Len(t) - i) + 1]
<1> DEFINE a == Reverse(s)
           b == Reverse(t)
           n == Len(s)
<1>1. /\ n \in Nat /\ Len(t) \in Nat
      /\ \A i \in 1 .. n : s[i] \in S
      /\ \A i \in 1 .. Len(t) : t[i] \in S
  BY SeqShape
<1>2. /\ Len(a) = n /\ \A i \in 1 .. n : a[i] = s[(n - i) + 1] /\ a[i] \in S
      /\ Len(b) = Len(t) /\ \A i \in 1 .. Len(t) : b[i] = t[(Len(t) - i) + 1] /\ b[i] \in S
  BY <1>1 DEF Reverse
<1>3. IsSuffix(s, t) <=> Len(a) <= Len(b) /\ SubSeq(a, 1, Len(a)) = SubSeq(b, 1, Len(a))
  BY DEF IsSuffix, IsPrefix
<1> HIDE DEF a, b, n
<1>4. ASSUME n <= Len(t)
      PROVE  SubSeq(a, 1, n) = SubSeq(b, 1, n) <=> \A i \in 1 .. n : a[i] = b[i]
  <2>1. \A i \in 1 .. n : a[i] \in S /\ b[i] \in S
    BY <1>1, <1>2, <1>4
  <2>2. /\ SubSeq(a, 1, n) \in Seq(S) /\ Len(SubSeq(a, 1, n)) = n
        /\ SubSeq(b, 1, n) \in Seq(S) /\ Len(SubSeq(b, 1, n)) = n
        /\ \A i \in 1 .. n : SubSeq(a, 1, n)[i] = a[i] /\ SubSeq(b, 1, n)[i] = b[i]
    BY <1>1, <2>1
  <2> QED
    BY <2>2, SeqEqual
<1>5. ASSUME n <= Len(t), NEW i \in 1 .. n
      PROVE  a[i] = s[(n - i) + 1] /\ b[i] = t[(Len(t) - i) + 1]
  BY <1>1, <1>2, <1>5
<1>6. CASE n <= Len(t)
  <2>1. IsSuffix(s, t) <=> \A i \in 1 .. n : a[i] = b[i]
    BY <1>2, <1>3, <1>4, <1>6
  <2>2. (\A i \in 1 .. n : a[i] = b[i]) <=>
        \A i \in 1 .. n : s[(n - i) + 1] = t[(Len(t) - i) + 1]
    BY <1>5, <1>6
  <2> QED
    BY <1>6, <2>1, <2>2 DEF n
<1>7. CASE ~ (n <= Len(t))
  BY <1>2, <1>3, <1>7 DEF n
<1> QED
  BY <1>6, <1>7

LEMMA SuffixSelf ==
    ASSUME NEW S, NEW s \in Seq(S)
    PROVE  IsSuffix(s, s)
BY SuffixIs, SeqShape

LEMMA SuffixBelow ==
    ASSUME NEW S, NEW s \in Seq(S), NEW t \in Seq(S), NEW u \in Seq(S), IsSuffix(s, t)
    PROVE  IsSuffix(s, u \o t)
<1>1. /\ Len(s) \in Nat /\ Len(t) \in Nat /\ Len(u) \in Nat /\ Len(s) <= Len(t)
      /\ \A i \in 1 .. Len(s) : s[(Len(s) - i) + 1] = t[(Len(t) - i) + 1]
  BY SeqShape, SuffixIs
<1>2. /\ u \o t \in Seq(S) /\ Len(u \o t) = Len(u) + Len(t)
      /\ \A i \in 1 .. Len(u) + Len(t) :
            (u \o t)[i] = IF i <= Len(u) THEN u[i] ELSE t[i - Len(u)]
  BY ConcatProperties
<1>3. ASSUME NEW i \in 1 .. Len(s)
      PROVE  (u \o t)[(Len(u \o t) - i) + 1] = t[(Len(t) - i) + 1]
  <2> DEFINE j == (Len(t) - i) + 1
  <2>1. /\ j \in 1 .. Len(t) /\ (Len(u \o t) - i) + 1 = Len(u) + j
    BY <1>1, <1>2
  <2> HIDE DEF j
  <2>2. Len(u) + j \in 1 .. Len(u) + Len(t) /\ ~ (Len(u) + j <= Len(u)) /\ (Len(u) + j) - Len(u) = j
    BY <1>1, <2>1
  <2>3. (u \o t)[Len(u) + j] = t[j]
    BY <1>2, <2>2
  <2> QED
    BY <2>1, <2>3 DEF j
<1>4. Len(s) <= Len(u \o t)
  BY <1>1, <1>2
<1> DEFINE v == u \o t
<1>5. /\ v \in Seq(S) /\ Len(s) <= Len(v)
      /\ \A i \in 1 .. Len(s) : v[(Len(v) - i) + 1] = s[(Len(s) - i) + 1]
  BY <1>1, <1>2, <1>3, <1>4
<1> HIDE DEF v
<1>6. IsSuffix(s, v)
  BY <1>5, SuffixIs
<1> QED
  BY <1>6 DEF v

LEMMA ReadsItself == ASSUME NEW plan \in Plan PROVE ReadsAs(plan, plan)
<1>1. \A i \in DOMAIN plan.steps : plan.steps[i].detail \in Seq(Line)
  <2>1. plan.steps \in Seq(Step)
    BY DEF Plan
  <2>2. \A i \in DOMAIN plan.steps : plan.steps[i] \in Step
    BY <2>1, SeqShape
  <2> QED
    BY <2>2 DEF Step
<1> QED
  BY <1>1, SuffixSelf DEF ReadsAs

\* An update makes of the plan that is read what it makes of the plan that is meant.
LEMMA UpdateAgrees ==
    ASSUME NEW plan \in ReadPlan, NEW meant \in Plan, ReadsAs(plan, meant),
           NEW id, NEW status \in Status, NEW note \in Passage,
           Named(plan, id) # 0, note.says # 0, Innocent(note)
    PROVE  /\ Named(meant, id) # 0
           /\ ReadsAs(ParsePlan(RenderPlan(
                          Changed(plan, Named(plan, id), Told(plan.steps[Named(plan, id)], status, note)))),
                      Updated(meant, id, status, note))
<1> DEFINE k == Named(plan, id)
           n == Len(meant.steps)
           new == Told(plan.steps[k], status, note)
           now == Told(meant.steps[k], status, note)
           read == ParsePlan(RenderPlan(Changed(plan, k, new)))
<1>1. /\ n \in Nat /\ DOMAIN meant.steps = 1 .. n /\ meant.steps \in Seq(Step)
      /\ \A i \in 1 .. n : meant.steps[i] \in Step
  BY SeqShape DEF Plan
<1>2. /\ Len(plan.steps) = n /\ plan.goal.says = meant.goal.says
      /\ \A i \in 1 .. n : /\ plan.steps[i].id = meant.steps[i].id
                           /\ plan.steps[i].status = meant.steps[i].status
                           /\ plan.steps[i].note.says = meant.steps[i].note.says
                           /\ IsSuffix(meant.steps[i].detail, plan.steps[i].detail)
  BY <1>1 DEF ReadsAs
<1>3. Named(meant, id) = k
  BY <1>2, NamedSame
<1>4. /\ k \in 1 .. n /\ plan.steps[k].id = id /\ new \in Step
      /\ plan \in Plan
  BY <1>2, UpdateMakes, ReadIsPlan
<1>5. Updated(meant, id, status, note) = Changed(meant, k, now) /\ now \in Step
  BY <1>3, UpdateMakes
<1> HIDE DEF k, n
<1>6. plan.steps[k] \in ReadStep /\ k \in 1 .. Len(plan.steps)
  BY <1>2, <1>4, ReadShape
<1>7. /\ new.id = id /\ new.status = status /\ new.note = note /\ new.detail = plan.steps[k].detail
      /\ now.id = meant.steps[k].id /\ now.status = status /\ now.note = note
      /\ now.detail = meant.steps[k].detail
  BY <1>4 DEF Told
<1> HIDE DEF new, now
<1>8. Len(new.note.sections) = 0
  BY <1>7 DEF Innocent
<1>9. /\ read.goal = plan.goal /\ Len(read.steps) = n
      /\ \A i \in 1 .. n : i # k => read.steps[i] = plan.steps[i]
      /\ read.steps[k] = ParseStep(RenderStep(new)[1], k)
  <2>1. /\ read.goal = plan.goal
        /\ Len(read.steps) = Len(plan.steps) + Len(new.note.sections)
        /\ \A i \in 1 .. k - 1 : read.steps[i] = plan.steps[i]
        /\ read.steps[k] = ParseStep(RenderStep(new)[1], k)
        /\ \A i \in k + 1 .. Len(plan.steps) : read.steps[i + Len(new.note.sections)] = plan.steps[i]
    BY <1>4, <1>6, ChangedRead
  <2> HIDE DEF read
  <2>2. Len(read.steps) = n
    BY <1>1, <1>2, <1>8, <2>1
  <2>3. ASSUME NEW i \in 1 .. n, i # k PROVE read.steps[i] = plan.steps[i]
    <3>1. CASE i < k
      <4>1. i \in 1 .. k - 1
        BY <1>1, <1>4, <3>1
      <4> QED
        BY <2>1, <4>1
    <3>2. CASE i > k
      <4>1. i \in k + 1 .. Len(plan.steps) /\ i + Len(new.note.sections) = i
        BY <1>1, <1>2, <1>4, <1>8, <3>2
      <4> QED
        BY <2>1, <4>1
    <3> QED
      BY <1>1, <1>4, <2>3, <3>1, <3>2
  <2> QED
    BY <2>1, <2>2, <2>3
<1> HIDE DEF read
<1>10. read.steps[k] = [new EXCEPT !.note = Says(@.says), !.detail = Below(new)]
  <2>1. new.id # 0 /\ Words(new.detail) /\ Innocent(new.note)
    BY <1>4, <1>6, <1>7, WordsTyped DEF ReadStep
  <2> QED
    BY <1>4, <1>9, <2>1, StepRead
<1>11. /\ read.steps[k].id = id /\ read.steps[k].status = status
       /\ read.steps[k].note.says = note.says
       /\ read.steps[k].detail = Below(new)
  <2>1. new.note.says \in Nat
    BY <1>7 DEF Passage
  <2>2. /\ read.steps[k].id = new.id /\ read.steps[k].status = new.status
        /\ read.steps[k].note = Says(new.note.says) /\ read.steps[k].detail = Below(new)
    <3> DEFINE x == Says(new.note.says)
               b == Below(new)
    <3>1. read.steps[k] = [new EXCEPT !.note = x, !.detail = b]
      BY <1>10
    <3> HIDE DEF x, b
    <3>2. read.steps[k] = [id |-> new.id, status |-> new.status, note |-> x, detail |-> b]
      BY <1>4, <3>1, StepWith
    <3> QED
      BY <3>2 DEF x, b
  <2> QED
    BY <1>7, <2>1, <2>2, SaysTyped
<1>12. IsSuffix(now.detail, Below(new))
  <2>1. /\ now.detail \in Seq(Line) /\ plan.steps[k].detail \in Seq(Line)
        /\ note.lines \in Seq(Line)
    BY <1>4, <1>5, <1>7 DEF Step, Passage
  <2>2. IsSuffix(now.detail, plan.steps[k].detail)
    BY <1>2, <1>4, <1>7
  <2>3. Below(new) = note.lines \o plan.steps[k].detail
    BY <1>7 DEF Below
  <2> QED
    BY <2>1, <2>2, <2>3, SuffixBelow
<1> DEFINE p == Changed(meant, k, now)
<1>13. /\ p.goal = meant.goal /\ Len(p.steps) = n /\ DOMAIN p.steps = 1 .. n
       /\ \A i \in 1 .. n : p.steps[i] = IF i = k THEN now ELSE meant.steps[i]
  BY <1>1, <1>4 DEF Changed, n
<1> HIDE DEF p
<1>14. ReadsAs(read, p)
  <2>1. read.goal.says = p.goal.says /\ Len(read.steps) = Len(p.steps)
    BY <1>2, <1>9, <1>13
  <2>2. ASSUME NEW i \in 1 .. n
        PROVE  /\ read.steps[i].id = p.steps[i].id /\ read.steps[i].status = p.steps[i].status
               /\ read.steps[i].note.says = p.steps[i].note.says
               /\ IsSuffix(p.steps[i].detail, read.steps[i].detail)
    <3>1. CASE i = k
      <4>1. p.steps[i] = now /\ now.id = id
        BY <1>2, <1>4, <1>7, <1>13, <3>1
      <4> QED
        BY <1>7, <1>11, <1>12, <3>1, <4>1
    <3>2. CASE i # k
      BY <1>2, <1>9, <1>13, <3>2
    <3> QED
      BY <3>1, <3>2
  <2> QED
    BY <1>13, <2>1, <2>2 DEF ReadsAs
<1>15. Named(meant, id) # 0
  BY <1>1, <1>3, <1>4
<1> QED
  BY <1>5, <1>14, <1>15 DEF p, read, new, k

\* So does a plan that was created.
LEMMA CreateAgrees ==
    ASSUME NEW d \in Drafts, Innocent(d.goal), \A i \in DOMAIN d.details : Words(d.details[i])
    PROVE  ReadsAs(ParsePlan(RenderPlan(NewPlan(d))), [NewPlan(d) EXCEPT !.goal = Says(@.says)])
<1> DEFINE plan == NewPlan(d)
           said == [plan EXCEPT !.goal = Says(@.says)]
           n == Len(d.details)
<1>1. /\ plan \in Plan /\ plan.goal = d.goal /\ d.goal \in Passage
      /\ Len(plan.steps) = n /\ n \in Nat \ {0}
      /\ \A i \in 1 .. n : /\ d.details[i] \in Seq(Line) /\ i \in DOMAIN d.details
                           /\ plan.steps[i] = [id |-> i, status |-> "todo", note |-> Says(0),
                                               detail |-> d.details[i]]
  BY NewPlanOK
<1> HIDE DEF plan, n
<1>2. plan.steps \in Seq(Step) /\ said = [goal |-> Says(plan.goal.says), steps |-> plan.steps]
  BY <1>1 DEF Plan
<1>3. ASSUME NEW i \in 1 .. n PROVE plan.steps[i] \in ReadStep
  <2>1. d.details[i] \in Seq(WordLine)
    BY <1>1, WordsTyped
  <2>2. plan.steps[i] \in Step
    BY <1>1, <1>2, SeqShape
  <2>3. /\ plan.steps[i].id = i /\ plan.steps[i].note = Says(0)
        /\ plan.steps[i].detail = d.details[i] /\ i # 0
    <3> DEFINE x == Says(0)
               y == d.details[i]
    <3>1. plan.steps[i] = [id |-> i, status |-> "todo", note |-> x, detail |-> y] /\ i # 0
      BY <1>1
    <3> HIDE DEF x, y
    <3>2. plan.steps[i].id = i /\ plan.steps[i].note = x /\ plan.steps[i].detail = y
      BY <3>1
    <3> QED
      BY <3>1, <3>2 DEF x, y
  <2>4. Says(0).says = 0
    BY SaysTyped
  <2> QED
    BY <2>1, <2>2, <2>3, <2>4 DEF ReadStep
<1>4. plan.steps \in Seq(ReadStep)
  <2>1. plan.steps = [i \in 1 .. n |-> plan.steps[i]]
    BY <1>1, <1>2, SeqShape
  <2> QED
    BY <1>1, <1>3, <2>1, SeqMade
<1>5. said \in ReadPlan /\ said \in Plan
  <2>1. Says(plan.goal.says) \in Passage /\ Says(plan.goal.says).says = plan.goal.says
    BY <1>1, SaysTyped DEF Passage
  <2> QED
    BY <1>2, <1>4, <2>1, ReadIsPlan DEF ReadPlan
<1>6. RenderPlan(plan) = RenderPlan(said)
  <2>1. Says(plan.goal.says).says = plan.goal.says /\ Says(plan.goal.says).sections = <<>>
    BY <1>1, SaysTyped DEF Passage
  <2>2. plan.goal.sections = <<>>
    BY <1>1 DEF Innocent
  <2>3. said.goal = Says(plan.goal.says) /\ said.steps = plan.steps
    BY <1>2
  <2> HIDE DEF said
  <2> QED
    BY <2>1, <2>2, <2>3 DEF RenderPlan
<1> DEFINE first == said.steps[1]
           read == ParsePlan(RenderPlan(said))
<1> HIDE DEF said
<1>7. /\ Len(said.steps) = n /\ 1 \in 1 .. Len(said.steps) /\ first \in ReadStep /\ first \in Step
      /\ said.steps \in Seq(ReadStep)
  BY <1>1, <1>2, <1>3, <1>4, ReadIsPlan
<1>8. Changed(said, 1, first) = said
  <2>1. [said.steps EXCEPT ![1] = said.steps[1]] = said.steps
    <3>1. said.steps = [i \in 1 .. Len(said.steps) |-> said.steps[i]]
      BY <1>7, SeqShape
    <3> QED
      BY <3>1
  <2> QED
    BY <1>5, <2>1 DEF Changed, Plan
<1> HIDE DEF first
<1>9. first.note.sections = <<>>
  <2>1. first.note = Says(first.note.says) /\ first.note.says \in Nat
    BY <1>7 DEF ReadStep, Step, Passage
  <2> QED
    BY <2>1, SaysTyped
<1>10. /\ read.goal = said.goal /\ Len(read.steps) = n + Len(first.note.sections)
       /\ read.steps[1] = ParseStep(RenderStep(first)[1], 1)
       /\ \A i \in 1 + 1 .. n : read.steps[i + Len(first.note.sections)] = said.steps[i]
       /\ read \in ReadPlan
  <2>1. /\ RenderPlan(said) \in Markdown
        /\ read.goal = said.goal /\ Len(read.steps) = n + Len(first.note.sections)
        /\ read.steps[1] = ParseStep(RenderStep(first)[1], 1)
        /\ \A i \in 1 + 1 .. n : read.steps[i + Len(first.note.sections)] = said.steps[i]
    <3> DEFINE one == Changed(said, 1, first)
    <3>1. /\ RenderPlan(one) \in Markdown
          /\ ParsePlan(RenderPlan(one)).goal = said.goal
          /\ Len(ParsePlan(RenderPlan(one)).steps) = Len(said.steps) + Len(first.note.sections)
          /\ ParsePlan(RenderPlan(one)).steps[1] = ParseStep(RenderStep(first)[1], 1)
          /\ \A i \in 1 + 1 .. Len(said.steps) :
                ParsePlan(RenderPlan(one)).steps[i + Len(first.note.sections)] = said.steps[i]
      BY <1>5, <1>7, ChangedRead
    <3>2. one = said
      BY <1>8
    <3> HIDE DEF one
    <3> QED
      BY <1>7, <3>1, <3>2
  <2> QED
    BY <2>1, Parsed
<1>11. read.steps[1] = first
  BY <1>7, <1>10, ReadAgain
<1> HIDE DEF read
<1>12. Len(read.steps) = n /\ \A i \in 1 .. n : read.steps[i] = said.steps[i]
  <2>1. Len(first.note.sections) = 0
    BY <1>9
  <2>2. Len(read.steps) = n
    BY <1>1, <1>10, <2>1
  <2>3. ASSUME NEW i \in 1 .. n PROVE read.steps[i] = said.steps[i]
    <3>1. CASE i = 1
      BY <1>11, <3>1 DEF first
    <3>2. CASE i # 1
      <4>1. i \in 1 + 1 .. n /\ i + Len(first.note.sections) = i
        BY <1>1, <2>1, <3>2
      <4> QED
        BY <1>10, <4>1
    <3> QED
      BY <3>1, <3>2
  <2> QED
    BY <2>2, <2>3
<1>13. read.steps = said.steps
  BY <1>7, <1>10, <1>12, ReadShape, SameSeq
<1>14. ReadsAs(said, said)
  BY <1>5, ReadsItself
<1>15. ReadsAs(read, said)
  BY <1>10, <1>13, <1>14 DEF ReadsAs
<1> QED
  BY <1>6, <1>15 DEF read, said, plan

----------------------------------------------------------------------------
(* The plan.  An update that is not stale still has the plan that the file *)
(* holds, so what it writes is what the update makes of the meant plan.    *)

FreshUpdates ==
    \A w \in Worker : work[w].kind = "update" /\ ~work[w].stale =>
        work[w].plan = ParsePlan(file[work[w].task])

Kept == FileIsThePlan /\ FreshUpdates

\* The jobs that are there still fit when nothing was written.
LEMMA NothingWritten ==
    ASSUME Kept, UNCHANGED <<file, ideal, overlapped, misread>>,
           \A w \in Worker : work'[w] = work[w] \/ work'[w].kind # "update"
    PROVE  Kept'
BY DEF Kept, FileIsThePlan, FreshUpdates

\* One plan is written, and it reads as it is meant.
LEMMA OneWritten ==
    ASSUME PlansTyped, FileIsThePlan, NEW t \in Task, NEW x, NEW p,
           file' = [file EXCEPT ![t] = x], ideal' = [ideal EXCEPT ![t] = p],
           \A u \in Task \ {t} : u \notin overlapped' \cup misread' => u \notin overlapped \cup misread,
           t \notin overlapped' \cup misread' => ReadsAs(ParsePlan(x), p)
    PROVE  FileIsThePlan'
<1>1. ASSUME NEW u \in Task, u \notin overlapped' \cup misread'
      PROVE  ReadsAs(ParsePlan(file'[u]), ideal'[u])
  <2>1. CASE u = t
    <3>1. file'[u] = x /\ ideal'[u] = p
      BY <2>1 DEF PlansTyped
    <3> QED
      BY <1>1, <2>1, <3>1
  <2>2. CASE u # t
    <3>1. file'[u] = file[u] /\ ideal'[u] = ideal[u] /\ u \notin overlapped \cup misread
      BY <1>1, <2>2 DEF PlansTyped
    <3> QED
      BY <3>1 DEF FileIsThePlan
  <2> QED
    BY <2>1, <2>2
<1> QED
  BY <1>1 DEF FileIsThePlan

\* A text lands: whoever has read the old one is stale now.
LEMMA LandsFresh ==
    ASSUME PlansTyped, FreshUpdates, NEW t \in Task, NEW w, NEW x,
           file' = [file EXCEPT ![t] = x],
           \A v \in Worker : (work'[v] = Outdate(t, w)[v] /\ v # w) \/ work'[v] = Idle
    PROVE  FreshUpdates'
<1> SUFFICES ASSUME NEW v \in Worker, work'[v].kind = "update", ~work'[v].stale
             PROVE  work'[v].plan = ParsePlan(file'[work'[v].task])
  BY DEF FreshUpdates
<1>1. work'[v] = Outdate(t, w)[v] /\ v # w
  BY IdleJob
<1>2. work[v].kind = "update"
  BY <1>1, Outdated
<1>3. work[v].task # t
  BY <1>1, <1>2, Outdated
<1>4. work'[v] = work[v] /\ work[v].task \in Task
  BY <1>1, <1>2, <1>3, Outdated, JobShape DEF PlansTyped
<1>5. work[v].plan = ParsePlan(file[work[v].task])
  BY <1>2, <1>4 DEF FreshUpdates
<1>6. file'[work[v].task] = file[work[v].task]
  BY <1>3, <1>4 DEF PlansTyped
<1> QED
  BY <1>4, <1>5, <1>6

LEMMA UpdateKept ==
    ASSUME PlansTyped, Kept, NEW w \in Worker, UpdateWrites(w)
    PROVE  Kept'
<1> DEFINE t == work[w].task
           job == work[w]
<1>1. /\ job.kind = "update" /\ job \in Job /\ Writes(w)
      /\ ideal' = IF Named(ideal[t], job.id) = 0 THEN ideal
                  ELSE [ideal EXCEPT ![t] = Updated(ideal[t], job.id, job.status, job.note)]
      /\ misread' = IF Innocent(job.note) THEN misread ELSE misread \cup {t}
  BY DEF UpdateWrites, PlansTyped
<1>2. /\ t \in Task /\ job.status \in Status /\ job.plan \in ReadPlan /\ job.note \in Passage
      /\ job.note.says # 0 /\ Named(job.plan, job.id) # 0
  BY <1>1, JobShape
<1>3. PICK x \in Markdown :
        /\ file' = [file EXCEPT ![t] = x]
        /\ work' = [Outdate(t, w) EXCEPT ![w] = Idle]
        /\ overlapped' = Overlapped(work[w], x)
  BY <1>1, WriteLands
<1>4. NewText(job) = RenderPlan(Changed(job.plan, Named(job.plan, job.id), Wanted(job)))
  BY <1>1, NewTexts
<1>5. ideal[t] \in Plan
  BY <1>2 DEF PlansTyped
<1> DEFINE p == IF Named(ideal[t], job.id) = 0 THEN ideal[t]
                ELSE Updated(ideal[t], job.id, job.status, job.note)
<1>6. ideal' = [ideal EXCEPT ![t] = p]
  BY <1>1, <1>2 DEF PlansTyped
<1>7. ASSUME t \notin overlapped' \cup misread'
      PROVE  ReadsAs(ParsePlan(x), p)
  <2>1. ~job.stale /\ x = NewText(job) /\ t \notin overlapped \cup misread /\ Innocent(job.note)
    BY <1>1, <1>3, <1>7 DEF Overlapped
  <2>2. job.plan = ParsePlan(file[t])
    BY <1>1, <2>1 DEF Kept, FreshUpdates
  <2>3. ReadsAs(job.plan, ideal[t])
    BY <1>2, <2>1, <2>2 DEF Kept, FileIsThePlan
  <2>4. x = RenderPlan(Changed(job.plan, Named(job.plan, job.id),
                       Told(job.plan.steps[Named(job.plan, job.id)], job.status, job.note)))
    BY <1>4, <2>1 DEF Wanted
  <2>5. /\ Named(ideal[t], job.id) # 0
        /\ ReadsAs(ParsePlan(x), Updated(ideal[t], job.id, job.status, job.note))
    BY <1>2, <1>5, <2>1, <2>3, <2>4, UpdateAgrees
  <2> QED
    BY <2>5
<1> HIDE DEF t, p
<1>8. FileIsThePlan'
  <2>1. \A u \in Task \ {t} : u \notin overlapped' \cup misread' => u \notin overlapped \cup misread
    BY <1>1, <1>3 DEF Overlapped, t
  <2> QED
    BY <1>2, <1>3, <1>6, <1>7, <2>1, OneWritten DEF Kept
<1>9. FreshUpdates'
  <2>1. \A v \in Worker : (work'[v] = Outdate(t, w)[v] /\ v # w) \/ work'[v] = Idle
    BY <1>2, <1>3, Outdated
  <2> QED
    BY <1>2, <1>3, <2>1, LandsFresh DEF Kept
<1> QED
  BY <1>8, <1>9 DEF Kept

LEMMA EditKept ==
    ASSUME PlansTyped, Kept, NEW w \in Worker, EditWrites(w)
    PROVE  Kept'
<1> DEFINE t == work[w].task
           p == ParsePlan(work[w].text)
<1>1. /\ work[w].kind = "edit" /\ work[w] \in Job
      /\ ideal' = [ideal EXCEPT ![t] = p]
      /\ misread' = misread \ {t}
  BY DEF EditWrites, PlansTyped
<1>2. t \in Task /\ p \in Plan
  BY <1>1, JobShape, Parsed, ReadIsPlan
<1>3. PICK x \in Markdown :
        /\ file' = [file EXCEPT ![t] = x]
        /\ work' = [Outdate(t, w) EXCEPT ![w] = Idle]
        /\ overlapped' = Overlapped(work[w], x)
  BY <1>1, WriteLands DEF EditWrites
<1>4. NewText(work[w]) = work[w].text
  BY <1>1 DEF NewText
<1>5. ASSUME t \notin overlapped' \cup misread'
      PROVE  ReadsAs(ParsePlan(x), p)
  <2>1. x = work[w].text
    BY <1>1, <1>3, <1>4, <1>5 DEF Overlapped
  <2> QED
    BY <1>2, <2>1, ReadsItself
<1> HIDE DEF t, p
<1>6. FileIsThePlan'
  <2>1. \A u \in Task \ {t} : u \notin overlapped' \cup misread' => u \notin overlapped \cup misread
    BY <1>1, <1>3 DEF Overlapped, t
  <2> QED
    BY <1>1, <1>2, <1>3, <1>5, <2>1, OneWritten DEF Kept
<1>7. FreshUpdates'
  <2>1. \A v \in Worker : (work'[v] = Outdate(t, w)[v] /\ v # w) \/ work'[v] = Idle
    BY <1>2, <1>3, Outdated
  <2> QED
    BY <1>2, <1>3, <2>1, LandsFresh DEF Kept
<1> QED
  BY <1>6, <1>7 DEF Kept

LEMMA CreateKept ==
    ASSUME PlansTyped, Kept, NEW t \in Task, PlanCreate(t)
    PROVE  Kept'
<1>1. PICK d \in Drafts, x \in Markdown :
        /\ file' = [file EXCEPT ![t] = x]
        /\ overlapped' = IF x # RenderPlan(NewPlan(d)) THEN overlapped \cup {t}
                         ELSE overlapped \ {t}
        /\ ideal' = [ideal EXCEPT ![t] = [NewPlan(d) EXCEPT !.goal = Says(@.says)]]
        /\ misread' = IF Innocent(d.goal) /\ \A i \in DOMAIN d.details : Words(d.details[i])
                      THEN misread \ {t} ELSE misread \cup {t}
  BY CreateLands
<1>2. ASSUME t \notin overlapped' \cup misread'
      PROVE  ReadsAs(ParsePlan(x), [NewPlan(d) EXCEPT !.goal = Says(@.says)])
  <2>1. /\ x = RenderPlan(NewPlan(d))
        /\ Innocent(d.goal) /\ \A i \in DOMAIN d.details : Words(d.details[i])
    BY <1>1, <1>2
  <2> QED
    BY <2>1, CreateAgrees
<1>3. FileIsThePlan'
  <2> DEFINE p == [NewPlan(d) EXCEPT !.goal = Says(@.says)]
  <2>1. \A u \in Task \ {t} : u \notin overlapped' \cup misread' => u \notin overlapped \cup misread
    BY <1>1
  <2>2. ideal' = [ideal EXCEPT ![t] = p] /\ (t \notin overlapped' \cup misread' => ReadsAs(ParsePlan(x), p))
    BY <1>1, <1>2
  <2> HIDE DEF p
  <2> QED
    BY <1>1, <2>1, <2>2, OneWritten DEF Kept
<1>4. FreshUpdates'
  <2>1. work' = Outdate(t, Nil)
    BY DEF PlanCreate
  <2>2. \A v \in Worker : work'[v] = Outdate(t, Nil)[v] /\ v # Nil
    BY <2>1, PlansAssumption
  <2> QED
    BY <1>1, <2>2, LandsFresh, ZenonT(40) DEF Kept
<1> QED
  BY <1>3, <1>4 DEF Kept

LEMMA ReadsKept ==
    ASSUME PlansTyped, Kept, NEW w \in Worker, NEW t \in Task,
           UpdateReads(w, t) \/ EditReads(w, t) \/ ProceedReads(w, t)
    PROVE  Kept'
<1>1. UNCHANGED <<file, ideal, overlapped, misread>>
  BY DEF UpdateReads, EditReads, ProceedReads, historyVars
<1>2. /\ \A v \in Worker \ {w} : work'[v] = work[v]
      /\ work'[w].kind = "update" => work'[w].task = t /\ work'[w].plan = ParsePlan(file[t])
  BY DEF UpdateReads, EditReads, ProceedReads, PlansTyped
<1> QED
  BY <1>1, <1>2 DEF Kept, FileIsThePlan, FreshUpdates

LEMMA ProceedKept ==
    ASSUME PlansTyped, Kept, NEW w \in Worker,
           WriteFails(w) \/ Resumes(w) \/ ProceedFails(w) \/ Proceeds(w)
    PROVE  Kept'
<1>1. UNCHANGED <<file, ideal, overlapped, misread>>
  BY DEF WriteFails, Resumes, ProceedFails, Proceeds, historyVars
<1>2. \A v \in Worker \ {w} : work'[v] = work[v]
  BY DEF WriteFails, Resumes, ProceedFails, Proceeds, PlansTyped
<1>3. work'[w].kind # "update"
  <2>1. CASE Resumes(w)
    <3>1. work[w] \in [kind : {"resume", "mark"}, task : Task, stale : BOOLEAN]
      BY <2>1 DEF Resumes, PlansTyped, Job, Idle
    <3> QED
      BY <2>1, <3>1 DEF Resumes, PlansTyped
  <2>2. CASE WriteFails(w) \/ ProceedFails(w) \/ Proceeds(w)
    BY <2>2, IdleJob DEF WriteFails, ProceedFails, Proceeds, PlansTyped
  <2> QED
    BY <2>1, <2>2
<1> QED
  BY <1>1, <1>2, <1>3, NothingWritten

LEMMA KeptHolds == PlansSpec => []Kept
<1>1. PlansInit => Kept
  <2> SUFFICES ASSUME PlansInit PROVE Kept
    OBVIOUS
  <2>1. None \in Markdown
    BY EmptySeq DEF None, Markdown
  <2>2. ReadsAs(ParsePlan(None), ParsePlan(None))
    BY <2>1, Parsed, ReadIsPlan, ReadsItself
  <2> QED
    BY <2>2, IdleJob DEF PlansInit, Kept, FileIsThePlan, FreshUpdates
<1>2. PlansTyped /\ Kept /\ [PlansNext]_plansVars => Kept'
  <2> SUFFICES ASSUME PlansTyped, Kept, [PlansNext]_plansVars PROVE Kept'
    OBVIOUS
  <2>1. ASSUME NEW t \in Task,
               TaskCreate(t) \/ TaskUpdate(t) \/ PlannerStarts(t) \/ PlannerRests(t)
        PROVE  Kept'
    BY <2>1, NothingWritten
    DEF TaskCreate, TaskUpdate, PlannerStarts, PlannerRests, historyVars
  <2>2. CASE Reopen
    BY <2>2, NothingWritten, IdleJob DEF Reopen, historyVars
  <2>3. CASE UNCHANGED plansVars
    BY <2>3, NothingWritten DEF plansVars, historyVars
  <2> QED
    BY <2>1, <2>2, <2>3, ReadsKept, UpdateKept, EditKept, CreateKept, ProceedKept DEF PlansNext
<1> QED
  BY <1>1, <1>2, TypedHolds, PTL DEF PlansSpec

\* The file of a plan reads as its creation, edits and updates meant it.
THEOREM PlansKeepThePlan == PlansSpec => []FileIsThePlan
<1>1. Kept => FileIsThePlan
  BY DEF Kept
<1> QED
  BY <1>1, KeptHolds, PTL

----------------------------------------------------------------------------
(* What an update leaves alone.                                            *)

UpdateEnds(w) ==
    work[w].kind = "update" /\ ~work[w].stale /\ work'[w] = Idle /\ work[w].task \notin overlapped'
OthersLeft(w) ==
    LeavesOthers(ParsePlan(file[work[w].task]), ParsePlan(file'[work[w].task]), work[w].id)

\* Nothing is written.
LEMMA UnwrittenLeaves ==
    ASSUME PlansTyped, Kept, NEW w \in Worker, UpdateEnds(w), file'[work[w].task] = file[work[w].task]
    PROVE  OthersLeft(w)
<1> DEFINE plan == ParsePlan(file[work[w].task])
           id == work[w].id
<1>1. plan = work[w].plan /\ work[w].kind = "update" /\ work[w] \in Job
  BY DEF Kept, FreshUpdates, UpdateEnds, PlansTyped
<1>2. plan \in Plan /\ Named(plan, id) # 0
  BY <1>1, JobShape
<1> HIDE DEF plan, id
<1>3. plan.steps[Named(plan, id)].id = id /\ Len(plan.steps) \in Nat
  BY <1>2, NamedFirst
<1>4. LeavesOthers(plan, plan, id)
  BY <1>3 DEF LeavesOthers
<1> QED
  BY <1>4 DEF OthersLeft, plan, id

LEMMA UpdateLeaves ==
    ASSUME PlansTyped, Kept, NEW w \in Worker, UpdateWrites(w), UpdateEnds(w)
    PROVE  OthersLeft(w)
<1> DEFINE t == work[w].task
           job == work[w]
           plan == ParsePlan(file[t])
           k == Named(plan, job.id)
           new == Wanted(job)
<1>1. /\ job.kind = "update" /\ job \in Job /\ Writes(w) /\ ~job.stale /\ t \notin overlapped'
      /\ job.plan = plan
  BY DEF UpdateWrites, UpdateEnds, PlansTyped, Kept, FreshUpdates
<1>2. t \in Task /\ plan \in ReadPlan /\ k # 0 /\ job.plan \in Plan /\ job.status \in Status /\ job.note \in Passage
  BY <1>1, JobShape
<1>3. PICK x \in Markdown :
        /\ file' = [file EXCEPT ![t] = x]
        /\ overlapped' = Overlapped(work[w], x)
  BY <1>1, WriteLands
<1>4. /\ NewText(job) = RenderPlan(Changed(plan, k, new))
      /\ k \in 1 .. Len(plan.steps) /\ new \in Step /\ plan.steps[k].id = job.id
  BY <1>1, NewTexts
<1>5. file'[t] = RenderPlan(Changed(plan, k, new))
  <2>1. x = NewText(job) /\ file'[t] = x
    BY <1>1, <1>2, <1>3 DEF PlansTyped, Overlapped
  <2> QED
    BY <1>4, <2>1
<1>6. new.id = job.id
  BY <1>1, <1>4 DEF Wanted, Told
<1> DEFINE read == ParsePlan(file'[t])
<1> HIDE DEF plan, k, new
<1>7. /\ Len(new.note.sections) \in Nat
      /\ read.goal = plan.goal
      /\ Len(read.steps) = Len(plan.steps) + Len(new.note.sections)
      /\ \A i \in 1 .. k - 1 : read.steps[i] = plan.steps[i]
      /\ read.steps[k] = ParseStep(RenderStep(new)[1], k)
      /\ \A i \in k + 1 .. Len(plan.steps) : read.steps[i + Len(new.note.sections)] = plan.steps[i]
  <2>1. read = ParsePlan(RenderPlan(Changed(plan, k, new)))
    BY <1>5
  <2> HIDE DEF read
  <2> QED
    BY <1>2, <1>4, <2>1, ChangedRead
<1> HIDE DEF read
<1>8. read.steps[k].id = job.id
  <2>1. RenderStep(new)[1].head = job.id
    BY <1>4, <1>6, StepRendered
  <2>2. job.id # 0
    <3>1. plan.steps[k] \in ReadStep
      BY <1>2, <1>4, ReadShape
    <3> QED
      BY <1>4, <3>1 DEF ReadStep
  <2> QED
    BY <1>7, <2>1, <2>2 DEF ParseStep
<1>9. Len(read.steps) - Len(plan.steps) = Len(new.note.sections)
  <2>1. Len(plan.steps) \in Nat
    BY <1>2, ReadShape
  <2> QED
    BY <1>7, <2>1
<1>10. LeavesOthers(plan, read, job.id)
  BY <1>7, <1>8, <1>9 DEF LeavesOthers, k
<1> QED
  BY <1>10 DEF OthersLeft, plan, read

\* Another writer's step does not end the update.
LEMMA UpdateStays ==
    ASSUME PlansTyped, NEW w \in Worker, work[w].kind = "update", NEW t \in Task, NEW v, v # w,
           work' = Outdate(t, v) \/ work' = [Outdate(t, v) EXCEPT ![v] = Idle]
    PROVE  work'[w] # Idle
<1>1. work'[w] = Outdate(t, v)[w]
  BY Outdated
<1>2. Outdate(t, v)[w].kind = "update"
  BY Outdated
<1> QED
  BY <1>1, <1>2, IdleJob

LEMMA StepLeaves ==
    ASSUME PlansTyped, Kept, NEW w \in Worker, UpdateEnds(w), [PlansNext]_plansVars
    PROVE  OthersLeft(w)
<1>1. work[w].kind = "update"
  BY DEF UpdateEnds
<1>2. ASSUME NEW t \in Task, PlanCreate(t) PROVE FALSE
  <2>1. work' = Outdate(t, Nil) /\ Nil # w
    BY <1>2, PlansAssumption DEF PlanCreate
  <2> QED
    BY <1>1, <2>1, UpdateStays DEF UpdateEnds
<1>3. ASSUME NEW v \in Worker, v # w, UpdateWrites(v) \/ EditWrites(v) PROVE FALSE
  <2>1. work[v].task \in Task /\ work' = [Outdate(work[v].task, v) EXCEPT ![v] = Idle]
    BY <1>3, WriteLands, JobShape DEF UpdateWrites, EditWrites, PlansTyped
  <2> QED
    BY <1>1, <1>3, <2>1, UpdateStays DEF UpdateEnds
<1>4. ASSUME EditWrites(w) PROVE FALSE
  BY <1>1, <1>4 DEF EditWrites
<1>5. CASE UpdateWrites(w)
  BY <1>5, UpdateLeaves
<1>6. CASE file' = file
  BY <1>6, UnwrittenLeaves
<1>7. ASSUME NEW t \in Task, NEW v \in Worker, UpdateReads(v, t) \/ EditReads(v, t) \/ ProceedReads(v, t)
      PROVE  file' = file
  BY <1>7 DEF UpdateReads, EditReads, ProceedReads
<1>8. ASSUME NEW t \in Task, TaskCreate(t) \/ TaskUpdate(t) \/ PlannerStarts(t) \/ PlannerRests(t)
      PROVE  file' = file
  BY <1>8 DEF TaskCreate, TaskUpdate, PlannerStarts, PlannerRests
<1>9. ASSUME NEW v \in Worker, WriteFails(v) \/ Resumes(v) \/ ProceedFails(v) \/ Proceeds(v)
      PROVE  file' = file
  BY <1>9 DEF WriteFails, Resumes, ProceedFails, Proceeds
<1>10. Reopen \/ UNCHANGED plansVars => file' = file
  BY DEF Reopen, plansVars
<1> QED
  BY <1>2, <1>3, <1>4, <1>5, <1>6, <1>7, <1>8, <1>9, <1>10 DEF PlansNext

\* An update changes one step and no other, whatever its note looks like.
THEOREM UpdatesKeepOthers == PlansSpec => UpdateKeepsOthers
<1>1. PlansTyped /\ Kept /\ [PlansNext]_plansVars =>
        \A w \in Worker : UpdateEnds(w) => OthersLeft(w)
  BY StepLeaves
<1>2. (\A w \in Worker : UpdateEnds(w) => OthersLeft(w)) =>
        \A w \in Worker :
            LET job == work[w] IN
            (job.kind = "update" /\ ~job.stale /\ work'[w] = Idle /\ job.task \notin overlapped') =>
                LeavesOthers(ParsePlan(file[job.task]), ParsePlan(file'[job.task]), job.id)
  BY DEF UpdateEnds, OthersLeft
<1> QED
  BY <1>1, <1>2, TypedHolds, KeptHolds, PTL DEF PlansSpec, UpdateKeepsOthers
----------------------------------------------------------------------------
USE OutputAssumption

----------------------------------------------------------------------------
(* Output: what is kept of a stream, and where a text is cut.              *)

Bads(text) == {i \in DOMAIN text : text[i] \in bad}

LEMMA SizeTyped ==
    ASSUME NEW text \in Seq(Nat)
    PROVE  /\ IsFiniteSet(Bads(text)) /\ Cardinality(Bads(text)) \in Nat
           /\ Cardinality(Bads(text)) <= Len(text)
           /\ Size(text) = Len(text) + 2 * Cardinality(Bads(text))
           /\ Size(text) \in Nat /\ Len(text) \in Nat
           /\ Len(text) <= Size(text) /\ Size(text) <= 3 * Len(text)
<1>1. DOMAIN text = 1 .. Len(text) /\ Len(text) \in Nat
  OBVIOUS
<1>2. IsFiniteSet(1 .. Len(text)) /\ Cardinality(1 .. Len(text)) = Len(text)
  BY <1>1, FS_Interval, SMTT(30)
<1>3. Bads(text) \in SUBSET (1 .. Len(text))
  BY <1>1 DEF Bads
<1>4. IsFiniteSet(Bads(text)) /\ Cardinality(Bads(text)) <= Len(text)
  BY <1>2, <1>3, FS_Subset
<1>5. Cardinality(Bads(text)) \in Nat
  BY <1>4, FS_CardinalityType
<1>6. Size(text) = Len(text) + 2 * Cardinality(Bads(text))
  BY DEF Size, Bads
<1> QED
  BY <1>1, <1>4, <1>5, <1>6

LEMMA SizeOfText ==
    ASSUME NEW text \in Seq(Nat), \A i \in 1 .. Len(text) : text[i] \notin bad
    PROVE  Size(text) = Len(text)
<1>1. Bads(text) = {}
  BY DEF Bads
<1> QED
  BY <1>1, SizeTyped, FS_EmptySet

LEMMA SizeConcat ==
    ASSUME NEW s \in Seq(Nat), NEW t \in Seq(Nat)
    PROVE  s \o t \in Seq(Nat) /\ Size(s \o t) = Size(s) + Size(t)
<1> DEFINE Moved == {Len(s) + i : i \in Bads(t)}
           move == [i \in Bads(t) |-> Len(s) + i]
<1>1. /\ s \o t \in Seq(Nat) /\ Len(s) \in Nat /\ Len(t) \in Nat
      /\ Len(s \o t) = Len(s) + Len(t)
      /\ \A i \in 1 .. Len(s) : (s \o t)[i] = s[i]
      /\ \A i \in 1 .. Len(t) : (s \o t)[Len(s) + i] = t[i]
  OBVIOUS
<1>2. DOMAIN s = 1 .. Len(s) /\ DOMAIN t = 1 .. Len(t) /\ DOMAIN (s \o t) = 1 .. Len(s) + Len(t)
  BY <1>1
<1>3. Bads(s) \subseteq 1 .. Len(s) /\ Bads(t) \subseteq 1 .. Len(t)
  BY <1>2 DEF Bads
<1>4. Bads(s \o t) = Bads(s) \cup Moved
  <2>1. ASSUME NEW i \in Bads(s \o t) PROVE i \in Bads(s) \cup Moved
    <3>1. i \in 1 .. Len(s) + Len(t) /\ (s \o t)[i] \in bad
      BY <1>2 DEF Bads
    <3>2. CASE i <= Len(s)
      BY <1>1, <1>2, <3>1, <3>2 DEF Bads
    <3>3. CASE ~ (i <= Len(s))
      <4>1. i - Len(s) \in 1 .. Len(t) /\ i = Len(s) + (i - Len(s))
        BY <1>1, <3>1, <3>3
      <4>2. i - Len(s) \in Bads(t)
        BY <1>1, <1>2, <3>1, <4>1 DEF Bads
      <4> QED
        BY <4>1, <4>2
    <3> QED
      BY <3>2, <3>3
  <2>2. Bads(s) \subseteq Bads(s \o t)
    BY <1>1, <1>2 DEF Bads
  <2>3. Moved \subseteq Bads(s \o t)
    BY <1>1, <1>2 DEF Bads
  <2> QED
    BY <2>1, <2>2, <2>3
<1>5. Bads(s) \cap Moved = {}
  BY <1>1, <1>3
<1>6. IsFiniteSet(Moved) /\ Cardinality(Moved) = Cardinality(Bads(t))
  <2>1. move \in Bijection(Bads(t), Moved)
    <3>1. move \in [Bads(t) -> Moved] /\ \A i, j \in Bads(t) : move[i] = move[j] => i = j
      BY <1>1, <1>3
    <3>2. \A k \in Moved : \E i \in Bads(t) : move[i] = k
      OBVIOUS
    <3> QED
      BY <3>1, <3>2 DEF Bijection, Injection, Surjection, IsInjective
  <2>2. ExistsBijection(Bads(t), Moved)
    BY <2>1 DEF ExistsBijection
  <2> QED
    BY <2>2, SizeTyped, FS_Bijection
<1>7. Cardinality(Bads(s \o t)) = Cardinality(Bads(s)) + Cardinality(Bads(t))
  <2>1. IsFiniteSet(Bads(s)) /\ Cardinality(Bads(s)) \in Nat /\ Cardinality(Bads(t)) \in Nat
    BY SizeTyped
  <2>2. Cardinality(Bads(s) \cup Moved) = Cardinality(Bads(s)) + Cardinality(Moved) - Cardinality({})
    BY <1>5, <1>6, <2>1, FS_Union
  <2> QED
    BY <1>4, <1>6, <2>1, <2>2, FS_EmptySet
<1>8. /\ Size(s) = Len(s) + 2 * Cardinality(Bads(s)) /\ Cardinality(Bads(s)) \in Nat
      /\ Size(t) = Len(t) + 2 * Cardinality(Bads(t)) /\ Cardinality(Bads(t)) \in Nat
  BY SizeTyped
<1>9. Size(s \o t) = Len(s \o t) + 2 * Cardinality(Bads(s \o t))
  BY <1>1, SizeTyped
<1> QED
  BY <1>1, <1>7, <1>8, <1>9

----------------------------------------------------------------------------
\* The pieces of a text.
LEMMA SubSeqIs ==
    ASSUME NEW text \in Seq(Nat), NEW i \in Nat \ {0}, NEW j \in 0 .. Len(text), i <= j + 1
    PROVE  /\ SubSeq(text, i, j) \in Seq(Nat)
           /\ Len(SubSeq(text, i, j)) = j - i + 1
           /\ \A k \in 1 .. j - i + 1 : SubSeq(text, i, j)[k] = text[i + k - 1]
<1>1. \A k \in i .. j : text[k] \in Nat
  OBVIOUS
<1>2. i \in Int /\ j \in Int
  OBVIOUS
<1>3. /\ SubSeq(text, i, j) \in Seq(Nat)
      /\ Len(SubSeq(text, i, j)) = IF i <= j THEN j - i + 1 ELSE 0
      /\ \A k \in 1 .. j - i + 1 : SubSeq(text, i, j)[k] = text[i + k - 1]
  BY <1>1, <1>2, SubSeqProperties
<1> QED
  BY <1>2, <1>3

LEMMA SizeSplits ==
    ASSUME NEW text \in Seq(Nat), NEW j \in 0 .. Len(text)
    PROVE  Size(text) = Size(SubSeq(text, 1, j)) + Size(SubSeq(text, j + 1, Len(text)))
<1>1. SubSeq(text, 1, j) \o SubSeq(text, j + 1, Len(text)) = SubSeq(text, 1, Len(text))
  <2>1. 1 \in 1 .. Len(text) + 1 /\ j \in 1 - 1 .. Len(text) /\ Len(text) \in j .. Len(text)
    OBVIOUS
  <2> QED
    BY <2>1, ConcatAdjacentSubSeq
<1>2. SubSeq(text, 1, Len(text)) = text
  BY SubSeqFull
<1>3. SubSeq(text, 1, j) \in Seq(Nat) /\ SubSeq(text, j + 1, Len(text)) \in Seq(Nat)
  <2>1. j \in Nat /\ 1 <= j + 1 /\ j + 1 \in Nat \ {0} /\ Len(text) \in 0 .. Len(text) /\ j + 1 <= Len(text) + 1
    OBVIOUS
  <2> QED
    BY <2>1, SubSeqIs
<1>4. Size(SubSeq(text, 1, j) \o SubSeq(text, j + 1, Len(text)))
        = Size(SubSeq(text, 1, j)) + Size(SubSeq(text, j + 1, Len(text)))
  BY <1>3, SizeConcat
<1> QED
  BY <1>1, <1>2, <1>4

\* One more character takes at most three bytes.
LEMMA SizeGrows ==
    ASSUME NEW text \in Seq(Nat), NEW j \in 0 .. Len(text) - 1
    PROVE  Size(SubSeq(text, 1, j + 1)) <= Size(SubSeq(text, 1, j)) + 3
<1>1. j \in Nat /\ Len(text) \in Nat /\ j + 1 \in 0 .. Len(text)
  OBVIOUS
<1>2. SubSeq(text, 1, j) \o SubSeq(text, j + 1, j + 1) = SubSeq(text, 1, j + 1)
  <2>1. 1 \in 1 .. Len(text) + 1 /\ j \in 1 - 1 .. Len(text) /\ j + 1 \in j .. Len(text)
    BY <1>1
  <2> QED
    BY <2>1, ConcatAdjacentSubSeq
<1>3. SubSeq(text, 1, j) \in Seq(Nat)
  BY <1>1, SubSeqIs
<1>4. SubSeq(text, j + 1, j + 1) \in Seq(Nat) /\ Len(SubSeq(text, j + 1, j + 1)) = 1
  <2>1. j + 1 \in Nat \ {0} /\ j + 1 <= j + 1 + 1 /\ j + 1 - (j + 1) + 1 = 1
    BY <1>1
  <2> QED
    BY <1>1, <2>1, SubSeqIs
<1>5. Size(SubSeq(text, j + 1, j + 1)) \in Nat /\ Size(SubSeq(text, j + 1, j + 1)) <= 3 * 1
  BY <1>4, SizeTyped
<1>6. Size(SubSeq(text, 1, j + 1)) = Size(SubSeq(text, 1, j)) + Size(SubSeq(text, j + 1, j + 1))
  BY <1>2, <1>3, <1>4, SizeConcat
<1>7. Size(SubSeq(text, 1, j)) \in Nat
  BY <1>3, SizeTyped
<1> QED
  BY <1>5, <1>6, <1>7

LEMMA SizeOfNothing == Size(<<>>) = 0
<1>1. <<>> \in Seq(Nat) /\ Len(<<>>) = 0
  OBVIOUS
<1>2. \A i \in 1 .. Len(<<>>) : <<>>[i] \notin bad
  BY <1>1
<1> QED
  BY <1>1, <1>2, SizeOfText

LEMMA UptoFits ==
    ASSUME NEW text \in Seq(Nat), NEW n \in Nat
    PROVE  /\ Upto(text, n) \in 0 .. Len(text)
           /\ Size(SubSeq(text, 1, Upto(text, n))) <= n
           /\ Upto(text, n) < Len(text) => Size(SubSeq(text, 1, Upto(text, n) + 1)) > n
<1> DEFINE S == {i \in 0 .. Len(text) : Size(SubSeq(text, 1, i)) <= n}
<1>1. Len(text) \in Nat
  OBVIOUS
<1>2. SubSeq(text, 1, 0) = <<>>
  BY SubSeqEmpty
<1>3. 0 \in S
  <2>1. Size(SubSeq(text, 1, 0)) = 0
    BY <1>2, SizeOfNothing, Zenon
  <2> QED
    BY <1>1, <2>1
<1>4. S \in SUBSET (0 .. Len(text)) /\ S # {}
  BY <1>3
<1>5. Upto(text, n) = Max(S)
  BY DEF Upto
<1>6. \A i \in S : i \in 0 .. Len(text) /\ Size(SubSeq(text, 1, i)) <= n
  OBVIOUS
<1>7. \A i \in 0 .. Len(text) : Size(SubSeq(text, 1, i)) <= n => i \in S
  OBVIOUS
<1> HIDE DEF S
<1>8. \E m \in S : \A k \in S : k <= m
  BY <1>1, <1>4, HasGreatest
<1>9. \E m \in S : \A k \in S : m >= k
  BY <1>1, <1>6, <1>8
<1>10. Max(S) \in S /\ \A k \in S : Max(S) >= k
  BY <1>9 DEF Max
<1>11. ASSUME Max(S) < Len(text) PROVE Size(SubSeq(text, 1, Max(S) + 1)) > n
  <2>1. Max(S) + 1 \in 0 .. Len(text) /\ Max(S) + 1 \notin S
    BY <1>1, <1>6, <1>10, <1>11
  <2>2. SubSeq(text, 1, Max(S) + 1) \in Seq(Nat)
    BY <2>1, SubSeqIs
  <2>3. Size(SubSeq(text, 1, Max(S) + 1)) \in Nat
    BY <2>2, SizeTyped
  <2> QED
    BY <1>7, <2>1, <2>3
<1> QED
  BY <1>5, <1>6, <1>10, <1>11

LEMMA FromFits ==
    ASSUME NEW text \in Seq(Nat), NEW n \in Nat
    PROVE  /\ From(text, n) \in 1 .. Len(text) + 1
           /\ Size(SubSeq(text, From(text, n), Len(text))) <= n
<1> DEFINE S == {i \in 1 .. Len(text) + 1 : Size(SubSeq(text, i, Len(text))) <= n}
<1>1. Len(text) \in Nat /\ Len(text) + 1 \in Nat
  OBVIOUS
<1>2. SubSeq(text, Len(text) + 1, Len(text)) = <<>>
  BY <1>1, SubSeqEmpty
<1>3. Len(text) + 1 \in S
  <2>1. Size(SubSeq(text, Len(text) + 1, Len(text))) = 0
    BY <1>2, SizeOfNothing, Zenon
  <2> QED
    BY <1>1, <2>1
<1>4. S \in SUBSET (0 .. Len(text) + 1) /\ S # {}
  BY <1>1, <1>3
<1>5. From(text, n) = Min(S)
  BY DEF From
<1>6. \A i \in S : i \in 1 .. Len(text) + 1 /\ Size(SubSeq(text, i, Len(text))) <= n
  OBVIOUS
<1> HIDE DEF S
<1>7. \E m \in S : \A k \in S : m <= k
  BY <1>1, <1>4, HasLeast
<1>8. Min(S) \in S
  BY <1>7 DEF Min
<1> QED
  BY <1>5, <1>6, <1>8

LEMMA StretchIs ==
    ASSUME NEW m \in Nat, NEW n \in Nat
    PROVE  /\ Stretch(m, n) \in Seq(Nat) /\ Len(Stretch(m, n)) = n
           /\ \A i \in 1 .. n : Stretch(m, n)[i] = m + i
BY DEF Stretch

LEMMA ElidedIs ==
    ASSUME NEW n \in Nat
    PROVE  /\ Elided(n) \in Seq(Nat) /\ Len(Elided(n)) = n
           /\ \A i \in 1 .. n : Elided(n)[i] = 0
BY DEF Elided

LEMMA StretchJoins ==
    ASSUME NEW m \in Nat, NEW n \in Nat, NEW k \in Nat
    PROVE  Stretch(m, n) \o Stretch(m + n, k) = Stretch(m, n + k)
<1> DEFINE s == Stretch(m, n) \o Stretch(m + n, k)
           t == Stretch(m, n + k)
<1>0. m + n \in Nat /\ n + k \in Nat
  OBVIOUS
<1>1. /\ Stretch(m, n) \in Seq(Nat) /\ Len(Stretch(m, n)) = n
      /\ \A i \in 1 .. n : Stretch(m, n)[i] = m + i
  BY StretchIs
<1>2. /\ Stretch(m + n, k) \in Seq(Nat) /\ Len(Stretch(m + n, k)) = k
      /\ \A i \in 1 .. k : Stretch(m + n, k)[i] = m + n + i
  BY <1>0, StretchIs
<1>3. /\ t \in Seq(Nat) /\ Len(t) = n + k
      /\ \A i \in 1 .. n + k : t[i] = m + i
  BY <1>0, StretchIs
<1>4. /\ s \in Seq(Nat) /\ Len(s) = n + k
      /\ \A i \in 1 .. n + k : s[i] = IF i <= n THEN Stretch(m, n)[i] ELSE Stretch(m + n, k)[i - n]
  <2>1. /\ s \in Seq(Nat)
        /\ Len(s) = Len(Stretch(m, n)) + Len(Stretch(m + n, k))
        /\ \A i \in 1 .. Len(Stretch(m, n)) + Len(Stretch(m + n, k)) :
              s[i] = IF i <= Len(Stretch(m, n)) THEN Stretch(m, n)[i]
                     ELSE Stretch(m + n, k)[i - Len(Stretch(m, n))]
    BY <1>1, <1>2, ConcatProperties
  <2> QED
    BY <1>1, <1>2, <2>1
<1>5. \A i \in 1 .. n + k : s[i] = m + i
  <2> SUFFICES ASSUME NEW i \in 1 .. n + k PROVE s[i] = m + i
    OBVIOUS
  <2>1. CASE i <= n
    BY <1>1, <1>4, <2>1
  <2>2. CASE ~ (i <= n)
    <3>1. i - n \in 1 .. k /\ m + n + (i - n) = m + i
      BY <2>2
    <3> QED
      BY <1>2, <1>4, <2>2, <3>1
  <2> QED
    BY <2>1, <2>2
<1> HIDE DEF s, t
<1>6. s = t
  BY <1>3, <1>4, <1>5, SeqEqual
<1> QED
  BY <1>6 DEF s, t

CutAs(m, n, i, j) == SubSeq(Stretch(m, n), i, j) = Stretch(m + i - 1, j - i + 1)

LEMMA StretchCut ==
    ASSUME NEW m \in Nat, NEW n \in Nat, NEW i \in Nat \ {0}, NEW j \in 0 .. n, i <= j + 1
    PROVE  CutAs(m, n, i, j)
<1> DEFINE s == SubSeq(Stretch(m, n), i, j)
           t == Stretch(m + i - 1, j - i + 1)
<1>1. m + i - 1 \in Nat /\ j - i + 1 \in Nat
  OBVIOUS
<1>2. /\ t \in Seq(Nat) /\ Len(t) = j - i + 1
      /\ \A k \in 1 .. j - i + 1 : t[k] = m + i - 1 + k
  BY <1>1, StretchIs
<1>3. /\ Stretch(m, n) \in Seq(Nat) /\ Len(Stretch(m, n)) = n
      /\ \A k \in 1 .. n : Stretch(m, n)[k] = m + k
  BY StretchIs
<1>4. /\ s \in Seq(Nat) /\ Len(s) = j - i + 1
      /\ \A k \in 1 .. j - i + 1 : s[k] = Stretch(m, n)[i + k - 1]
  BY <1>3, SubSeqIs
<1>5. \A k \in 1 .. j - i + 1 : s[k] = t[k]
  <2> SUFFICES ASSUME NEW k \in 1 .. j - i + 1 PROVE s[k] = t[k]
    OBVIOUS
  <2>1. i + k - 1 \in 1 .. n /\ m + (i + k - 1) = m + i - 1 + k
    OBVIOUS
  <2> QED
    BY <1>2, <1>3, <1>4, <2>1
<1> HIDE DEF s, t
<1>6. s = t
  BY <1>2, <1>4, <1>5, SeqEqual
<1> QED
  BY <1>6 DEF s, t, CutAs

Shape(a, k, m, b) == Stretch(0, a) \o Elided(k) \o Stretch(m, b)

IsShape(text, a, k, m, b) ==
    /\ text \in Seq(Nat)
    /\ Len(text) = a + k + b
    /\ \A i \in 1 .. a : text[i] = i
    /\ \A i \in 1 .. k : text[a + i] = 0
    /\ \A i \in 1 .. b : text[a + k + i] = m + i

LEMMA ShapeIs ==
    ASSUME NEW a \in Nat, NEW k \in Nat, NEW m \in Nat, NEW b \in Nat
    PROVE  IsShape(Shape(a, k, m, b), a, k, m, b)
<1> DEFINE s == Stretch(0, a)
           e == Elided(k)
           t == Stretch(m, b)
<1>1. s \in Seq(Nat) /\ Len(s) = a /\ \A i \in 1 .. a : s[i] = 0 + i
  BY StretchIs
<1>2. e \in Seq(Nat) /\ Len(e) = k /\ \A i \in 1 .. k : e[i] = 0
  BY ElidedIs
<1>3. t \in Seq(Nat) /\ Len(t) = b /\ \A i \in 1 .. b : t[i] = m + i
  BY StretchIs
<1>4. Shape(a, k, m, b) = (s \o e) \o t
  BY DEF Shape
<1> HIDE DEF s, e, t
<1>5. /\ s \o e \in Seq(Nat) /\ Len(s \o e) = Len(s) + Len(e)
      /\ \A i \in 1 .. Len(s) + Len(e) : (s \o e)[i] = IF i <= Len(s) THEN s[i] ELSE e[i - Len(s)]
  BY <1>1, <1>2, ConcatProperties, ZenonT(30)
<1>6. /\ (s \o e) \o t \in Seq(Nat) /\ Len((s \o e) \o t) = Len(s \o e) + Len(t)
      /\ \A i \in 1 .. Len(s \o e) + Len(t) :
            ((s \o e) \o t)[i] = IF i <= Len(s \o e) THEN (s \o e)[i] ELSE t[i - Len(s \o e)]
  BY <1>3, <1>5, ConcatProperties, ZenonT(30)
<1>7. Len(s \o e) = a + k /\ Len((s \o e) \o t) = a + k + b
  BY <1>1, <1>2, <1>3, <1>5, <1>6
<1>8. \A i \in 1 .. a : ((s \o e) \o t)[i] = i
  BY <1>1, <1>2, <1>3, <1>5, <1>6, <1>7
<1>9. \A i \in 1 .. k : ((s \o e) \o t)[a + i] = 0
  <2> SUFFICES ASSUME NEW i \in 1 .. k PROVE ((s \o e) \o t)[a + i] = 0
    OBVIOUS
  <2>1. a + i \in 1 .. a + k /\ ~ (a + i <= a) /\ a + i - a = i
    OBVIOUS
  <2>2. (s \o e)[a + i] = e[i]
    BY <1>1, <1>2, <1>5, <2>1
  <2>3. ((s \o e) \o t)[a + i] = (s \o e)[a + i]
    <3>1. a + i \in 1 .. Len(s \o e) + Len(t) /\ a + i <= Len(s \o e)
      BY <1>3, <1>7, <2>1
    <3> QED
      BY <1>6, <3>1
  <2> QED
    BY <1>2, <2>2, <2>3
<1>10. \A i \in 1 .. b : ((s \o e) \o t)[a + k + i] = m + i
  <2> SUFFICES ASSUME NEW i \in 1 .. b PROVE ((s \o e) \o t)[a + k + i] = m + i
    OBVIOUS
  <2>1. a + k + i \in 1 .. a + k + b /\ ~ (a + k + i <= a + k) /\ a + k + i - (a + k) = i
    OBVIOUS
  <2> QED
    BY <1>3, <1>6, <1>7, <2>1
<1> QED
  BY <1>4, <1>6, <1>7, <1>8, <1>9, <1>10 DEF IsShape

BeginsWith(a, k, m, b, u) == SubSeq(Shape(a, k, m, b), 1, u) = Stretch(0, u)

LEMMA ShapeBegins ==
    ASSUME NEW a \in Nat, NEW k \in Nat, NEW m \in Nat, NEW b \in Nat, NEW u \in 0 .. a
    PROVE  BeginsWith(a, k, m, b, u)
<1> DEFINE x == Shape(a, k, m, b)
           s == SubSeq(x, 1, u)
           t == Stretch(0, u)
<1>1. x \in Seq(Nat) /\ Len(x) = a + k + b /\ \A i \in 1 .. a : x[i] = i
  <2>1. IsShape(Shape(a, k, m, b), a, k, m, b)
    BY ShapeIs
  <2> QED
    BY <2>1 DEF IsShape
<1>2. u \in Nat
  OBVIOUS
<1>3. t \in Seq(Nat) /\ Len(t) = u /\ \A i \in 1 .. u : t[i] = 0 + i
  BY <1>2, StretchIs
<1> HIDE DEF x, t
<1>4. /\ s \in Seq(Nat) /\ Len(s) = u - 1 + 1
      /\ \A i \in 1 .. u - 1 + 1 : s[i] = x[1 + i - 1]
  <2>1. u \in 0 .. Len(x) /\ 1 \in Nat \ {0} /\ 1 <= u + 1
    BY <1>1
  <2> QED
    BY <1>1, <2>1, SubSeqIs
<1>5. \A i \in 1 .. u : s[i] = t[i]
  BY <1>1, <1>3, <1>4
<1> HIDE DEF s
<1>6. Len(s) = Len(t) /\ \A i \in 1 .. Len(s) : s[i] = t[i]
  BY <1>2, <1>3, <1>4, <1>5
<1>7. s = t
  BY <1>3, <1>4, <1>6, SeqEqual
<1> QED
  BY <1>7 DEF x, s, t, BeginsWith

EndsWith(a, k, m, b, r) ==
    SubSeq(Shape(a, k, m, b), a + k + b - r + 1, a + k + b) = Stretch(m + b - r, r)

LEMMA ShapeEnds ==
    ASSUME NEW a \in Nat, NEW k \in Nat, NEW m \in Nat, NEW b \in Nat, NEW r \in 0 .. b
    PROVE  EndsWith(a, k, m, b, r)
<1> DEFINE x == Shape(a, k, m, b)
           s == SubSeq(x, a + k + b - r + 1, a + k + b)
           t == Stretch(m + b - r, r)
<1>1. x \in Seq(Nat) /\ Len(x) = a + k + b /\ \A i \in 1 .. b : x[a + k + i] = m + i
  <2>1. IsShape(Shape(a, k, m, b), a, k, m, b)
    BY ShapeIs
  <2> QED
    BY <2>1 DEF IsShape
<1>2. r \in Nat /\ m + b - r \in Nat
  OBVIOUS
<1>3. t \in Seq(Nat) /\ Len(t) = r /\ \A i \in 1 .. r : t[i] = m + b - r + i
  BY <1>2, StretchIs
<1> HIDE DEF x, t
<1>4. s \in Seq(Nat) /\ Len(s) = r /\ \A i \in 1 .. r : s[i] = x[a + k + b - r + i]
  <2>1. /\ a + k + b - r + 1 \in Nat \ {0} /\ a + k + b \in 0 .. Len(x)
        /\ a + k + b - r + 1 <= a + k + b + 1
    BY <1>1
  <2>2. /\ s \in Seq(Nat) /\ Len(s) = a + k + b - (a + k + b - r + 1) + 1
        /\ \A i \in 1 .. a + k + b - (a + k + b - r + 1) + 1 : s[i] = x[a + k + b - r + 1 + i - 1]
    BY <1>1, <2>1, SubSeqIs
  <2>3. /\ a + k + b - (a + k + b - r + 1) + 1 = r
        /\ \A i \in 1 .. r : a + k + b - r + 1 + i - 1 = a + k + b - r + i
    BY <1>2
  <2> QED
    BY <2>2, <2>3
<1> HIDE DEF s
<1>5. \A i \in 1 .. r : s[i] = t[i]
  <2> SUFFICES ASSUME NEW i \in 1 .. r PROVE s[i] = t[i]
    OBVIOUS
  <2>1. b - r + i \in 1 .. b /\ a + k + (b - r + i) = a + k + b - r + i /\ m + (b - r + i) = m + b - r + i
    BY <1>2
  <2> QED
    BY <1>1, <1>3, <1>4, <2>1
<1>6. s = t
  BY <1>3, <1>4, <1>5, SeqEqual
<1> QED
  BY <1>6 DEF x, s, t, EndsWith

\* A cut inside the elision.
EndsElided(a, k, m, b, j) ==
    SubSeq(Shape(a, k, m, b), a + k - j + 1, a + k + b) = Elided(j) \o Stretch(m, b)

LEMMA ShapeEndsElided ==
    ASSUME NEW a \in Nat, NEW k \in Nat, NEW m \in Nat, NEW b \in Nat, NEW j \in 0 .. k
    PROVE  EndsElided(a, k, m, b, j)
<1> DEFINE x == Shape(a, k, m, b)
           s == SubSeq(x, a + k - j + 1, a + k + b)
           t == Elided(j) \o Stretch(m, b)
<1>1. /\ x \in Seq(Nat) /\ Len(x) = a + k + b
      /\ \A i \in 1 .. k : x[a + i] = 0
      /\ \A i \in 1 .. b : x[a + k + i] = m + i
  <2>1. IsShape(Shape(a, k, m, b), a, k, m, b)
    BY ShapeIs
  <2> QED
    BY <2>1 DEF IsShape
<1>2. j \in Nat
  OBVIOUS
<1>3. Elided(j) \in Seq(Nat) /\ Len(Elided(j)) = j /\ \A i \in 1 .. j : Elided(j)[i] = 0
  BY <1>2, ElidedIs
<1>4. Stretch(m, b) \in Seq(Nat) /\ Len(Stretch(m, b)) = b /\ \A i \in 1 .. b : Stretch(m, b)[i] = m + i
  BY StretchIs
<1>5. /\ t \in Seq(Nat) /\ Len(t) = Len(Elided(j)) + Len(Stretch(m, b))
      /\ \A i \in 1 .. Len(Elided(j)) + Len(Stretch(m, b)) :
            t[i] = IF i <= Len(Elided(j)) THEN Elided(j)[i] ELSE Stretch(m, b)[i - Len(Elided(j))]
  BY <1>3, <1>4, ConcatProperties
<1> HIDE DEF x, t
<1>6. Len(t) = j + b /\ \A i \in 1 .. j + b : t[i] = IF i <= j THEN 0 ELSE m + (i - j)
  BY <1>2, <1>3, <1>4, <1>5
<1>7. s \in Seq(Nat) /\ Len(s) = j + b /\ \A i \in 1 .. j + b : s[i] = x[a + k - j + i]
  <2>1. /\ a + k - j + 1 \in Nat \ {0} /\ a + k + b \in 0 .. Len(x)
        /\ a + k - j + 1 <= a + k + b + 1
    BY <1>1
  <2>2. /\ s \in Seq(Nat) /\ Len(s) = a + k + b - (a + k - j + 1) + 1
        /\ \A i \in 1 .. a + k + b - (a + k - j + 1) + 1 : s[i] = x[a + k - j + 1 + i - 1]
    BY <1>1, <2>1, SubSeqIs
  <2>3. /\ a + k + b - (a + k - j + 1) + 1 = j + b
        /\ \A i \in 1 .. j + b : a + k - j + 1 + i - 1 = a + k - j + i
    BY <1>2
  <2> QED
    BY <2>2, <2>3
<1> HIDE DEF s
<1>8. \A i \in 1 .. j + b : s[i] = t[i]
  <2> SUFFICES ASSUME NEW i \in 1 .. j + b PROVE s[i] = t[i]
    OBVIOUS
  <2>1. CASE i <= j
    <3>1. k - j + i \in 1 .. k /\ a + (k - j + i) = a + k - j + i
      BY <1>2, <2>1
    <3> QED
      BY <1>1, <1>6, <1>7, <2>1, <3>1
  <2>2. CASE ~ (i <= j)
    <3>1. i - j \in 1 .. b /\ a + k + (i - j) = a + k - j + i
      BY <1>2, <2>2
    <3> QED
      BY <1>1, <1>6, <1>7, <2>2, <3>1
  <2> QED
    BY <2>1, <2>2
<1>9. s = t
  BY <1>5, <1>6, <1>7, <1>8, SeqEqual
<1> QED
  BY <1>9 DEF x, s, t, EndsElided

LEMMA ElidedJoins ==
    ASSUME NEW n \in Nat, NEW k \in Nat
    PROVE  Elided(n) \o Elided(k) = Elided(n + k)
<1> DEFINE s == Elided(n) \o Elided(k)
           t == Elided(n + k)
<1>1. n + k \in Nat
  OBVIOUS
<1>2. Elided(n) \in Seq(Nat) /\ Len(Elided(n)) = n /\ \A i \in 1 .. n : Elided(n)[i] = 0
  BY ElidedIs
<1>3. Elided(k) \in Seq(Nat) /\ Len(Elided(k)) = k /\ \A i \in 1 .. k : Elided(k)[i] = 0
  BY ElidedIs
<1>4. t \in Seq(Nat) /\ Len(t) = n + k /\ \A i \in 1 .. n + k : t[i] = 0
  BY <1>1, ElidedIs
<1>5. /\ s \in Seq(Nat) /\ Len(s) = Len(Elided(n)) + Len(Elided(k))
      /\ \A i \in 1 .. Len(Elided(n)) + Len(Elided(k)) :
            s[i] = IF i <= Len(Elided(n)) THEN Elided(n)[i] ELSE Elided(k)[i - Len(Elided(n))]
  BY <1>2, <1>3, ConcatProperties
<1> HIDE DEF s, t
<1>6. \A i \in 1 .. n + k : s[i] = 0
  <2> SUFFICES ASSUME NEW i \in 1 .. n + k PROVE s[i] = 0
    OBVIOUS
  <2>1. i <= n => i \in 1 .. n
    OBVIOUS
  <2>2. ~ (i <= n) => i - n \in 1 .. k
    OBVIOUS
  <2> QED
    BY <1>2, <1>3, <1>5, <2>1, <2>2
<1>7. s = t
  BY <1>2, <1>3, <1>4, <1>5, <1>6, SeqEqual
<1> QED
  BY <1>7 DEF s, t

LEMMA ShapeAbridges ==
    ASSUME NEW total \in Nat, NEW a \in Nat, NEW k \in Nat, NEW b \in Nat, a + b <= total
    PROVE  Abridged(Shape(a, k, total - b, b), total)
<1> DEFINE x == Shape(a, k, total - b, b)
<1>1. total - b \in Nat
  OBVIOUS
<1>2. Len(x) = a + k + b
  <2>1. IsShape(Shape(a, k, total - b, b), a, k, total - b, b)
    BY <1>1, ShapeIs
  <2> QED
    BY <2>1 DEF IsShape
<1>3. x = Stretch(0, a) \o Elided(k) \o Stretch(total - b, b)
  BY DEF Shape
<1> HIDE DEF x
<1>4. a \in 0 .. Len(x) /\ b \in 0 .. Len(x) /\ a + b <= AtMost(total, Len(x)) /\ Len(x) - a - b = k
  BY <1>2 DEF AtMost
<1>5. Abridged(x, total)
  BY <1>3, <1>4 DEF Abridged
<1> QED
  BY <1>5 DEF x

LEMMA NoneIs ==
    ASSUME NEW m \in Nat
    PROVE  Stretch(m, 0) = <<>> /\ Elided(0) = <<>>
<1>1. Stretch(m, 0) \in Seq(Nat) /\ Len(Stretch(m, 0)) = 0
  BY StretchIs
<1>2. Elided(0) \in Seq(Nat) /\ Len(Elided(0)) = 0
  BY ElidedIs
<1> QED
  BY <1>1, <1>2, EmptySeq

LEMMA BeginningShape ==
    ASSUME NEW u \in Nat, NEW m \in Nat
    PROVE  Stretch(0, u) = Shape(u, 0, m, 0)
<1>1. Stretch(0, u) \in Seq(Nat) /\ <<>> \in Seq(Nat)
  BY StretchIs
<1>2. Stretch(m, 0) = <<>> /\ Elided(0) = <<>>
  BY NoneIs
<1>3. Stretch(0, u) \o <<>> = Stretch(0, u)
  BY <1>1, ConcatEmptySeq
<1> QED
  BY <1>2, <1>3, Zenon DEF Shape

LEMMA ElidedShape ==
    ASSUME NEW u \in Nat, NEW m \in Nat
    PROVE  Elided(u) = Shape(0, u, m, 0)
<1>1. Elided(u) \in Seq(Nat)
  BY ElidedIs
<1>2. Stretch(m, 0) = <<>> /\ Stretch(0, 0) = <<>>
  BY NoneIs
<1>3. Elided(u) \o <<>> = Elided(u) /\ <<>> \o Elided(u) = Elided(u)
  BY <1>1, ConcatEmptySeq
<1> QED
  BY <1>2, <1>3, Zenon DEF Shape

\* Two pieces that meet, and what is between them when they do not.
LEMMA PiecesShape ==
    ASSUME NEW a \in Nat, NEW m \in Nat, NEW b \in Nat
    PROVE  Stretch(0, a) \o Stretch(m, b) = Shape(a, 0, m, b)
<1>1. Stretch(0, a) \in Seq(Nat)
  BY StretchIs
<1>2. Elided(0) = <<>>
  BY NoneIs
<1>3. Stretch(0, a) \o <<>> = Stretch(0, a)
  BY <1>1, ConcatEmptySeq
<1> QED
  BY <1>2, <1>3, Zenon DEF Shape

LEMMA ElidedCut ==
    ASSUME NEW n \in Nat, NEW u \in 0 .. n
    PROVE  SubSeq(Elided(n), 1, u) = Elided(u)
<1>1. u \in Nat /\ 1 \in Nat \ {0} /\ 1 <= u + 1
  OBVIOUS
<1>2. Elided(n) \in Seq(Nat) /\ Len(Elided(n)) = n /\ \A i \in 1 .. n : Elided(n)[i] = 0
  BY ElidedIs
<1>3. Elided(u) \in Seq(Nat) /\ Len(Elided(u)) = u /\ \A i \in 1 .. u : Elided(u)[i] = 0
  BY <1>1, ElidedIs
<1> DEFINE s == SubSeq(Elided(n), 1, u)
<1>4. s \in Seq(Nat) /\ Len(s) = u - 1 + 1 /\ \A i \in 1 .. u - 1 + 1 : s[i] = Elided(n)[1 + i - 1]
  BY <1>1, <1>2, SubSeqIs
<1>5. \A i \in 1 .. u : s[i] = Elided(u)[i]
  BY <1>1, <1>2, <1>3, <1>4
<1> HIDE DEF s
<1>6. Len(s) = Len(Elided(u)) /\ \A i \in 1 .. Len(s) : s[i] = Elided(u)[i]
  BY <1>1, <1>3, <1>4, <1>5
<1>7. s = Elided(u)
  BY <1>3, <1>4, <1>6, SeqEqual
<1> QED
  BY <1>7 DEF s

\* A longer beginning takes no less.
LEMMA SizeRises ==
    ASSUME NEW text \in Seq(Nat), NEW u \in 0 .. Len(text), NEW j \in 0 .. u
    PROVE  Size(SubSeq(text, 1, j)) <= Size(SubSeq(text, 1, u))
<1>1. j \in Nat /\ u \in Nat /\ Len(text) \in Nat /\ j \in 0 .. Len(text)
  OBVIOUS
<1>2. SubSeq(text, 1, j) \o SubSeq(text, j + 1, u) = SubSeq(text, 1, u)
  <2>1. 1 \in 1 .. Len(text) + 1 /\ j \in 1 - 1 .. Len(text) /\ u \in j .. Len(text)
    BY <1>1
  <2> QED
    BY <2>1, ConcatAdjacentSubSeq
<1>3. SubSeq(text, 1, j) \in Seq(Nat)
  BY <1>1, SubSeqIs
<1>4. SubSeq(text, j + 1, u) \in Seq(Nat)
  <2>1. j + 1 \in Nat \ {0} /\ j + 1 <= u + 1
    BY <1>1
  <2> QED
    BY <1>1, <2>1, SubSeqIs
<1>5. Size(SubSeq(text, 1, u)) = Size(SubSeq(text, 1, j)) + Size(SubSeq(text, j + 1, u))
  BY <1>2, <1>3, <1>4, SizeConcat
<1>6. Size(SubSeq(text, 1, j)) \in Nat /\ Size(SubSeq(text, j + 1, u)) \in Nat
  BY <1>3, <1>4, SizeTyped
<1> QED
  BY <1>5, <1>6

\* What is left of a text that has grown too long: its beginning and its end, apart.
LEMMA BoundCuts ==
    ASSUME NEW text \in Seq(Nat), NEW limit \in Nat, limit > Mark, Size(text) > limit
    PROVE  \E u, r \in 0 .. Len(text) :
              /\ u + r <= Len(text)
              /\ Bound(text, limit) =
                    SubSeq(text, 1, u) \o Marker \o SubSeq(text, Len(text) - r + 1, Len(text))
              /\ Size(SubSeq(text, 1, u)) <= (limit - Mark) \div 2
              /\ Size(SubSeq(text, 1, u)) + Size(SubSeq(text, Len(text) - r + 1, Len(text)))
                    <= limit - Mark
              /\ u < Len(text) => Size(SubSeq(text, 1, u + 1)) > (limit - Mark) \div 2
<1> DEFINE keep == limit - Mark
           u == Upto(text, keep \div 2)
           left == SubSeq(text, 1, u)
           f == From(text, keep - Size(left))
           right == SubSeq(text, f, Len(text))
           r == Len(text) + 1 - f
<1>1. keep \in Nat /\ keep \div 2 \in Nat /\ keep \div 2 <= keep /\ Mark \in Nat
  BY DEF OutputAssumption
<1>2. Bound(text, limit) = left \o Marker \o right
  <2>1. ~ (Size(text) <= limit) /\ ~ (limit <= Mark)
    <3>1. Size(text) \in Nat
      BY SizeTyped
    <3> QED
      BY <1>1, <3>1
  <2> QED
    BY <2>1, Zenon DEF Bound
<1> HIDE DEF keep
<1>3. /\ u \in 0 .. Len(text) /\ Size(left) <= keep \div 2
      /\ u < Len(text) => Size(SubSeq(text, 1, u + 1)) > keep \div 2
  BY <1>1, UptoFits
<1> HIDE DEF u
<1>4. left \in Seq(Nat)
  <2>1. 1 \in Nat \ {0} /\ 1 <= u + 1
    BY <1>3
  <2> QED
    BY <1>3, <2>1, SubSeqIs
<1>5. Size(left) \in Nat
  BY <1>4, SizeTyped
<1> HIDE DEF left
<1>6. keep - Size(left) \in Nat
  BY <1>1, <1>3, <1>5
<1>7. f \in 1 .. Len(text) + 1 /\ Size(right) <= keep - Size(left)
  BY <1>6, FromFits
<1> HIDE DEF f
<1>8. r \in 0 .. Len(text) /\ f = Len(text) - r + 1 /\ f = Len(text) - r + 1 /\ r + f = Len(text) + 1
  BY <1>7
<1>9. right \in Seq(Nat)
  <2>1. f \in Nat \ {0} /\ f <= Len(text) + 1 /\ Len(text) \in 0 .. Len(text)
    BY <1>7
  <2> QED
    BY <2>1, SubSeqIs
<1>10. Size(right) \in Nat
  BY <1>9, SizeTyped
<1> HIDE DEF right
<1>11. Size(left) + Size(right) <= keep
  BY <1>1, <1>5, <1>7, <1>10
<1>12. u + r <= Len(text)
  <2> SUFFICES ASSUME u + r > Len(text) PROVE FALSE
    BY <1>3, <1>8
  <2>1. f - 1 \in 0 .. Len(text) /\ f - 1 \in 0 .. u /\ f - 1 + 1 = f
    BY <1>3, <1>7, <1>8
  <2> DEFINE j == f - 1
  <2>2. j \in 0 .. Len(text) /\ j \in 0 .. u /\ j + 1 = f
    BY <2>1
  <2> HIDE DEF j
  <2>3. Size(text) = Size(SubSeq(text, 1, j)) + Size(SubSeq(text, j + 1, Len(text)))
    BY <2>2, SizeSplits
  <2>4. Size(SubSeq(text, 1, j)) <= Size(SubSeq(text, 1, u))
    BY <1>3, <2>2, SizeRises
  <2>5. Size(SubSeq(text, 1, j)) \in Nat
    <3>1. 1 \in Nat \ {0} /\ 1 <= j + 1
      BY <2>2
    <3>2. SubSeq(text, 1, j) \in Seq(Nat)
      BY <2>2, <3>1, SubSeqIs
    <3> QED
      BY <3>2, SizeTyped
  <2>6. Size(SubSeq(text, j + 1, Len(text))) = Size(right) /\ Size(SubSeq(text, 1, u)) = Size(left)
    BY <2>2 DEF right, left
  <2>7. Size(text) <= keep
    BY <1>1, <1>5, <1>10, <1>11, <2>3, <2>4, <2>5, <2>6
  <2>8. keep <= limit /\ Size(text) \in Nat
    BY <1>1, SizeTyped DEF keep
  <2> QED
    BY <1>1, <2>7, <2>8
<1> HIDE DEF r
<1>13. right = SubSeq(text, Len(text) - r + 1, Len(text))
  BY <1>8 DEF right
<1>14. left = SubSeq(text, 1, u)
  BY DEF left
<1>15. /\ Bound(text, limit) = SubSeq(text, 1, u) \o Marker \o SubSeq(text, Len(text) - r + 1, Len(text))
       /\ Size(SubSeq(text, 1, u)) <= (limit - Mark) \div 2
       /\ Size(SubSeq(text, 1, u)) + Size(SubSeq(text, Len(text) - r + 1, Len(text))) <= limit - Mark
       /\ u < Len(text) => Size(SubSeq(text, 1, u + 1)) > (limit - Mark) \div 2
  <2>1. keep = limit - Mark
    BY DEF keep
  <2> QED
    BY <1>2, <1>3, <1>11, <1>13, <1>14, <2>1
<1> QED
  BY <1>3, <1>8, <1>12, <1>15

\* A marker is text.
LEMMA MarkerIs ==
    ASSUME 0 \notin bad
    PROVE  Marker \in Seq(Nat) /\ Size(Marker) = Mark
<1>1. Mark \in Nat
  BY DEF OutputAssumption
<1>2. Marker \in Seq(Nat) /\ Len(Marker) = Mark /\ \A i \in 1 .. Mark : Marker[i] = 0
  BY <1>1, ElidedIs DEF Marker
<1>3. \A i \in 1 .. Len(Marker) : Marker[i] \notin bad
  BY <1>2
<1> QED
  BY <1>2, <1>3, SizeOfText

\* Whatever the text, what is left of it takes no more than it may.
LEMMA BoundFits ==
    ASSUME NEW text \in Seq(Nat), NEW limit \in Nat, 0 \notin bad
    PROVE  Size(Bound(text, limit)) <= limit /\ Size(Bound(text, limit)) \in Nat
<1>1. Size(text) \in Nat /\ Mark \in Nat
  BY SizeTyped DEF OutputAssumption
<1>2. CASE Size(text) <= limit
  BY <1>1, <1>2 DEF Bound
<1>3. CASE ~ (Size(text) <= limit) /\ limit <= Mark
  <2> DEFINE u == Upto(text, limit)
  <2>1. Bound(text, limit) = SubSeq(text, 1, u)
    BY <1>3 DEF Bound
  <2>2. u \in 0 .. Len(text) /\ Size(SubSeq(text, 1, u)) <= limit
    BY UptoFits
  <2> HIDE DEF u
  <2>3. SubSeq(text, 1, u) \in Seq(Nat)
    <3>1. 1 \in Nat \ {0} /\ 1 <= u + 1
      BY <2>2
    <3> QED
      BY <2>2, <3>1, SubSeqIs
  <2> QED
    BY <2>1, <2>2, <2>3, SizeTyped
<1>4. CASE ~ (Size(text) <= limit) /\ ~ (limit <= Mark)
  <2>1. limit > Mark /\ Size(text) > limit
    BY <1>1, <1>4
  <2>2. PICK u, r \in 0 .. Len(text) :
           /\ Bound(text, limit) = SubSeq(text, 1, u) \o Marker \o SubSeq(text, Len(text) - r + 1, Len(text))
           /\ Size(SubSeq(text, 1, u)) + Size(SubSeq(text, Len(text) - r + 1, Len(text))) <= limit - Mark
    BY <2>1, BoundCuts
  <2> DEFINE left == SubSeq(text, 1, u)
             right == SubSeq(text, Len(text) - r + 1, Len(text))
  <2>3. left \in Seq(Nat)
    <3>1. 1 \in Nat \ {0} /\ 1 <= u + 1
      BY <2>2
    <3> QED
      BY <2>2, <3>1, SubSeqIs
  <2>4. right \in Seq(Nat)
    <3>1. /\ Len(text) - r + 1 \in Nat \ {0} /\ Len(text) \in 0 .. Len(text)
          /\ Len(text) - r + 1 <= Len(text) + 1
      BY <2>2
    <3> QED
      BY <3>1, SubSeqIs
  <2>5. Bound(text, limit) = left \o Marker \o right /\ Size(left) + Size(right) <= limit - Mark
    BY <2>2
  <2> HIDE DEF left, right
  <2>6. Marker \in Seq(Nat) /\ Size(Marker) = Mark
    BY MarkerIs
  <2>7. left \o Marker \in Seq(Nat) /\ Size(left \o Marker) = Size(left) + Size(Marker)
    BY <2>3, <2>6, SizeConcat
  <2>8. Size((left \o Marker) \o right) = Size(left \o Marker) + Size(right)
    BY <2>4, <2>7, SizeConcat
  <2>9. Size(left) \in Nat /\ Size(right) \in Nat
    BY <2>3, <2>4, SizeTyped
  <2>10. Size(Bound(text, limit)) = Size(left) + Mark + Size(right)
    BY <2>5, <2>6, <2>7, <2>8
  <2> QED
    BY <1>1, <2>5, <2>9, <2>10
<1> QED
  BY <1>2, <1>3, <1>4

\* A beginning of a stream stays one.
LEMMA BeginningAbridges ==
    ASSUME NEW total \in Nat, NEW u \in 0 .. total
    PROVE  Abridged(Stretch(0, u), total)
<1>1. u \in Nat /\ u + 0 <= total /\ 0 \in Nat /\ total - 0 = total
  OBVIOUS
<1>2. Abridged(Shape(u, 0, total - 0, 0), total)
  BY <1>1, ShapeAbridges
<1>3. Stretch(0, u) = Shape(u, 0, total, 0)
  BY <1>1, BeginningShape
<1> QED
  BY <1>1, <1>2, <1>3

LEMMA StretchRest ==
    ASSUME NEW m \in Nat, NEW n \in Nat, NEW i \in Nat \ {0}, i <= n + 1
    PROVE  CutAs(m, n, i, n)
<1>1. n \in 0 .. n
  OBVIOUS
<1> QED
  BY <1>1, StretchCut

LEMMA StretchEnds ==
    ASSUME NEW n \in Nat, NEW r \in 0 .. n
    PROVE  SubSeq(Stretch(0, n), n - r + 1, n) = Stretch(n - r, r)
<1>1. PICK m \in Nat, i \in Nat \ {0} : m = 0 /\ i = n - r + 1
  OBVIOUS
<1>2. i <= n + 1 /\ m + i - 1 = n - r /\ n - i + 1 = r
  BY <1>1
<1>3. SubSeq(Stretch(m, n), i, n) = Stretch(m + i - 1, n - i + 1)
  BY <1>2, StretchRest DEF CutAs
<1> QED
  BY <1>1, <1>2, <1>3

LEMMA StretchBegins ==
    ASSUME NEW n \in Nat, NEW u \in 0 .. n
    PROVE  SubSeq(Stretch(0, n), 1, u) = Stretch(0, u)
<1>1. PICK m \in Nat, i \in Nat \ {0} : m = 0 /\ i = 1
  OBVIOUS
<1>2. i <= u + 1 /\ m + i - 1 = m /\ u - i + 1 = u
  BY <1>1
<1>3. CutAs(m, n, i, u)
  BY <1>2, StretchCut
<1> QED
  BY <1>1, <1>2, <1>3 DEF CutAs

\* The whole of a stream, cut or not.
LEMMA BoundAbridgesWhole ==
    ASSUME NEW total \in Nat, NEW limit \in Nat
    PROVE  Abridged(Bound(Stretch(0, total), limit), total)
<1> DEFINE text == Stretch(0, total)
<1>1. text \in Seq(Nat) /\ Len(text) = total
  BY StretchIs
<1>2. \A u \in 0 .. total : SubSeq(text, 1, u) = Stretch(0, u)
  BY StretchBegins
<1>3. Abridged(text, total)
  BY BeginningAbridges
<1> HIDE DEF text
<1>4. Size(text) \in Nat /\ Mark \in Nat
  BY <1>1, SizeTyped DEF OutputAssumption
<1>5. CASE Size(text) <= limit
  BY <1>3, <1>5 DEF Bound, text
<1>6. CASE ~ (Size(text) <= limit) /\ limit <= Mark
  <2>1. Upto(text, limit) \in 0 .. total
    BY <1>1, UptoFits
  <2>2. Bound(text, limit) = Stretch(0, Upto(text, limit))
    BY <1>2, <1>6, <2>1 DEF Bound
  <2>3. Abridged(Stretch(0, Upto(text, limit)), total)
    BY <2>1, BeginningAbridges
  <2> QED
    BY <2>2, <2>3 DEF text
<1>7. CASE ~ (Size(text) <= limit) /\ ~ (limit <= Mark)
  <2>1. limit > Mark /\ Size(text) > limit
    BY <1>4, <1>7
  <2>2. PICK u, r \in 0 .. Len(text) :
           /\ u + r <= Len(text)
           /\ Bound(text, limit) = SubSeq(text, 1, u) \o Marker \o SubSeq(text, Len(text) - r + 1, Len(text))
    BY <1>1, <2>1, BoundCuts
  <2>3. u \in 0 .. total /\ u \in Nat /\ r \in Nat /\ u + r <= total /\ total - r \in Nat
    BY <1>1, <2>2
  <2>4. SubSeq(text, total - r + 1, total) = Stretch(total - r, r)
    <3>1. r \in 0 .. total
      BY <2>3
    <3> QED
      BY <3>1, StretchEnds DEF text
  <2>5. Bound(text, limit) = Shape(u, Mark, total - r, r)
    BY <1>1, <1>2, <2>2, <2>3, <2>4 DEF Shape, Marker
  <2>6. Abridged(Shape(u, Mark, total - r, r), total)
    BY <1>4, <2>3, ShapeAbridges
  <2> QED
    BY <2>5, <2>6 DEF text
<1> QED
  BY <1>5, <1>6, <1>7 DEF text

JoinEitherWay(s, e, d, t) == (s \o e) \o (d \o t) = (s \o (e \o d)) \o t

LEMMA FourJoined ==
    ASSUME NEW s \in Seq(Nat), NEW e \in Seq(Nat), NEW d \in Seq(Nat), NEW t \in Seq(Nat)
    PROVE  JoinEitherWay(s, e, d, t)
<1>1. PICK x \in Seq(Nat) : x = s \o e
  BY SizeConcat
<1>2. (x \o d) \o t = x \o (d \o t)
  BY ConcatAssociative, SMTT(30)
<1>3. (s \o e) \o d = s \o (e \o d)
  BY ConcatAssociative, SMTT(30)
<1> QED
  BY <1>1, <1>2, <1>3 DEF JoinEitherWay

LEMMA HalfIs ==
    ASSUME NEW n \in Nat, NEW p \in Nat, p + p <= n, n <= p + p + 1
    PROVE  n \div 2 = p
OBVIOUS

\* The two ends of a stream around the marker, cut again or not.
LEMMA BoundAbridgesEnds ==
    ASSUME NEW total \in Nat, NEW limit \in Nat, limit > Mark,
           NEW p \in Nat, NEW q \in Nat, p + q <= total,
           p + q = limit - Mark, p + p <= limit - Mark, limit - Mark <= p + p + 1
    PROVE  Abridged(Bound(Shape(p, Mark, total - q, q), limit), total)
<1> DEFINE text == Shape(p, Mark, total - q, q)
<1>1. Mark \in Nat /\ 2 <= Mark
  BY DEF OutputAssumption
<1>2. total - q \in Nat
  OBVIOUS
<1>3. text \in Seq(Nat) /\ Len(text) = p + Mark + q
  <2>1. IsShape(text, p, Mark, total - q, q)
    BY <1>1, <1>2, ShapeIs
  <2> QED
    BY <2>1 DEF IsShape
<1>4. Abridged(text, total)
  BY <1>1, ShapeAbridges
<1>5. \A u \in 0 .. p : SubSeq(text, 1, u) = Stretch(0, u)
  <2>1. PICK m \in Nat : m = total - q
    BY <1>2
  <2>2. \A u \in 0 .. p : BeginsWith(p, Mark, m, q, u)
    BY <1>1, ShapeBegins
  <2> QED
    BY <2>1, <2>2 DEF BeginsWith
<1>6. \A r \in 0 .. q : SubSeq(text, p + Mark + q - r + 1, p + Mark + q) = Stretch(total - q + q - r, r)
  <2> SUFFICES ASSUME NEW r \in 0 .. q
               PROVE  SubSeq(text, p + Mark + q - r + 1, p + Mark + q) = Stretch(total - q + q - r, r)
    OBVIOUS
  <2>1. PICK m \in Nat : m = total - q
    BY <1>2
  <2>2. EndsWith(p, Mark, m, q, r)
    BY <1>1, ShapeEnds
  <2> QED
    BY <2>1, <2>2 DEF EndsWith
<1>7. \A j \in 0 .. Mark :
        SubSeq(text, p + Mark - j + 1, p + Mark + q) = Elided(j) \o Stretch(total - q, q)
  <2> SUFFICES ASSUME NEW j \in 0 .. Mark
               PROVE  SubSeq(text, p + Mark - j + 1, p + Mark + q) = Elided(j) \o Stretch(total - q, q)
    OBVIOUS
  <2>1. PICK m \in Nat : m = total - q
    BY <1>2
  <2>2. EndsElided(p, Mark, m, q, j)
    BY <1>1, ShapeEndsElided
  <2> QED
    BY <2>1, <2>2 DEF EndsElided
<1>8. Bound(text, limit) = text \/ Size(text) > limit
  <2>1. Size(text) \in Nat
    BY <1>3, SizeTyped
  <2> QED
    BY <2>1 DEF Bound
<1> HIDE DEF text
<1>9. ASSUME Size(text) > limit PROVE Abridged(Bound(text, limit), total)
  <2>1. PICK u, r \in 0 .. Len(text) :
           /\ Bound(text, limit) = SubSeq(text, 1, u) \o Marker \o SubSeq(text, Len(text) - r + 1, Len(text))
           /\ Size(SubSeq(text, 1, u)) <= p
           /\ Size(SubSeq(text, 1, u)) + Size(SubSeq(text, Len(text) - r + 1, Len(text))) <= limit - Mark
           /\ u < Len(text) => Size(SubSeq(text, 1, u + 1)) > p
    <3>1. limit - Mark \in Nat /\ (limit - Mark) \div 2 = p
      BY <1>1, HalfIs
    <3> QED
      BY <1>3, <1>9, <3>1, BoundCuts
  <2> DEFINE left == SubSeq(text, 1, u)
             right == SubSeq(text, Len(text) - r + 1, Len(text))
  <2>2. u \in Nat /\ r \in Nat
    BY <1>3, <2>1
  <2>3. left \in Seq(Nat) /\ Len(left) = u
    <3>1. 1 \in Nat \ {0} /\ 1 <= u + 1 /\ u - 1 + 1 = u
      BY <2>2
    <3> QED
      BY <1>3, <2>1, <3>1, SubSeqIs
  <2>4. right \in Seq(Nat) /\ Len(right) = r
    <3>1. /\ Len(text) - r + 1 \in Nat \ {0} /\ Len(text) \in 0 .. Len(text)
          /\ Len(text) - r + 1 <= Len(text) + 1 /\ Len(text) - (Len(text) - r + 1) + 1 = r
      BY <1>3, <2>1, <2>2
    <3> QED
      BY <1>3, <3>1, SubSeqIs
  <2>5. Bound(text, limit) = left \o Marker \o right /\ Size(left) <= p /\ Size(left) + Size(right) <= p + q
    BY <2>1
  <2>6. u < p => Size(left) + 3 > p
    <3> SUFFICES ASSUME u < p PROVE Size(left) + 3 > p
      OBVIOUS
    <3>1. u \in 0 .. Len(text) - 1 /\ u < Len(text) /\ u + 1 \in 0 .. Len(text)
      BY <1>1, <1>3, <2>2
    <3>2. Size(SubSeq(text, 1, u + 1)) <= Size(left) + 3
      BY <1>3, <3>1, SizeGrows
    <3>3. SubSeq(text, 1, u + 1) \in Seq(Nat)
      <4>1. 1 \in Nat \ {0} /\ 1 <= u + 1 + 1
        BY <2>2
      <4> QED
        BY <1>3, <3>1, <4>1, SubSeqIs
    <3>4. Size(SubSeq(text, 1, u + 1)) \in Nat /\ Size(left) \in Nat
      BY <2>3, <3>3, SizeTyped
    <3> QED
      BY <2>1, <3>1, <3>2, <3>4
  <2> HIDE DEF left
  <2>7. Size(left) \in Nat /\ u <= Size(left)
    BY <2>3, SizeTyped
  <2> HIDE DEF right
  <2>8. Size(right) \in Nat /\ r <= Size(right)
    BY <2>4, SizeTyped
  <2>9. u <= p /\ u \in 0 .. p
    BY <2>2, <2>5, <2>7
  <2>10. r <= q + 2
    <3>1. p <= Size(left) + 2
      BY <2>2, <2>6, <2>7, <2>9
    <3>2. Size(left) + r <= p + q
      BY <2>2, <2>5, <2>7, <2>8
    <3> QED
      BY <2>2, <2>7, <3>1, <3>2
  <2>11. left = Stretch(0, u)
    BY <1>5, <2>9 DEF left
  <2>12. CASE r <= q
    <3>1. Len(text) = p + Mark + q /\ r \in 0 .. q /\ total - q + q - r = total - r
      BY <1>3, <2>2, <2>12
    <3>2. right = Stretch(total - r, r)
      BY <1>6, <3>1 DEF right
    <3>3. Bound(text, limit) = Shape(u, Mark, total - r, r)
      BY <2>5, <2>11, <3>2 DEF Shape, Marker
    <3>4. u + r <= total
      BY <2>2, <2>9, <2>12
    <3>5. Abridged(Shape(u, Mark, total - r, r), total)
      BY <1>1, <2>2, <3>4, ShapeAbridges
    <3> QED
      BY <3>3, <3>5
  <2>13. CASE ~ (r <= q)
    <3> DEFINE j == r - q
    <3>1. j \in 0 .. Mark /\ j \in Nat /\ p + Mark - j + 1 = p + Mark + q - r + 1 /\ Mark + j \in Nat
      BY <1>1, <2>2, <2>10, <2>13
    <3> HIDE DEF j
    <3>2. right = Elided(j) \o Stretch(total - q, q)
      <4>1. SubSeq(text, p + Mark - j + 1, p + Mark + q) = Elided(j) \o Stretch(total - q, q)
        BY <1>7, <3>1
      <4>2. Len(text) - r + 1 = p + Mark - j + 1
        BY <1>3, <3>1
      <4> QED
        BY <1>3, <4>1, <4>2 DEF right
    <3>3. /\ Stretch(0, u) \in Seq(Nat) /\ Stretch(total - q, q) \in Seq(Nat)
          /\ Elided(Mark) \in Seq(Nat) /\ Elided(j) \in Seq(Nat)
      BY <1>1, <1>2, <2>2, <3>1, StretchIs, ElidedIs
    <3>4. Bound(text, limit) = (Stretch(0, u) \o Elided(Mark)) \o (Elided(j) \o Stretch(total - q, q))
      BY <2>5, <2>11, <3>2 DEF Marker
    <3>5. PICK s, e, d, t \in Seq(Nat) :
             s = Stretch(0, u) /\ e = Elided(Mark) /\ d = Elided(j) /\ t = Stretch(total - q, q)
      BY <3>3
    <3>10. (s \o e) \o (d \o t) = (s \o (e \o d)) \o t
      <4>1. JoinEitherWay(s, e, d, t)
        BY FourJoined
      <4> QED
        BY <4>1 DEF JoinEitherWay
    <3>6. Elided(Mark) \o Elided(j) = Elided(Mark + j)
      BY <1>1, <3>1, ElidedJoins
    <3>7. Bound(text, limit) = Shape(u, Mark + j, total - q, q)
      BY <3>4, <3>5, <3>6, <3>10 DEF Shape
    <3>8. u + q <= total
      BY <2>2, <2>9
    <3>9. Abridged(Shape(u, Mark + j, total - q, q), total)
      BY <2>2, <3>1, <3>8, ShapeAbridges
    <3> QED
      BY <3>7, <3>9
  <2> QED
    BY <2>12, <2>13
<1> QED
  BY <1>4, <1>8, <1>9 DEF text

\* No room but for a part of the marker.
LEMMA BoundAbridgesMarker ==
    ASSUME NEW total \in Nat, NEW limit \in Nat, limit <= Mark
    PROVE  Abridged(Bound(Marker, limit), total)
<1>1. Mark \in Nat
  BY DEF OutputAssumption
<1>2. \A u \in Nat : Abridged(Elided(u), total)
  <2> SUFFICES ASSUME NEW u \in Nat PROVE Abridged(Elided(u), total)
    OBVIOUS
  <2>1. 0 \in Nat /\ 0 + 0 <= total /\ total - 0 = total
    OBVIOUS
  <2>2. Abridged(Shape(0, u, total - 0, 0), total)
    BY <2>1, ShapeAbridges
  <2> QED
    BY <2>1, <2>2, ElidedShape
<1>3. Marker \in Seq(Nat) /\ Len(Marker) = Mark
  BY <1>1, ElidedIs DEF Marker
<1>4. CASE Size(Marker) <= limit
  BY <1>1, <1>2, <1>4 DEF Bound, Marker
<1>5. CASE ~ (Size(Marker) <= limit)
  <2>1. Upto(Marker, limit) \in 0 .. Mark
    BY <1>3, UptoFits
  <2>2. SubSeq(Marker, 1, Upto(Marker, limit)) = Elided(Upto(Marker, limit))
    BY <1>1, <2>1, ElidedCut DEF Marker
  <2>3. Bound(Marker, limit) = Elided(Upto(Marker, limit))
    BY <1>5, <2>2 DEF Bound
  <2>4. Upto(Marker, limit) \in Nat
    BY <2>1
  <2> QED
    BY <1>2, <2>3, <2>4
<1> QED
  BY <1>4, <1>5

----------------------------------------------------------------------------
(* What a capture keeps of a stream of n bytes: the first ones, and the    *)
(* last of the rest.                                                       *)

Tailing(n) == AtMost(n - AtMost(n, Half), Half)

Held(c) ==
    /\ c.total \in Nat
    /\ c.head = Stretch(0, AtMost(c.total, Half))
    /\ c.tail = Stretch(c.total - Tailing(c.total), Tailing(c.total))

LEMMA TailingIs ==
    ASSUME NEW n \in Nat
    PROVE  /\ AtMost(n, Half) \in Nat /\ Tailing(n) \in Nat /\ n - Tailing(n) \in Nat
           /\ n < Half => AtMost(n, Half) = n
           /\ n >= Half => AtMost(n, Half) = Half
           /\ n <= Half => Tailing(n) = 0
           /\ n <= Half + Half => AtMost(n, Half) + Tailing(n) = n
           /\ n >= Half + Half => Tailing(n) = Half
BY DEF OutputAssumption, AtMost, Tailing

\* The head after a read.
LEMMA HeadGrows ==
    ASSUME NEW total \in Nat, NEW n \in Nat, NEW room \in 0 .. n,
           room = AtMost(Half - AtMost(total, Half), n)
    PROVE  Stretch(0, AtMost(total, Half)) \o SubSeq(Stretch(total, n), 1, room)
             = Stretch(0, AtMost(total + n, Half))
<1>1. Half \in Nat /\ room \in Nat /\ total + n \in Nat
  BY DEF OutputAssumption
<1>2. SubSeq(Stretch(total, n), 1, room) = Stretch(total, room)
  <2>1. PICK i \in Nat \ {0} : i = 1
    OBVIOUS
  <2>2. SubSeq(Stretch(total, n), i, room) = Stretch(total + i - 1, room - i + 1)
    <3>1. i <= room + 1
      BY <1>1, <2>1
    <3> QED
      <4>1. CutAs(total, n, i, room)
        BY <3>1, StretchCut
      <4> QED
        BY <4>1 DEF CutAs
  <2>3. total + i - 1 = total /\ room - i + 1 = room
    BY <1>1, <2>1
  <2> QED
    BY <2>1, <2>2, <2>3
<1>3. CASE total < Half
  <2>1. AtMost(total, Half) = total /\ AtMost(total + n, Half) = total + room
    BY <1>1, <1>3 DEF AtMost
  <2>2. PICK z \in Nat : z = 0
    OBVIOUS
  <2>3. Stretch(z, total) \o Stretch(z + total, room) = Stretch(z, total + room)
    BY <1>1, StretchJoins
  <2>4. z + total = total
    BY <2>2
  <2>5. Stretch(0, total) \o Stretch(total, room) = Stretch(0, total + room)
    BY <2>2, <2>3, <2>4
  <2> QED
    BY <1>2, <2>1, <2>5
<1>4. CASE ~ (total < Half)
  <2>1. AtMost(total, Half) = Half /\ AtMost(total + n, Half) = Half /\ room = 0
    BY <1>1, <1>4 DEF AtMost
  <2>2. Stretch(total, 0) = <<>> /\ Stretch(0, Half) \in Seq(Nat)
    BY <1>1, NoneIs, StretchIs
  <2>3. Stretch(0, Half) \o <<>> = Stretch(0, Half)
    BY <2>2, ConcatEmptySeq
  <2> QED
    BY <1>2, <2>1, <2>2, <2>3
<1> QED
  BY <1>3, <1>4

\* The tail when it loses its first bytes and takes n more.
LEMMA TailSlides ==
    ASSUME NEW total \in Nat, NEW t \in 0 .. total, NEW drop \in 0 .. t, NEW n \in Nat
    PROVE  SubSeq(Stretch(total - t, t), drop + 1, t) \o Stretch(total, n)
             = Stretch(total - t + drop, t - drop + n)
<1>1. PICK m \in Nat, i \in Nat \ {0}, k \in Nat : m = total - t /\ i = drop + 1 /\ k = t - drop
  OBVIOUS
<1>2. t \in Nat /\ i <= t + 1 /\ m + i - 1 = m + drop /\ t - i + 1 = k /\ m + drop \in Nat
      /\ m + drop + k = total
  BY <1>1
<1>3. SubSeq(Stretch(m, t), i, t) = Stretch(m + i - 1, t - i + 1)
  BY <1>2, StretchRest DEF CutAs
<1>4. PICK p \in Nat : p = m + drop
  BY <1>2
<1>5. Stretch(p, k) \o Stretch(p + k, n) = Stretch(p, k + n)
  BY StretchJoins
<1> QED
  BY <1>1, <1>2, <1>3, <1>4, <1>5

\* A read keeps it so.
LEMMA PushKeeps ==
    ASSUME NEW c, Held(c), NEW n \in Nat
    PROVE  Held(Push(c, Stretch(c.total, n)))
<1>1. PICK total \in Nat : total = c.total
  BY DEF Held
<1> DEFINE h == AtMost(total, Half)
           t == Tailing(total)
           bytes == Stretch(total, n)
           room == AtMost(Half - h, n)
           rest == SubSeq(bytes, room + 1, n)
           excess == t + Len(rest) - Half
           drop == IF excess > 0 THEN excess ELSE 0
           tail == IF Len(rest) >= Half
                   THEN SubSeq(rest, Len(rest) - Half + 1, Len(rest))
                   ELSE SubSeq(c.tail, drop + 1, t) \o rest
<1>2. /\ Half \in Nat /\ total + n \in Nat
      /\ h \in Nat /\ t \in Nat /\ total - t \in Nat
      /\ t = AtMost(total - h, Half)
  <2>1. t = AtMost(total - h, Half)
    BY DEF Tailing
  <2> QED
    BY <2>1, TailingIs DEF OutputAssumption
<1>0. PICK all \in Nat : all = total + n
  BY <1>2
<1>3. c.head = Stretch(0, h) /\ c.tail = Stretch(total - t, t)
  BY <1>1 DEF Held
<1>4. Len(bytes) = n /\ Len(c.head) = h /\ Len(c.tail) = t
  BY <1>2, <1>3, StretchIs
<1>5. room \in 0 .. n /\ room \in Nat /\ h <= Half
  BY <1>2 DEF AtMost
<1>6. Push(c, bytes) = [head  |-> c.head \o SubSeq(bytes, 1, room),
                        tail  |-> tail,
                        total |-> all]
  BY <1>0, <1>1, <1>4 DEF Push
<1>7. c.head \o SubSeq(bytes, 1, room) = Stretch(0, AtMost(all, Half))
  <2>1. Stretch(0, AtMost(total, Half)) \o SubSeq(Stretch(total, n), 1, room)
          = Stretch(0, AtMost(total + n, Half))
    BY <1>5, HeadGrows
  <2> QED
    BY <1>0, <1>3, <2>1
<1>8. rest = Stretch(total + room, n - room) /\ Len(rest) = n - room
  <2>1. PICK i \in Nat \ {0} : i = room + 1
    BY <1>5
  <2>2. i <= n + 1 /\ total + i - 1 = total + room /\ n - i + 1 = n - room
    BY <1>5, <2>1
  <2>3. SubSeq(Stretch(total, n), i, n) = Stretch(total + i - 1, n - i + 1)
    BY <2>2, StretchRest DEF CutAs
  <2>4. PICK m \in Nat, k \in Nat : m = total + room /\ k = n - room
    BY <1>5
  <2>5. rest = Stretch(m, k)
    BY <2>1, <2>2, <2>3, <2>4
  <2>6. Len(Stretch(m, k)) = k
    BY StretchIs
  <2> QED
    BY <2>4, <2>5, <2>6
<1>9. tail = Stretch(all - Tailing(all), Tailing(all))
  <2> HIDE DEF rest
  <2>1. PICK m \in Nat, r \in Nat : m = total + room /\ r = n - room
    BY <1>5
  <2>2. rest = Stretch(m, r) /\ Len(rest) = r
    BY <1>8, <2>1
  <2>3. CASE r >= Half
    <3>1. tail = SubSeq(Stretch(m, r), r - Half + 1, r)
      BY <2>2, <2>3
    <3>2. PICK i \in Nat \ {0} : i = r - Half + 1
      BY <1>2, <2>3
    <3>3. i <= r + 1 /\ m + i - 1 = all - Half /\ r - i + 1 = Half
      BY <1>0, <1>2, <1>5, <2>1, <3>2
    <3>4. SubSeq(Stretch(m, r), i, r) = Stretch(m + i - 1, r - i + 1)
      BY <3>3, StretchRest DEF CutAs
    <3>5. Tailing(all) = Half
      BY <1>0, <1>2, <2>1, <2>3 DEF Tailing, AtMost
    <3> QED
      BY <3>1, <3>2, <3>3, <3>4, <3>5
  <2>4. CASE ~ (r >= Half)
    <3>1. tail = SubSeq(Stretch(total - t, t), drop + 1, t) \o Stretch(m, r)
      BY <1>3, <2>2, <2>4
    <3>2. drop \in 0 .. t /\ t - drop + r = Tailing(all)
      <4>1. excess = t + r - Half
        BY <2>2
      <4>2. drop \in 0 .. t
        BY <1>2, <2>4, <4>1
      <4>3. t = AtMost(total - h, Half) /\ Tailing(all) = AtMost(all - AtMost(all, Half), Half)
        <5>1. \A k : Tailing(k) = AtMost(k - AtMost(k, Half), Half)
          BY DEF Tailing
        <5>2. t = AtMost(total - h, Half)
          BY <1>2
        <5>3. Tailing(all) = AtMost(all - AtMost(all, Half), Half)
          BY <5>1, Zenon
        <5> QED
          BY <5>2, <5>3
      <4>4. t + r - drop = IF t + r > Half THEN Half ELSE t + r
        BY <1>2, <2>4, <4>1
      <4>5. all - AtMost(all, Half) = total - h + r
        <5>1. r = n - room
          BY <2>1
        <5> QED
          BY <1>0, <1>2, <5>1 DEF AtMost
      <4>6. AtMost(total - h + r, Half) = IF t + r > Half THEN Half ELSE t + r
        <5>1. total - h \in Nat
          BY <1>2, TailingIs DEF AtMost
        <5>2. t = IF total - h < Half THEN total - h ELSE Half
          BY <4>3 DEF AtMost
        <5> QED
          BY <1>2, <5>1, <5>2 DEF AtMost
      <4> QED
        BY <1>2, <4>2, <4>3, <4>4, <4>5, <4>6
    <3>3. CASE room = 0
      <4>1. m = total /\ r = n
        BY <2>1, <3>3
      <4>2. PICK d \in 0 .. t : d = drop
        BY <3>2
      <4>3. t \in 0 .. total
        BY <1>2
      <4>4. SubSeq(Stretch(total - t, t), d + 1, t) \o Stretch(total, n)
              = Stretch(total - t + d, t - d + n)
        BY <4>3, TailSlides, ZenonT(30)
      <4>5. total - t + drop = all - Tailing(all)
        BY <1>0, <1>2, <3>2, <4>1
      <4> QED
        BY <3>1, <3>2, <4>1, <4>2, <4>4, <4>5
    <3>4. CASE room # 0
      <4>1. t = 0 /\ drop = 0
        BY <1>2, <1>5, <2>4, <2>2, <3>4 DEF Tailing, AtMost
      <4>2. SubSeq(Stretch(total - t, t), drop + 1, t) = <<>>
        <5>1. drop + 1 \in Int /\ t \in Int /\ drop + 1 > t
          BY <4>1
        <5> QED
          BY <5>1, SubSeqEmpty
      <4>3. <<>> \o Stretch(m, r) = Stretch(m, r)
        <5>1. Stretch(m, r) \in Seq(Nat)
          BY StretchIs
        <5> QED
          BY <5>1, ConcatEmptySeq
      <4>4. r = Tailing(all)
        BY <3>2, <4>1
      <4>5. m = all - r
        BY <1>0, <1>5, <2>1
      <4> QED
        BY <3>1, <4>2, <4>3, <4>4, <4>5
    <3> QED
      BY <3>3, <3>4
  <2> QED
    BY <2>3, <2>4
<1> HIDE DEF tail, room, h
<1>10. Push(c, bytes) = [head  |-> Stretch(0, AtMost(all, Half)),
                         tail  |-> Stretch(all - Tailing(all), Tailing(all)),
                         total |-> all]
  BY <1>6, <1>7, <1>9, Zenon
<1>11. Held([head  |-> Stretch(0, AtMost(all, Half)),
             tail  |-> Stretch(all - Tailing(all), Tailing(all)),
             total |-> all])
  BY DEF Held
<1> QED
  BY <1>1, <1>10, <1>11

\* What is left of a stream of n bytes: all of them, or its two ends.
LEMMA HeldIs ==
    ASSUME NEW c, Held(c)
    PROVE  \E h, t \in Nat :
              /\ h <= c.total /\ t <= c.total
              /\ c.head \o c.tail = Shape(h, 0, c.total - t, t)
              /\ c.total <= MaxOutput => c.head \o c.tail = Stretch(0, c.total)
              /\ c.total > MaxOutput => h = Half /\ t = Half
<1>1. PICK total \in Nat : total = c.total
  BY DEF Held
<1>2. PICK h, t, m \in Nat : h = AtMost(total, Half) /\ t = Tailing(total) /\ m = total - t
  BY TailingIs
<1>3. c.head = Stretch(0, h) /\ c.tail = Stretch(m, t)
  BY <1>1, <1>2, Zenon DEF Held
<1>4. Half \in Nat /\ MaxOutput = Half + Half /\ m + t = total
  BY <1>2 DEF OutputAssumption, MaxOutput
<1>5. /\ h <= total /\ t <= total
      /\ total <= Half + Half => h + t = total
      /\ total > Half + Half => h = Half /\ t = Half
  BY <1>2, <1>4, TailingIs DEF AtMost
<1>6. Stretch(0, h) \o Stretch(m, t) = Shape(h, 0, m, t)
  BY PiecesShape
<1>7. ASSUME total <= MaxOutput PROVE Stretch(0, h) \o Stretch(m, t) = Stretch(0, total)
  <2>1. h + t = total /\ m = h
    BY <1>4, <1>5, <1>7
  <2>2. PICK z \in Nat : z = 0
    OBVIOUS
  <2>3. Stretch(z, h) \o Stretch(z + h, t) = Stretch(z, h + t)
    BY StretchJoins
  <2>4. z + h = h
    BY <2>2
  <2> QED
    BY <2>1, <2>2, <2>3, <2>4
<1> QED
  BY <1>1, <1>2, <1>3, <1>4, <1>5, <1>6, <1>7

LEMMA HeldText ==
    ASSUME NEW c, Held(c)
    PROVE  c.head \o c.tail \in Seq(Nat) /\ c.total \in Nat
<1>1. PICK h, t \in Nat : t <= c.total /\ c.head \o c.tail = Shape(h, 0, c.total - t, t)
  BY HeldIs
<1>2. c.total \in Nat
  BY DEF Held
<1>3. PICK m \in Nat : m = c.total - t
  BY <1>1, <1>2
<1>4. IsShape(Shape(h, 0, m, t), h, 0, m, t)
  BY ShapeIs
<1> QED
  BY <1>1, <1>2, <1>3, <1>4 DEF IsShape

\* What Render makes of it.
LEMMA RenderIs ==
    ASSUME NEW c, Held(c), NEW limit \in Nat, limit <= MaxOutput
    PROVE  \/ limit = 0 /\ Render(c, limit) = <<>>
           \/ limit # 0 /\ c.total <= limit /\ Render(c, limit) = Bound(Stretch(0, c.total), limit)
           \/ /\ limit # 0 /\ c.total > limit /\ limit <= Mark
              /\ Render(c, limit) = Bound(Marker, limit)
           \/ /\ limit # 0 /\ c.total > limit /\ limit > Mark
              /\ \E p, q \in Nat :
                    /\ p + q <= c.total /\ p + q = limit - Mark
                    /\ p + p <= limit - Mark /\ limit - Mark <= p + p + 1
                    /\ Render(c, limit) = Bound(Shape(p, Mark, c.total - q, q), limit)
<1>1. PICK h, t \in Nat :
         /\ h <= c.total /\ t <= c.total
         /\ c.head \o c.tail = Shape(h, 0, c.total - t, t)
         /\ c.total <= MaxOutput => c.head \o c.tail = Stretch(0, c.total)
         /\ c.total > MaxOutput => h = Half /\ t = Half
  BY HeldIs
<1>2. PICK total \in Nat : total = c.total
  BY DEF Held
<1>3. PICK m \in Nat : m = total - t
  BY <1>1, <1>2
<1>4. PICK bytes \in Seq(Nat) : bytes = c.head \o c.tail
  BY HeldText
<1>5. Half \in Nat /\ MaxOutput = Half + Half /\ Mark \in Nat /\ Mark >= 2
  BY DEF OutputAssumption, MaxOutput
<1>6. PICK keep \in Nat : keep = IF limit > Mark THEN limit - Mark ELSE 0
  <2>1. (IF limit > Mark THEN limit - Mark ELSE 0) \in Nat
    BY <1>5
  <2> QED
    BY <2>1
<1>7. PICK p, q \in Nat : p = keep \div 2 /\ q = keep - keep \div 2
  OBVIOUS
<1>8. p + q = keep /\ p + p <= keep /\ keep <= p + p + 1
  BY <1>7
<1>9. CASE limit = 0
  BY <1>9 DEF Render
<1>10. CASE limit # 0 /\ total <= limit
  <2>1. Render(c, limit) = Bound(bytes, limit)
    BY <1>2, <1>4, <1>10 DEF Render
  <2>2. bytes = Stretch(0, total)
    BY <1>1, <1>2, <1>4, <1>5, <1>10
  <2> QED
    BY <1>2, <1>10, <2>1, <2>2
<1>11. CASE limit # 0 /\ ~ (total <= limit)
  <2> DEFINE prefix == AtMost(p, Len(bytes))
             suffix == AtMost(q, Len(bytes))
  <2>1. Render(c, limit) = Bound(SubSeq(bytes, 1, prefix) \o Marker
                                 \o SubSeq(bytes, Len(bytes) - suffix + 1, Len(bytes)), limit)
    BY <1>2, <1>4, <1>6, <1>7, <1>11 DEF Render
  <2>2. p + q < total /\ keep <= limit
    BY <1>5, <1>6, <1>8, <1>11
  <2>3. /\ SubSeq(bytes, 1, prefix) = Stretch(0, p)
        /\ SubSeq(bytes, Len(bytes) - suffix + 1, Len(bytes)) = Stretch(total - q, q)
    <3>1. CASE total <= MaxOutput
      <4>1. bytes = Stretch(0, total) /\ Len(bytes) = total
        <5>1. bytes = Stretch(0, total)
          BY <1>1, <1>2, <1>4, <3>1
        <5>2. Len(Stretch(0, total)) = total
          BY StretchIs
        <5> QED
          BY <5>1, <5>2
      <4>2. prefix = p /\ suffix = q /\ p \in 0 .. total /\ q \in 0 .. total
        BY <2>2, <4>1 DEF AtMost
      <4>3. SubSeq(Stretch(0, total), total - q + 1, total) = Stretch(total - q, q)
        BY <4>2, StretchEnds
      <4>4. SubSeq(Stretch(0, total), 1, p) = Stretch(0, p)
        BY <4>2, StretchBegins
      <4> QED
        BY <4>1, <4>2, <4>3, <4>4
    <3>2. CASE ~ (total <= MaxOutput)
      <4>1. h = Half /\ t = Half
        BY <1>1, <1>2, <1>5, <3>2
      <4>2. PICK z \in Nat : z = 0
        OBVIOUS
      <4>3. bytes = Shape(h, z, m, t)
        BY <1>1, <1>2, <1>3, <1>4, <4>2
      <4>4. IsShape(Shape(h, z, m, t), h, z, m, t)
        BY ShapeIs
      <4>5. Len(bytes) = h + z + t /\ m + t = total /\ Len(bytes) = h + t
        BY <1>3, <4>2, <4>3, <4>4 DEF IsShape
      <4>6. p <= Half /\ q <= Half
        BY <1>5, <1>6, <1>8
      <4>7. prefix = p /\ suffix = q /\ p \in 0 .. h /\ q \in 0 .. t
        BY <4>1, <4>5, <4>6 DEF AtMost
      <4>8. SubSeq(Shape(h, z, m, t), 1, p) = Stretch(0, p)
        <5>1. BeginsWith(h, z, m, t, p)
          BY <4>7, ShapeBegins
        <5> QED
          BY <5>1 DEF BeginsWith
      <4>9. EndsWith(h, z, m, t, q)
        BY <4>7, ShapeEnds
      <4>10. SubSeq(bytes, Len(bytes) - q + 1, Len(bytes)) = Stretch(m + t - q, q)
        BY <4>3, <4>5, <4>9 DEF EndsWith
      <4>11. SubSeq(bytes, Len(bytes) - q + 1, Len(bytes)) = Stretch(total - q, q)
        <5>1. m + t - q = total - q
          BY <4>5
        <5> QED
          BY <4>10, <5>1
      <4> QED
        BY <4>3, <4>7, <4>8, <4>11
    <3> QED
      BY <3>1, <3>2
  <2> HIDE DEF prefix, suffix
  <2>4. Render(c, limit) = Bound(Stretch(0, p) \o Marker \o Stretch(total - q, q), limit)
    BY <2>1, <2>3
  <2>5. Stretch(0, p) \o Marker \o Stretch(total - q, q) = Shape(p, Mark, total - q, q)
    BY DEF Shape, Marker
  <2>6. CASE limit > Mark
    <3>1. keep = limit - Mark
      BY <1>6, <2>6
    <3>2. /\ p + q <= total /\ p + q = limit - Mark
          /\ p + p <= limit - Mark /\ limit - Mark <= p + p + 1
      BY <1>8, <2>2, <3>1
    <3> QED
      <4>1. Render(c, limit) = Bound(Shape(p, Mark, c.total - q, q), limit)
        BY <1>2, <2>4, <2>5
      <4>2. p + q <= c.total /\ c.total > limit
        BY <1>2, <1>11, <3>2
      <4> QED
        BY <1>11, <2>6, <3>2, <4>1, <4>2
  <2>7. CASE ~ (limit > Mark)
    <3>1. p = 0 /\ q = 0
      BY <1>6, <1>8, <2>7
    <3>2. total - q = total /\ total \in Nat
      BY <3>1
    <3>3. Shape(p, Mark, total - q, q) = Marker
      BY <1>5, <3>1, <3>2, ElidedShape DEF Marker
    <3> QED
      <4>1. Render(c, limit) = Bound(Marker, limit)
        BY <2>4, <2>5, <3>3
      <4>2. limit <= Mark /\ c.total > limit
        BY <1>2, <1>5, <1>11, <2>7
      <4> QED
        BY <1>11, <4>1, <4>2
  <2> QED
    BY <2>6, <2>7
<1> QED
  BY <1>9, <1>10, <1>11

LEMMA RenderKeeps ==
    ASSUME NEW c, Held(c), NEW limit \in Nat, limit <= MaxOutput, 0 \notin bad
    PROVE  /\ Size(Render(c, limit)) \in Nat /\ Size(Render(c, limit)) <= limit
           /\ Abridged(Render(c, limit), c.total)
           /\ bad = {} /\ c.total <= limit => Render(c, limit) = Stretch(0, c.total)
<1>1. PICK total \in Nat : total = c.total
  BY DEF Held
<1>2. Mark \in Nat
  BY DEF OutputAssumption
<1>3. CASE limit = 0 /\ Render(c, limit) = <<>>
  <2>1. Abridged(Stretch(0, 0), total) /\ Stretch(0, 0) = <<>>
    BY BeginningAbridges, NoneIs
  <2>2. c.total <= limit => c.total = 0
    BY <1>1, <1>3
  <2> QED
    BY <1>1, <1>3, <2>1, <2>2, SizeOfNothing
<1>4. CASE limit # 0 /\ c.total <= limit /\ Render(c, limit) = Bound(Stretch(0, c.total), limit)
  <2>1. Stretch(0, total) \in Seq(Nat) /\ Len(Stretch(0, total)) = total
    BY StretchIs
  <2>2. Size(Bound(Stretch(0, total), limit)) <= limit /\ Size(Bound(Stretch(0, total), limit)) \in Nat
    BY <2>1, BoundFits
  <2>3. Abridged(Bound(Stretch(0, total), limit), total)
    BY BoundAbridgesWhole
  <2>4. ASSUME bad = {} PROVE Bound(Stretch(0, total), limit) = Stretch(0, total)
    <3>1. Size(Stretch(0, total)) = total
      BY <2>1, <2>4, SizeOfText
    <3> QED
      BY <1>1, <1>4, <3>1 DEF Bound
  <2> QED
    BY <1>1, <1>4, <2>2, <2>3, <2>4
<1>5. CASE limit # 0 /\ c.total > limit /\ limit <= Mark /\ Render(c, limit) = Bound(Marker, limit)
  <2>1. Marker \in Seq(Nat)
    BY MarkerIs
  <2>2. Size(Bound(Marker, limit)) <= limit /\ Size(Bound(Marker, limit)) \in Nat
    BY <2>1, BoundFits
  <2>3. Abridged(Bound(Marker, limit), total)
    BY <1>5, BoundAbridgesMarker
  <2> QED
    BY <1>1, <1>5, <2>2, <2>3
<1>6. ASSUME c.total > limit, limit > Mark,
             NEW p \in Nat, NEW q \in Nat,
             p + q <= c.total, p + q = limit - Mark,
             p + p <= limit - Mark, limit - Mark <= p + p + 1,
             Render(c, limit) = Bound(Shape(p, Mark, c.total - q, q), limit)
      PROVE  /\ Size(Render(c, limit)) \in Nat /\ Size(Render(c, limit)) <= limit
             /\ Abridged(Render(c, limit), c.total)
             /\ ~ (c.total <= limit)
  <2>1. PICK m \in Nat : m = total - q
    BY <1>1, <1>6
  <2>2. IsShape(Shape(p, Mark, m, q), p, Mark, m, q)
    BY <1>2, ShapeIs
  <2>3. PICK text \in Seq(Nat) : text = Shape(p, Mark, m, q)
    BY <2>2 DEF IsShape
  <2>4. Size(Bound(text, limit)) <= limit /\ Size(Bound(text, limit)) \in Nat
    BY BoundFits
  <2>5. Abridged(Bound(Shape(p, Mark, total - q, q), limit), total)
    BY <1>1, <1>6, BoundAbridgesEnds
  <2> QED
    BY <1>1, <1>6, <2>1, <2>3, <2>4, <2>5
<1>7. \/ limit = 0 /\ Render(c, limit) = <<>>
      \/ limit # 0 /\ c.total <= limit /\ Render(c, limit) = Bound(Stretch(0, c.total), limit)
      \/ /\ limit # 0 /\ c.total > limit /\ limit <= Mark
         /\ Render(c, limit) = Bound(Marker, limit)
      \/ /\ limit # 0 /\ c.total > limit /\ limit > Mark
         /\ \E p, q \in Nat :
               /\ p + q <= c.total /\ p + q = limit - Mark
               /\ p + p <= limit - Mark /\ limit - Mark <= p + p + 1
               /\ Render(c, limit) = Bound(Shape(p, Mark, c.total - q, q), limit)
  BY RenderIs
<1> QED
  BY <1>3, <1>4, <1>5, <1>6, <1>7

\* What each stream may take: together no more than there is room for, and all that
\* came when there is room for all.
LEMMA LimitsShare ==
    ASSUME NEW out \in Nat, NEW err \in Nat
    PROVE  \E m, n \in Nat :
              /\ Limits(out, err) = <<m, n>> /\ m + n <= MaxOutput
              /\ out + err <= MaxOutput => out <= m /\ err <= n
<1>1. PICK most \in Nat : most = MaxOutput /\ most = Half + Half
  BY DEF OutputAssumption, MaxOutput
<1>2. Half \in Nat /\ most = Half + Half
  BY <1>1 DEF OutputAssumption
<1>3. CASE out + err <= most
  <2>1. PICK spare \in Nat : spare = most - out - err
    BY <1>3
  <2>2. PICK half \in Nat : half = spare \div 2 /\ half <= spare
    <3>1. spare \div 2 \in Nat /\ spare \div 2 <= spare
      OBVIOUS
    <3> QED
      BY <3>1
  <2>3. half <= spare
    BY <2>2
  <2>4. Limits(out, err) = IF out = 0 THEN <<0, most>>
                           ELSE IF err = 0 THEN <<most, 0>>
                           ELSE <<out + half, err + spare - half>>
    BY <1>1, <1>3, <2>1, <2>2 DEF Limits
  <2>5. CASE out = 0
    <3>1. PICK m, n \in Nat : m = 0 /\ n = most
      BY <1>3, <2>5
    <3>2. Limits(out, err) = <<m, n>>
      BY <2>4, <2>5, <3>1
    <3>3. m + n <= most /\ (out + err <= most => out <= m /\ err <= n)
      BY <1>3, <2>5, <3>1
    <3> QED
      BY <1>1, <3>2, <3>3
  <2>6. CASE out # 0 /\ err = 0
    <3>1. PICK m, n \in Nat : m = most /\ n = 0
      BY <1>3, <2>6
    <3>2. Limits(out, err) = <<m, n>>
      BY <2>4, <2>6, <3>1
    <3>3. m + n <= most /\ (out + err <= most => out <= m /\ err <= n)
      BY <1>3, <2>6, <3>1
    <3> QED
      BY <1>1, <3>2, <3>3
  <2>7. CASE out # 0 /\ err # 0
    <3>1. PICK m, n \in Nat : m = out + half /\ n = err + spare - half
      BY <1>3, <2>1, <2>3, <2>7
    <3>2. Limits(out, err) = <<m, n>>
      BY <2>4, <2>7, <3>1
    <3>3. m + n <= most /\ (out + err <= most => out <= m /\ err <= n)
      BY <1>3, <2>1, <2>3, <2>7, <3>1
    <3> QED
      BY <1>1, <3>2, <3>3
  <2> QED
    BY <2>5, <2>6, <2>7
<1>4. CASE ~ (out + err <= most)
  <2>1. Limits(out, err) = IF out <= Half THEN <<out, most - out>>
                           ELSE IF err <= Half THEN <<most - err, err>>
                           ELSE <<Half, Half>>
    BY <1>1, <1>4 DEF Limits
  <2>2. CASE out <= Half
    <3>1. PICK m, n \in Nat : m = out /\ n = most - out
      <4>1. most - out \in Nat
        BY <1>2, <2>2
      <4> QED
        BY <4>1
    <3>2. Limits(out, err) = <<m, n>>
      BY <2>1, <2>2, <3>1
    <3>3. m + n <= most /\ (out + err <= most => out <= m /\ err <= n)
      BY <1>2, <1>4, <2>2, <3>1
    <3> QED
      BY <1>1, <3>2, <3>3
  <2>3. CASE ~ (out <= Half) /\ err <= Half
    <3>1. PICK m, n \in Nat : m = most - err /\ n = err
      <4>1. most - err \in Nat
        BY <1>2, <2>3
      <4> QED
        BY <4>1
    <3>2. Limits(out, err) = <<m, n>>
      BY <2>1, <2>3, <3>1
    <3>3. m + n <= most /\ (out + err <= most => out <= m /\ err <= n)
      BY <1>2, <1>4, <2>3, <3>1
    <3> QED
      BY <1>1, <3>2, <3>3
  <2>4. CASE ~ (out <= Half) /\ ~ (err <= Half)
    <3>1. PICK m, n \in Nat : m = Half /\ n = Half
      BY <1>2, <1>4, <2>4
    <3>2. Limits(out, err) = <<m, n>>
      BY <2>1, <2>4, <3>1
    <3>3. m + n <= most /\ (out + err <= most => out <= m /\ err <= n)
      BY <1>2, <1>4, <2>4, <3>1
    <3> QED
      BY <1>1, <3>2, <3>3
  <2> QED
    BY <2>2, <2>3, <2>4
<1> QED
  BY <1>3, <1>4

----------------------------------------------------------------------------

CapturesKept ==
    /\ capture = [s \in Stream |-> capture[s]]
    /\ \A s \in Stream : Held(capture[s])
    /\ bad \in SUBSET (1 .. MaxStream)

LEMMA CapturesBegin == OutputInit => CapturesKept
<1> SUFFICES ASSUME OutputInit PROVE CapturesKept
  OBVIOUS
<1>1. AtMost(0, Half) = 0 /\ Tailing(0) = 0
  BY TailingIs DEF OutputAssumption, AtMost
<1>2. Stretch(0, 0) = <<>>
  BY NoneIs
<1>3. Held(Empty)
  BY <1>1, <1>2 DEF Held, Empty
<1> QED
  BY <1>3 DEF OutputInit, CapturesKept

LEMMA CapturesStay == CapturesKept /\ [OutputNext]_outputVars => CapturesKept'
<1> SUFFICES ASSUME CapturesKept, [OutputNext]_outputVars PROVE CapturesKept'
  OBVIOUS
<1>1. CASE UNCHANGED outputVars
  BY <1>1 DEF outputVars, CapturesKept, Held
<1>2. ASSUME NEW s \in Stream, Reads(s) PROVE CapturesKept'
  <2>1. Held(capture[s])
    BY DEF CapturesKept
  <2>2. PICK n \in 1 .. AtMost(MaxChunk, MaxStream - capture[s].total) :
           capture' = [capture EXCEPT ![s] = Push(@, Stretch(@.total, n))]
    BY <1>2 DEF Reads
  <2>3. n \in Nat
    OBVIOUS
  <2>4. PICK after : after = Push(capture[s], Stretch(capture[s].total, n))
    OBVIOUS
  <2>5. Held(after)
    BY <2>1, <2>3, <2>4, PushKeeps
  <2>6. capture' = [r \in Stream |-> IF r = s THEN after ELSE capture[r]]
    BY <2>2, <2>4 DEF CapturesKept
  <2>7. \A r \in Stream : capture'[r] = after \/ capture'[r] = capture[r]
    BY <2>6
  <2>8. capture' = [r \in Stream |-> capture'[r]]
    BY <2>6
  <2>9. \A c : Held(c) => Held(c)'
    BY DEF Held
  <2>10. \A r \in Stream : Held(capture'[r])
    BY <2>5, <2>7 DEF CapturesKept
  <2>11. bad' \in SUBSET (1 .. MaxStream)
    BY <1>2 DEF Reads, CapturesKept
  <2> QED
    BY <2>8, <2>10, <2>11 DEF CapturesKept, Held
<1> QED
  BY <1>1, <1>2 DEF OutputNext

LEMMA CapturesShow == CapturesKept => OutputKept
<1> SUFFICES ASSUME CapturesKept PROVE OutputKept
  OBVIOUS
<1>1. PICK c, d : c = capture["stdout"] /\ d = capture["stderr"] /\ Held(c) /\ Held(d)
  BY DEF CapturesKept, Stream
<1>2. 0 \notin bad
  BY DEF CapturesKept, OutputAssumption
<1>3. PICK out, err \in Nat : out = c.total /\ err = d.total
  BY <1>1 DEF Held
<1>4. PICK m, n \in Nat :
         /\ Limits(out, err) = <<m, n>> /\ m + n <= MaxOutput
         /\ out + err <= MaxOutput => out <= m /\ err <= n
  BY LimitsShare
<1>5. m <= MaxOutput /\ n <= MaxOutput /\ MaxOutput \in Nat
  BY <1>4 DEF MaxOutput, OutputAssumption
<1>6. PICK x, y : x = Render(c, m) /\ y = Render(d, n)
  OBVIOUS
<1>7. /\ Size(x) \in Nat /\ Size(x) <= m /\ Abridged(x, out)
      /\ bad = {} /\ out <= m => x = Stretch(0, out)
  BY <1>1, <1>2, <1>3, <1>5, <1>6, RenderKeeps
<1>8. /\ Size(y) \in Nat /\ Size(y) <= n /\ Abridged(y, err)
      /\ bad = {} /\ err <= n => y = Stretch(0, err)
  BY <1>1, <1>2, <1>3, <1>5, <1>6, RenderKeeps
<1>9. Rendered = <<x, y>>
  BY <1>1, <1>3, <1>4, <1>6 DEF Rendered
<1>10. Size(x) + Size(y) <= MaxOutput
  BY <1>4, <1>5, <1>7, <1>8
<1>11. bad = {} /\ out + err <= MaxOutput => <<x, y>> = <<Stretch(0, out), Stretch(0, err)>>
  BY <1>4, <1>7, <1>8
<1> QED
  BY <1>1, <1>3, <1>7, <1>8, <1>9, <1>10, <1>11 DEF OutputKept

\* What the agent is shown of a command is never more than the limit, also when bytes
\* grow in the rendering, and of each stream it is a beginning and an end with the
\* elision between, all of it when it is text that fits: for every size of the
\* output, of the marker and of the reads.
THEOREM OutputIsKept == OutputSpec => []OutputKept
<1>1. OutputSpec => []CapturesKept
  BY CapturesBegin, CapturesStay, PTL DEF OutputSpec
<1> QED
  BY <1>1, CapturesShow, PTL
=============================================================================

---------------------------- MODULE TaskIdProofs ----------------------------
(***************************************************************************)
(* Proofs about the task-id format of generate_task_id (TaskIdFormat): the *)
(* two "-" separators of format!("{:}-{:}-{:}") make distinct contexts     *)
(* give distinct ids, given decimal notation.                              *)
(***************************************************************************)
EXTENDS TaskIdFormat, SequenceTheorems, TLAPS

\* Distinct (block, extrinsic index, event count) triples give distinct ids.
TaskIdInjective ==
    \A b1, x1, e1, b2, x2, e2 \in Nat :
        GenerateTaskId(b1, x1, e1) = GenerateTaskId(b2, x2, e2) =>
            b1 = b2 /\ x1 = x2 /\ e1 = e2

DigitChars == {"0", "1", "2", "3", "4", "5", "6", "7", "8", "9"}

\* The characters of a task id: digits and the "-" separator.
IdChars == DigitChars \cup {"-"}

\* Decimal notation: "{:}" writes every number with digit characters only,
\* and different numbers differently.
DecimalNotation ==
    /\ \A n \in Nat : DecimalDigits[n] \in Seq(DigitChars)
    /\ \A m, n \in Nat : DecimalDigits[m] = DecimalDigits[n] => m = n

(***************************************************************************)
(* The facts below about words over a set of characters are stated as     *)
(* predicates of the sets, and about words joined by a separator through  *)
(* the operators Join2 and Join3, so that a use instantiates the sets and  *)
(* the fields and nothing else.                                           *)
(***************************************************************************)
\* A word, a separator, and a word.
Join2(s, sep, r) == (s \o <<sep>>) \o r

\* Three words joined by two separators, as format!("{:}-{:}-{:}") joins
\* the three numbers.
Join3(p, q, r, sep) == (((p \o <<sep>>) \o q) \o <<sep>>) \o r

\* Concatenation of words over T is associative.
ConcatAssociativeOn(T) ==
    \A s, t, u \in Seq(T) : (s \o t) \o u = s \o (t \o u)

\* A word over S, a separator, and a word over T can be split again.
SplitsAt(S, T, sep) ==
    \A s1, s2 \in Seq(S), r1, r2 \in Seq(T) :
        Join2(s1, sep, r1) = Join2(s2, sep, r2) => s1 = s2 /\ r1 = r2

\* Three fields joined by two separators are the first field, a separator,
\* and a word over T.
RegroupsAt(S, T, sep) ==
    \A p, q, r \in Seq(S) :
        /\ Join3(p, q, r, sep) = Join2(p, sep, Join2(q, sep, r))
        /\ Join2(q, sep, r) \in Seq(T)

\* Three fields joined by two separators determine the fields.
FieldsSplitAt(S, T, sep) ==
    \A p1, q1, r1, p2, q2, r2 \in Seq(S) :
        Join3(p1, q1, r1, sep) = Join3(p2, q2, r2, sep) =>
            p1 = p2 /\ q1 = q2 /\ r1 = r2

\* Concatenation is associative.
LEMMA ConcatAssoc ==
    ASSUME NEW E PROVE ConcatAssociativeOn(E)
BY ConcatAssociative DEF ConcatAssociativeOn

\* Equal words that start with the same word end with the same word.
LEMMA ConcatCancelLeft ==
    ASSUME NEW E, NEW s \in Seq(E), NEW t \in Seq(E), NEW v \in Seq(E),
           s \o t = s \o v
    PROVE  t = v
BY ConcatSimplifications

\* Equal words that end with the same word start with the same word.
LEMMA ConcatCancelRight ==
    ASSUME NEW E, NEW s \in Seq(E), NEW t \in Seq(E), NEW v \in Seq(E),
           s \o v = t \o v
    PROVE  s = t
BY ConcatSimplifications

\* A word over S followed by a separator outside S is determined by the
\* sequence it starts, and so is what follows the separator.
LEMMA SplitAtSeparator ==
    ASSUME NEW S, NEW T, NEW sep, sep \notin S, S \subseteq T, sep \in T
    PROVE  SplitsAt(S, T, sep)
<1> SUFFICES ASSUME NEW s1 \in Seq(S), NEW s2 \in Seq(S),
                    NEW r1 \in Seq(T), NEW r2 \in Seq(T),
                    (s1 \o <<sep>>) \o r1 = (s2 \o <<sep>>) \o r2
             PROVE  s1 = s2 /\ r1 = r2
  BY DEF SplitsAt, Join2
<1> DEFINE u1 == s1 \o <<sep>>
           u2 == s2 \o <<sep>>
<1>1. s1 \in Seq(T) /\ s2 \in Seq(T) /\ <<sep>> \in Seq(T)
  BY SeqMonotonic
<1>2. /\ u1 \in Seq(T) /\ Len(u1) = Len(s1) + 1
      /\ \A i \in 1..Len(s1) : u1[i] = s1[i]
      /\ u1[Len(s1) + 1] = sep
      /\ u2 \in Seq(T) /\ Len(u2) = Len(s2) + 1
      /\ \A i \in 1..Len(s2) : u2[i] = s2[i]
      /\ u2[Len(s2) + 1] = sep
  BY <1>1, ConcatProperties
<1>3. /\ \A i \in 1..Len(u1) : (u1 \o r1)[i] = u1[i]
      /\ \A i \in 1..Len(u2) : (u2 \o r2)[i] = u2[i]
  BY <1>2, ConcatProperties
<1>4. Len(s1) = Len(s2)
  <2>1. ~(Len(s1) < Len(s2))
    <3> SUFFICES ASSUME Len(s1) < Len(s2) PROVE FALSE
      OBVIOUS
    <3>1. Len(s1) + 1 \in 1..Len(s2)
      OBVIOUS
    <3>2. s2[Len(s1) + 1] \in S
      BY <3>1
    <3>3. (u1 \o r1)[Len(s1) + 1] = sep /\ (u2 \o r2)[Len(s1) + 1] = s2[Len(s1) + 1]
      BY <1>2, <1>3, <3>1
    <3> QED
      BY <3>2, <3>3
  <2>2. ~(Len(s2) < Len(s1))
    <3> SUFFICES ASSUME Len(s2) < Len(s1) PROVE FALSE
      OBVIOUS
    <3>1. Len(s2) + 1 \in 1..Len(s1)
      OBVIOUS
    <3>2. s1[Len(s2) + 1] \in S
      BY <3>1
    <3>3. (u2 \o r2)[Len(s2) + 1] = sep /\ (u1 \o r1)[Len(s2) + 1] = s1[Len(s2) + 1]
      BY <1>2, <1>3, <3>1
    <3> QED
      BY <3>2, <3>3
  <2> QED
    BY <2>1, <2>2
<1>5. u1 = u2
  <2>1. \A i \in 1..Len(u1) : u1[i] = u2[i]
    BY <1>2, <1>3, <1>4
  <2>2. Len(u1) = Len(u2)
    BY <1>2, <1>4
  <2> QED
    BY <1>2, <2>1, <2>2, SeqEqual, SMTT(30)
<1>6. r1 = r2
  BY <1>2, <1>5, ConcatCancelLeft
<1>7. s1 = s2
  BY <1>1, <1>5, ConcatCancelRight
<1> QED
  BY <1>6, <1>7

\* Three fields joined by two separators regroup as the first field, a
\* separator, and the rest.
LEMMA ThreeFieldRegroup ==
    ASSUME NEW S, NEW T, NEW sep, S \subseteq T, sep \in T
    PROVE  RegroupsAt(S, T, sep)
<1> SUFFICES ASSUME NEW p \in Seq(S), NEW q \in Seq(S), NEW r \in Seq(S)
             PROVE  /\ (((p \o <<sep>>) \o q) \o <<sep>>) \o r
                           = (p \o <<sep>>) \o ((q \o <<sep>>) \o r)
                    /\ (q \o <<sep>>) \o r \in Seq(T)
  BY DEF RegroupsAt, Join2, Join3
<1> DEFINE sp == <<sep>>
           a == p \o sp
           b == q \o sp
<1>1. ConcatAssociativeOn(T)
  BY ConcatAssoc
<1>2. p \in Seq(T) /\ q \in Seq(T) /\ r \in Seq(T)
  BY SeqMonotonic
<1>3. sp \in Seq(T) /\ a \in Seq(T) /\ b \in Seq(T) /\ b = q \o sp
  BY <1>2 DEF sp, a, b
<1>4. (a \o q) \o sp = a \o b
  BY <1>1, <1>2, <1>3, ZenonT(90) DEF ConcatAssociativeOn
<1>5. (a \o b) \o r = a \o (b \o r)
  BY <1>1, <1>2, <1>3, ZenonT(90) DEF ConcatAssociativeOn
<1>6. ((a \o q) \o sp) \o r = a \o (b \o r)
  BY <1>4, <1>5, Zenon
<1>7. b \o r \in Seq(T)
  BY <1>2, <1>3
<1> QED
  BY <1>6, <1>7, SMTT(30) DEF sp, a, b

\* Two words of three fields over S, joined by a separator outside S, are
\* equal only field by field.
LEMMA ThreeFieldSplit ==
    ASSUME NEW S, NEW T, NEW sep, sep \notin S, S \subseteq T, sep \in T
    PROVE  FieldsSplitAt(S, T, sep)
<1>1. RegroupsAt(S, T, sep)
  BY ThreeFieldRegroup
<1>2. SplitsAt(S, T, sep)
  BY SplitAtSeparator
<1> SUFFICES ASSUME NEW p1 \in Seq(S), NEW q1 \in Seq(S), NEW r1 \in Seq(S),
                    NEW p2 \in Seq(S), NEW q2 \in Seq(S), NEW r2 \in Seq(S)
             PROVE  Join3(p1, q1, r1, sep) = Join3(p2, q2, r2, sep) =>
                        p1 = p2 /\ q1 = q2 /\ r1 = r2
  BY DEF FieldsSplitAt
<1>3. Join3(p1, q1, r1, sep) = Join2(p1, sep, Join2(q1, sep, r1))
      /\ Join2(q1, sep, r1) \in Seq(T)
  BY <1>1 DEF RegroupsAt
<1>4. Join3(p2, q2, r2, sep) = Join2(p2, sep, Join2(q2, sep, r2))
      /\ Join2(q2, sep, r2) \in Seq(T)
  BY <1>1 DEF RegroupsAt
<1>5. PICK w1 \in Seq(T) : w1 = Join2(q1, sep, r1)
  BY <1>3
<1>6. PICK w2 \in Seq(T) : w2 = Join2(q2, sep, r2)
  BY <1>4
<1>7. Join2(p1, sep, w1) = Join2(p2, sep, w2) => p1 = p2 /\ w1 = w2
  BY <1>2 DEF SplitsAt
<1>8. r1 \in Seq(T) /\ r2 \in Seq(T)
  BY SeqMonotonic
<1>9. Join2(q1, sep, r1) = Join2(q2, sep, r2) => q1 = q2 /\ r1 = r2
  BY <1>2, <1>8 DEF SplitsAt
<1> QED
  BY <1>3, <1>4, <1>5, <1>6, <1>7, <1>9

\* Distinct contexts give distinct task ids, given decimal notation: the
\* two "-" separators of format!("{:}-{:}-{:}") make the fields readable.
LEMMA TaskIdInjectiveFromDecimal ==
    ASSUME DecimalNotation PROVE TaskIdInjective
<1> SUFFICES ASSUME NEW b1 \in Nat, NEW x1 \in Nat, NEW e1 \in Nat,
                    NEW b2 \in Nat, NEW x2 \in Nat, NEW e2 \in Nat,
                    GenerateTaskId(b1, x1, e1) = GenerateTaskId(b2, x2, e2)
             PROVE  b1 = b2 /\ x1 = x2 /\ e1 = e2
  BY DEF TaskIdInjective
<1>1. "-" \notin DigitChars /\ DigitChars \subseteq IdChars /\ "-" \in IdChars
  BY DEF DigitChars, IdChars
<1>2. /\ \A n \in Nat : DecimalDigits[n] \in Seq(DigitChars)
      /\ \A m, n \in Nat : DecimalDigits[m] = DecimalDigits[n] => m = n
  BY DEF DecimalNotation
<1>3. PICK B1 \in Seq(DigitChars) : B1 = DecimalDigits[b1]
  BY <1>2
<1>4. PICK X1 \in Seq(DigitChars) : X1 = DecimalDigits[x1]
  BY <1>2
<1>5. PICK E1 \in Seq(DigitChars) : E1 = DecimalDigits[e1]
  BY <1>2
<1>6. PICK B2 \in Seq(DigitChars) : B2 = DecimalDigits[b2]
  BY <1>2
<1>7. PICK X2 \in Seq(DigitChars) : X2 = DecimalDigits[x2]
  BY <1>2
<1>8. PICK E2 \in Seq(DigitChars) : E2 = DecimalDigits[e2]
  BY <1>2
<1>9. /\ GenerateTaskId(b1, x1, e1) = Join3(B1, X1, E1, "-")
      /\ GenerateTaskId(b2, x2, e2) = Join3(B2, X2, E2, "-")
  BY <1>3, <1>4, <1>5, <1>6, <1>7, <1>8 DEF GenerateTaskId, Join3
<1>10. FieldsSplitAt(DigitChars, IdChars, "-")
  BY <1>1, ThreeFieldSplit
<1>11. Join3(B1, X1, E1, "-") = Join3(B2, X2, E2, "-") =>
           B1 = B2 /\ X1 = X2 /\ E1 = E2
  BY <1>10, SMTT(30) DEF FieldsSplitAt
<1>12. B1 = B2 /\ X1 = X2 /\ E1 = E2
  BY <1>9, <1>11, Zenon
<1> QED
  BY <1>2, <1>3, <1>4, <1>5, <1>6, <1>7, <1>8, <1>12, Zenon

\* Injectivity applied to two given contexts: equal ids come from equal
\* block numbers, extrinsic indices and event counts.
LEMMA SameIdSameContext ==
    ASSUME TaskIdInjective,
           NEW b1 \in Nat, NEW x1 \in Nat, NEW e1 \in Nat,
           NEW b2 \in Nat, NEW x2 \in Nat, NEW e2 \in Nat,
           GenerateTaskId(b1, x1, e1) = GenerateTaskId(b2, x2, e2)
    PROVE  b1 = b2 /\ x1 = x2 /\ e1 = e2
BY DEF TaskIdInjective

=============================================================================

--------------------------- MODULE PreflightProofs ---------------------------
(***************************************************************************)
(* What a preflight run promises for every set of subjects and any number  *)
(* of changes: a report names every check once and in order, a pass rests  *)
(* on one reply that showed everything fit and on a website request made   *)
(* after it, nothing is contacted before its turn, and the exit status     *)
(* tells how far the run got.                                              *)
(*                                                                         *)
(* Until it is done, the run has as its report a prefix of passed checks   *)
(* that ends before the check being made (ChecksInv), and its contacts     *)
(* are those of the checks before it (ContactsInv).                        *)
(***************************************************************************)
EXTENDS Preflight, TargetHelperProofs, SequenceTheorems, TLAPS

USE HelperConstants DEF HelperConstants

-----------------------------------------------------------------------------
(* The check names and the sequences made of them *)

LEMMA NamesListed ==
  Names = { "configuration", "openssh_client", "ssh_files", "helper_version",
            "target_identity", "helper_preflight", "apache", "root_space", "memory",
            "load", "website" }
  BY DEF Names, CheckNames

LEMMA NamesCounted == Len(CheckNames) = 11 /\ DOMAIN CheckNames = 1..11
  BY DEF CheckNames

LEMMA NamesAreDistinct ==
  \A i, j \in 1..11 : CheckNames[i] = CheckNames[j] => i = j
  BY DEF CheckNames

\* Index inverts CheckNames.
LEMMA IndexInverts ==
  ASSUME NEW i \in 1..11 PROVE Index(CheckNames[i]) = i
  BY NamesCounted, NamesAreDistinct DEF Index

LEMMA Indices ==
  /\ Index("configuration") = 1 /\ Index("openssh_client") = 2 /\ Index("ssh_files") = 3
  /\ Index("helper_version") = 4 /\ Index("target_identity") = 5
  /\ Index("helper_preflight") = 6 /\ Index("apache") = 7 /\ Index("root_space") = 8
  /\ Index("memory") = 9 /\ Index("load") = 10 /\ Index("website") = 11
<1>1. /\ CheckNames[1] = "configuration" /\ CheckNames[2] = "openssh_client"
      /\ CheckNames[3] = "ssh_files" /\ CheckNames[4] = "helper_version"
      /\ CheckNames[5] = "target_identity" /\ CheckNames[6] = "helper_preflight"
      /\ CheckNames[7] = "apache" /\ CheckNames[8] = "root_space"
      /\ CheckNames[9] = "memory" /\ CheckNames[10] = "load" /\ CheckNames[11] = "website"
  BY DEF CheckNames
<1>2. \A i \in 1..11 : Index(CheckNames[i]) = i
  BY IndexInverts
<1> QED
  BY <1>1, <1>2

Check == [name : Names, status : {"pass", "fail", "skip"}]

Passed(n) == Entries(1, n, "pass")

\* A report whose check k failed; that of a pass is Final(12).
Final(k) ==
    [i \in 1..11 |-> [name |-> CheckNames[i],
                      status |-> IF i < k THEN "pass" ELSE IF i = k THEN "fail" ELSE "skip"]]

LEMMA FunctionIsSeq ==
  ASSUME NEW S, NEW n \in Nat, NEW f \in [1..n -> S]
  PROVE  f \in Seq(S) /\ Len(f) = n
<1>1. f \in Seq(S)
  OBVIOUS
<1>2. DOMAIN f = 1..n
  OBVIOUS
<1> QED
  BY <1>1, <1>2, LenProperties

\* Element i of the entries from "first" on is about check first + i - 1.
LEMMA EntriesTyped ==
  ASSUME NEW first \in 1..12, NEW last \in 0..11, first <= last + 1,
         NEW status \in {"pass", "fail", "skip"}
  PROVE  /\ Entries(first, last, status) \in Seq(Check)
         /\ Len(Entries(first, last, status)) = last - first + 1
         /\ \A i \in 1..(last - first + 1) :
               Entries(first, last, status)[i]
                 = [name |-> CheckNames[first + i - 1], status |-> status]
<1> DEFINE n == last - first + 1
           s == Entries(first, last, status)
<1>1. n \in Nat
  OBVIOUS
<1>2. \A i \in 1..n : first + i - 1 \in 1..11
  OBVIOUS
<1>3. \A i \in 1..n : [name |-> CheckNames[first + i - 1], status |-> status] \in Check
  BY <1>2 DEF Check, Names
<1>4. s = [i \in 1..n |-> [name |-> CheckNames[first + i - 1], status |-> status]]
  BY DEF Entries
<1>5. s \in [1..n -> Check]
  BY <1>3, <1>4
<1>6. \A i \in 1..n : s[i] = [name |-> CheckNames[first + i - 1], status |-> status]
  BY <1>4
<1>7. s \in Seq(Check) /\ Len(s) = n
  <2> HIDE DEF n, s
  <2> QED
    BY <1>1, <1>5, FunctionIsSeq
<1> QED
  BY <1>6, <1>7

LEMMA PassedTyped ==
  ASSUME NEW n \in 0..11
  PROVE  /\ Passed(n) \in Seq(Check) /\ Len(Passed(n)) = n
         /\ \A i \in 1..n : Passed(n)[i] = [name |-> CheckNames[i], status |-> "pass"]
<1>1. n - 1 + 1 = n /\ 1 <= n + 1 /\ 1 \in 1..12
  OBVIOUS
<1>2. /\ Entries(1, n, "pass") \in Seq(Check) /\ Len(Entries(1, n, "pass")) = n
      /\ \A i \in 1..n : Entries(1, n, "pass")[i] = [name |-> CheckNames[1 + i - 1],
                                                        status |-> "pass"]
  BY <1>1, EntriesTyped
<1>3. \A i \in 1..n : 1 + i - 1 = i
  OBVIOUS
<1> QED
  BY <1>2, <1>3 DEF Passed

LEMMA Concatenated ==
  ASSUME NEW s \in Seq(Check), NEW t \in Seq(Check), NEW m, NEW n,
         Len(s) = m, m + Len(t) = n
  PROVE  /\ s \o t \in Seq(Check) /\ Len(s \o t) = n
         /\ \A i \in 1..n : (s \o t)[i] = IF i <= m THEN s[i] ELSE t[i - m]
<1>1. /\ s \o t \in Seq(Check)
      /\ Len(s \o t) = Len(s) + Len(t)
      /\ \A i \in 1..(Len(s) + Len(t)) :
            (s \o t)[i] = IF i <= Len(s) THEN s[i] ELSE t[i - Len(s)]
  BY ConcatProperties
<1> QED
  BY <1>1

LEMMA PassedGrows ==
  ASSUME NEW a \in 0..11, NEW b \in 0..11, a <= b
  PROVE  Passed(a) \o Entries(a + 1, b, "pass") = Passed(b)
<1> DEFINE s == Passed(a)
           t == Entries(a + 1, b, "pass")
           u == Passed(b)
<1>1. /\ s \in Seq(Check) /\ Len(s) = a
      /\ \A i \in 1..a : s[i] = [name |-> CheckNames[i], status |-> "pass"]
  BY PassedTyped
<1>2. /\ u \in Seq(Check) /\ Len(u) = b
      /\ \A i \in 1..b : u[i] = [name |-> CheckNames[i], status |-> "pass"]
  BY PassedTyped
<1>3. /\ t \in Seq(Check) /\ Len(t) = b - a
      /\ \A i \in 1..(b - a) : t[i] = [name |-> CheckNames[a + 1 + i - 1], status |-> "pass"]
  <2>1. a + 1 \in 1..12 /\ a + 1 <= b + 1 /\ b - (a + 1) + 1 = b - a
    OBVIOUS
  <2> QED
    BY <2>1, EntriesTyped
<1> HIDE DEF s, t, u
<1>4. /\ s \o t \in Seq(Check) /\ Len(s \o t) = b
      /\ \A i \in 1..b : (s \o t)[i] = IF i <= a THEN s[i] ELSE t[i - a]
  <2>1. a + (b - a) = b
    OBVIOUS
  <2> QED
    BY <1>1, <1>3, <2>1, Concatenated
<1>5. ASSUME NEW i \in 1..b PROVE (s \o t)[i] = u[i]
  <2>1. CASE i <= a
    <3>1. i \in 1..a
      BY <2>1
    <3> QED
      BY <1>1, <1>2, <1>4, <2>1, <3>1
  <2>2. CASE i > a
    <3>1. i - a \in 1..(b - a) /\ a + 1 + (i - a) - 1 = i /\ ~(i <= a)
      BY <2>2
    <3>2. t[i - a] = [name |-> CheckNames[i], status |-> "pass"]
      BY <1>3, <3>1
    <3> QED
      BY <1>2, <1>4, <3>1, <3>2
  <2>3. i <= a \/ i > a
    OBVIOUS
  <2> QED
    BY <2>1, <2>2, <2>3
<1>6. s \o t = u
  BY <1>2, <1>4, <1>5, SeqEqual
<1> QED
  BY <1>6 DEF s, t, u

\* The report of a run that passed everything before k and failed k.
LEMMA FinalComposed ==
  ASSUME NEW k \in 1..11
  PROVE  Passed(k - 1) \o Entries(k, k, "fail") \o Entries(k + 1, 11, "skip") = Final(k)
<1> DEFINE s == Passed(k - 1)
           t == Entries(k, k, "fail")
           u == Entries(k + 1, 11, "skip")
           v == Final(k)
<1>1. /\ s \in Seq(Check) /\ Len(s) = k - 1
      /\ \A i \in 1..(k - 1) : s[i] = [name |-> CheckNames[i], status |-> "pass"]
  <2>1. k - 1 \in 0..11
    OBVIOUS
  <2> QED
    BY <2>1, PassedTyped
<1>2. /\ t \in Seq(Check) /\ Len(t) = 1
      /\ t[1] = [name |-> CheckNames[k], status |-> "fail"]
  <2>1. k \in 1..12 /\ k \in 0..11 /\ k <= k + 1 /\ k - k + 1 = 1
        /\ k + 1 - 1 = k /\ 1 \in 1..1
    OBVIOUS
  <2>2. /\ t \in Seq(Check) /\ Len(t) = 1
        /\ \A i \in 1..1 : t[i] = [name |-> CheckNames[k + i - 1], status |-> "fail"]
    BY <2>1, EntriesTyped
  <2> HIDE DEF t
  <2> QED
    BY <2>1, <2>2
<1>3. /\ u \in Seq(Check) /\ Len(u) = 11 - k
      /\ \A i \in 1..(11 - k) : u[i] = [name |-> CheckNames[k + 1 + i - 1], status |-> "skip"]
  <2>1. k + 1 \in 1..12 /\ 11 \in 0..11 /\ k + 1 <= 11 + 1 /\ 11 - (k + 1) + 1 = 11 - k
    OBVIOUS
  <2> QED
    BY <2>1, EntriesTyped
<1>4. \A i \in 1..11 : v[i] = [name |-> CheckNames[i],
             status |-> IF i < k THEN "pass" ELSE IF i = k THEN "fail" ELSE "skip"]
  BY DEF Final
<1>5. v \in Seq(Check) /\ Len(v) = 11
  <2>1. \A i \in 1..11 : v[i] \in Check
    BY <1>4 DEF Check, Names
  <2>2. v \in [1..11 -> Check]
    BY <2>1 DEF Final
  <2> HIDE DEF v
  <2> QED
    BY <2>2, FunctionIsSeq
<1> HIDE DEF s, t, u, v
<1>6. /\ s \o t \in Seq(Check) /\ Len(s \o t) = k
      /\ \A i \in 1..k : (s \o t)[i] = IF i <= k - 1 THEN s[i] ELSE t[i - (k - 1)]
  <2>1. s \in Seq(Check) /\ t \in Seq(Check) /\ Len(s) = k - 1 /\ k - 1 + Len(t) = k
    BY <1>1, <1>2
  <2> QED
    BY <2>1, Concatenated
<1> DEFINE st == s \o t
<1> HIDE DEF st
<1>7. /\ st \o u \in Seq(Check) /\ Len(st \o u) = 11
      /\ \A i \in 1..11 : (st \o u)[i] = IF i <= k THEN st[i] ELSE u[i - k]
  <2>1. st \in Seq(Check) /\ u \in Seq(Check) /\ Len(st) = k /\ k + Len(u) = 11
    BY <1>3, <1>6 DEF st
  <2>2. /\ st \o u \in Seq(Check) /\ Len(st \o u) = Len(st) + Len(u)
        /\ \A i \in 1..(Len(st) + Len(u)) :
              (st \o u)[i] = IF i <= Len(st) THEN st[i] ELSE u[i - Len(st)]
    BY <2>1, ConcatProperties
  <2> QED
    BY <2>1, <2>2
<1>8. ASSUME NEW i \in 1..11 PROVE (st \o u)[i] = v[i]
  <2>1. CASE i < k
    <3>1. i \in 1..k /\ i <= k - 1 /\ i \in 1..(k - 1) /\ i <= k
      BY <2>1
    <3>2. st[i] = s[i]
      BY <1>6, <3>1 DEF st
    <3> QED
      BY <1>1, <1>4, <1>7, <2>1, <3>1, <3>2
  <2>2. CASE i = k
    <3>1. i - (k - 1) = 1 /\ i \in 1..k /\ ~(i <= k - 1) /\ i <= k /\ ~(i < k)
      BY <2>2
    <3>2. st[i] = t[1]
      BY <1>6, <3>1 DEF st
    <3> QED
      BY <1>2, <1>4, <1>7, <2>2, <3>1, <3>2
  <2>3. CASE i > k
    <3>1. i - k \in 1..(11 - k) /\ k + 1 + (i - k) - 1 = i /\ ~(i <= k) /\ ~(i < k) /\ i # k
      BY <2>3
    <3>2. u[i - k] = [name |-> CheckNames[i], status |-> "skip"]
      BY <1>3, <3>1
    <3> QED
      BY <1>4, <1>7, <3>1, <3>2
  <2>4. i < k \/ i = k \/ i > k
    OBVIOUS
  <2> QED
    BY <2>1, <2>2, <2>3, <2>4
<1>9. st \o u = v
  BY <1>5, <1>7, <1>8, SeqEqual
<1> QED
  BY <1>9 DEF st, s, t, u, v
-----------------------------------------------------------------------------
(* Types *)

\* The other conjuncts of PreflightTypeOK.
OwnTypes ==
    /\ at \in Names \cup {"start", "done"}
    /\ checks \in Seq(Check)
    /\ facts \subseteq Findings
    /\ contacts \in Seq(Remote \cup {"website"})
    /\ outcome \in {"none", "pass", "refused", "error", "raised", "interrupted"}
    /\ category \in Categories
    /\ clockBehind \in BOOLEAN

LEMMA PreflightTypeParts == PreflightTypeOK <=> HelperTypeOK /\ OwnTypes
  BY DEF PreflightTypeOK, OwnTypes, Check

LEMMA PreflightTypeInit == PreflightInit => PreflightTypeOK
<1> SUFFICES ASSUME PreflightInit PROVE HelperTypeOK /\ OwnTypes
  BY PreflightTypeParts
<1>1. HelperTypeOK
  BY HelperTypeInit DEF PreflightInit
<1>2. OwnTypes
  BY EmptySeq DEF PreflightInit, OwnTypes, Categories
<1> QED
  BY <1>1, <1>2

LEMMA IndexTyped ==
  ASSUME NEW name \in Names
  PROVE  Index(name) \in 1..11 /\ CheckNames[Index(name)] = name
  BY IndexInverts DEF Names

LEMMA LeastOfFour ==
  ASSUME NEW set, set # {}, set \subseteq 7..10
  PROVE  \E i \in set : \A j \in set : i =< j
<1>1. CASE 7 \in set
  BY <1>1
<1>2. CASE 7 \notin set /\ 8 \in set
  BY <1>2
<1>3. CASE 7 \notin set /\ 8 \notin set /\ 9 \in set
  BY <1>3
<1>4. CASE 7 \notin set /\ 8 \notin set /\ 9 \notin set
  <2>1. \A j \in set : j = 10
    BY <1>4
  <2>2. PICK i \in set : TRUE
    OBVIOUS
  <2>3. i =< i /\ \A j \in set : i = j
    BY <2>1, <2>2
  <2> QED
    BY <2>2, <2>3
<1> QED
  BY <1>1, <1>2, <1>3, <1>4

\* What the reply to the preflight operation is found to refuse.
LEMMA RefusalNamed ==
  ASSUME NEW reply, FirstRefusal(reply) # "none"
  PROVE  FirstRefusal(reply) \in Names /\ Index(FirstRefusal(reply)) \in 6..10
<1> DEFINE failing == {i \in DOMAIN CheckNames : i > Index("helper_preflight")
                                              /\ i < Index("website")
                                              /\ CheckNames[i] \in reply}
<1>1. CASE reply \cap {"helper", "identity"} # {}
  BY <1>1, Indices, NamesListed DEF FirstRefusal
<1>2. CASE reply \cap {"helper", "identity"} = {}
  <2>1. failing # {} /\ FirstRefusal(reply) = CheckNames[Min(failing)]
    BY <1>2 DEF FirstRefusal
  <2>2. failing \subseteq 7..10
    BY Indices, NamesCounted
  <2> HIDE DEF failing
  <2>3. \E i \in failing : \A j \in failing : i =< j
    BY <2>1, <2>2, LeastOfFour
  <2>4. Min(failing) \in 7..10
    BY <2>2, <2>3 DEF Min
  <2>5. CheckNames[Min(failing)] \in Names
    BY <2>4 DEF Names
  <2>6. Index(CheckNames[Min(failing)]) = Min(failing)
    BY <2>4, IndexInverts
  <2> QED
    BY <2>1, <2>4, <2>5, <2>6
<1> QED
  BY <1>1, <1>2

LEMMA NothingRefused ==
  ASSUME NEW reply, FirstRefusal(reply) = "none"
  PROVE  reply \cap {"helper", "identity", "apache", "root_space", "memory", "load"} = {}
<1> DEFINE failing == {i \in DOMAIN CheckNames : i > Index("helper_preflight")
                                              /\ i < Index("website")
                                              /\ CheckNames[i] \in reply}
<1>1. reply \cap {"helper", "identity"} = {}
  BY DEF FirstRefusal
<1>2. CASE failing # {}
  <2>1. failing \subseteq 7..10
    BY Indices, NamesCounted
  <2>2. FirstRefusal(reply) = CheckNames[Min(failing)]
    BY <1>1, <1>2 DEF FirstRefusal
  <2> HIDE DEF failing
  <2>3. \E i \in failing : \A j \in failing : i =< j
    BY <1>2, <2>1, LeastOfFour
  <2>4. Min(failing) \in 7..10
    BY <2>1, <2>3 DEF Min
  <2>5. CheckNames[Min(failing)] \in Names
    BY <2>4 DEF Names
  <2> QED
    BY <2>2, <2>5, NamesListed
<1>3. CASE failing = {}
  <2>1. \A i \in 7..10 : CheckNames[i] \notin reply
    BY <1>3, Indices, NamesCounted
  <2>2. /\ CheckNames[7] = "apache" /\ CheckNames[8] = "root_space"
        /\ CheckNames[9] = "memory" /\ CheckNames[10] = "load"
    BY DEF CheckNames
  <2> QED
    BY <1>1, <2>1, <2>2
<1> QED
  BY <1>2, <1>3

-----------------------------------------------------------------------------
(* The report *)

Making == at # "done" /\ at # "start"

ChecksInv ==
    /\ at = "start" => checks = <<>>
    /\ at \in Names => checks = Passed(Index(at) - 1)
    /\ at # "done" => outcome = "none"
    /\ outcome = "pass" => checks = Final(12)
    /\ outcome \in {"refused", "error"} => \E k \in 1..11 : checks = Final(k)

LEMMA Passes ==
  ASSUME NEW passed \in Names, NEW next \in Names, at \in Names, ChecksInv,
         Index(at) <= Index(passed), Index(next) = Index(passed) + 1,
         Pass(passed, next)
  PROVE  at' = next /\ checks' = Passed(Index(next) - 1) /\ outcome' = "none"
<1>1. Index(at) \in 1..11 /\ Index(passed) \in 1..11
  BY IndexTyped
<1> DEFINE a == Index(at) - 1
           b == Index(passed)
<1>2. a \in 0..11 /\ b \in 0..11 /\ a <= b /\ a + 1 = Index(at)
  BY <1>1
<1>3. at # "done"
  BY NamesListed
<1>4. checks = Passed(a) /\ outcome = "none"
  BY <1>3 DEF ChecksInv
<1>5. checks' = Passed(a) \o Entries(a + 1, b, "pass")
  BY <1>2, <1>4 DEF Pass
<1> HIDE DEF a, b
<1>6. checks' = Passed(b)
  BY <1>2, <1>5, PassedGrows
<1>7. Index(next) - 1 = b
  BY <1>1 DEF b
<1> QED
  BY <1>4, <1>6, <1>7 DEF Pass

LEMMA Fails ==
  ASSUME NEW name \in Names, NEW result, NEW why, at \in Names, ChecksInv,
         Index(at) <= Index(name), Failure(name, result, why)
  PROVE  /\ at' = "done" /\ checks' = Final(Index(name)) /\ category' = why
         /\ outcome' \in {"raised", result}
<1>1. Index(at) \in 1..11 /\ Index(name) \in 1..11
  BY IndexTyped
<1> DEFINE a == Index(at) - 1
           k == Index(name)
<1>2. a \in 0..11 /\ k \in 1..11 /\ k - 1 \in 0..11 /\ a <= k - 1 /\ a + 1 = Index(at)
  BY <1>1
<1>3. checks = Passed(a)
  BY DEF ChecksInv
<1>4. checks' = Passed(a) \o Entries(a + 1, k - 1, "pass")
                  \o Entries(k, k, "fail") \o Entries(k + 1, 11, "skip")
  BY <1>2, <1>3, NamesCounted DEF Failure
<1>5. at' = "done" /\ category' = why /\ outcome' \in {"raised", result}
  BY DEF Failure, Report, Validated
<1> HIDE DEF a, k
<1>6. Passed(a) \o Entries(a + 1, k - 1, "pass") = Passed(k - 1)
  BY <1>2, PassedGrows
<1>7. checks' = Final(k)
  BY <1>2, <1>4, <1>6, FinalComposed
<1> QED
  BY <1>5, <1>7 DEF k

LEMMA AllPassed == Passed(10) \o Entries(11, 11, "pass") = Final(12)
<1>1. Passed(10) \o Entries(11, 11, "pass") = Passed(11)
  <2>1. ASSUME NEW a \in 0..11, NEW b \in 0..11, a = 10, b = 11
        PROVE  Passed(a) \o Entries(a + 1, b, "pass") = Passed(b)
    <3>1. a <= b
      BY <2>1
    <3> QED
      BY <3>1, PassedGrows
  <2>2. 10 + 1 = 11 /\ 10 \in 0..11 /\ 11 \in 0..11
    OBVIOUS
  <2> QED
    BY <2>1, <2>2
<1>2. /\ Passed(11) \in Seq(Check) /\ Len(Passed(11)) = 11
      /\ \A i \in 1..11 : Passed(11)[i] = [name |-> CheckNames[i], status |-> "pass"]
  BY PassedTyped
<1>3. Passed(11) \in [1..11 -> Check]
  BY <1>2, LenProperties
<1>4. \A i \in 1..11 : Final(12)[i] = [name |-> CheckNames[i], status |-> "pass"]
  BY DEF Final
<1>5. Final(12) = [i \in 1..11 |-> Final(12)[i]]
  BY DEF Final
<1>6. Passed(11) = [i \in 1..11 |-> Passed(11)[i]]
  BY <1>3
<1> HIDE DEF Final, Passed
<1>7. Passed(11) = Final(12)
  BY <1>2, <1>4, <1>5, <1>6
<1> QED
  BY <1>1, <1>7

LEMMA FinalTyped ==
  ASSUME NEW k \in 1..12 PROVE Final(k) \in Seq(Check) /\ Len(Final(k)) = 11
<1>1. \A i \in 1..11 : Final(k)[i] \in Check
  BY DEF Final, Check, Names
<1>2. Final(k) \in [1..11 -> Check]
  BY <1>1 DEF Final
<1> HIDE DEF Final
<1> QED
  BY <1>2, FunctionIsSeq

-----------------------------------------------------------------------------
(* The contacts *)

Fit == {"helper", "identity", "apache", "root_space", "memory", "load"}

ContactsInv ==
    /\ at \in {"start", "openssh_client", "ssh_files"} => contacts = <<>> /\ ~InCall
    /\ at = "helper_version" =>
          contacts = IF InCall THEN <<"helper_version">> ELSE <<>>
    /\ at = "target_identity" =>
          contacts = IF InCall THEN <<"helper_version", "target_identity">>
                               ELSE <<"helper_version">>
    /\ at = "helper_preflight" =>
          contacts = IF InCall THEN <<"helper_version", "target_identity", "helper_preflight">>
                               ELSE <<"helper_version", "target_identity">>
    /\ at = "website" =>
          /\ contacts = IF InCall
                        THEN <<"helper_version", "target_identity", "helper_preflight", "website">>
                        ELSE <<"helper_version", "target_identity", "helper_preflight">>
          /\ facts \cap Fit = {}
    /\ at \notin {"configuration", "apache", "root_space", "memory", "load"}
    /\ at = "done" => ~InCall
    /\ outcome = "pass" =>
          /\ contacts = <<"helper_version", "target_identity", "helper_preflight", "website">>
          /\ facts \cap Fit = {}
    /\ outcome = "refused" => contacts # <<>>
    /\ outcome = "error" /\ category = "local_file" => contacts = <<>>

PreflightIInv == PreflightTypeOK /\ ChecksInv /\ ContactsInv

LEMMA PreflightIInvInit == PreflightInit => PreflightIInv
<1> SUFFICES ASSUME PreflightInit PROVE PreflightIInv
  OBVIOUS
<1>1. PreflightTypeOK
  BY PreflightTypeInit
<1>2. ChecksInv
  BY NamesListed DEF PreflightInit, ChecksInv
<1>3. ContactsInv
  BY DEF PreflightInit, HelperInit, ContactsInv, InCall
<1> QED
  BY <1>1, <1>2, <1>3 DEF PreflightIInv

\* A step of the run leaves the host alone, and at most starts a helper.
LEMMA RunHelperTypes ==
  ASSUME PreflightTypeOK, RunStep PROVE HelperTypeOK'
<1> USE DEF surroundings, hostVars
<1>1. HelperTypeOK
  BY PreflightTypeParts
<1>2. CASE Call
  <2>1. OperationOf[at] \in Operations
    BY <1>2 DEF Call, Remote, OperationOf, Operations
  <2>2. Serving(OperationOf[at]) \in Process
    BY <2>1, ProcessesStart
  <2>3. helper' \in [Callers -> Process]
    BY <1>1, <1>2, <2>2 DEF Call, Step, HelperTypeOK
  <2>4. waiting' \subseteq Callers
    BY <1>1, <1>2 DEF Call, HelperTypeOK, Callers
  <2> QED
    BY <1>1, <1>2, <2>3, <2>4 DEF Call, HelperTypeOK
<1>3. CASE ~Call
  <2>1. UNCHANGED <<hostVars, evidence, helper>>
    BY <1>3 DEF RunStep, Configuration, CheckClient, CheckFiles, CallFails, VersionReply,
                IdentityReply, PreflightReply, RequestSite, SiteReply, SiteFails, Interrupted
  <2>2. waiting' \in {waiting, waiting \ {"preflight"}, waiting \cup {"preflight"}}
    BY <1>3 DEF RunStep, Configuration, CheckClient, CheckFiles, CallFails, VersionReply,
                IdentityReply, PreflightReply, RequestSite, SiteReply, SiteFails, Interrupted,
                Returns, Replied
  <2> QED
    BY <1>1, <2>1, <2>2 DEF HelperTypeOK, Callers
<1> QED
  BY <1>2, <1>3

\* Nobody else ends the run's wait.
LEMMA OthersKeepTheCall ==
  ASSUME TargetStep PROVE InCall' <=> InCall
<1>1. ASSUME NEW c \in Callers, HelperStep(c) PROVE waiting' = waiting
  BY <1>1 DEF HelperStep, Serve, ReadMarker, ShowUnit, AskActive, Systemctl,
              SystemctlTimesOut, ReadResources, HelperFails
<1>2. ASSUME NEW op \in jobs, JobLands(op) PROVE waiting' = waiting
  BY <1>2 DEF JobLands
<1>3. CASE ScenarioStep
  <2>1. waiting' \in {waiting, waiting \cup {"scenario"}, waiting \ {"scenario"}}
    BY <1>3 DEF ScenarioStep, Ask, Answered, CallLost
  <2> QED
    BY <2>1 DEF InCall
<1>4. CASE HostChanges
  BY <1>4 DEF HostChanges, InCall
<1> QED
  BY <1>1, <1>2, <1>3, <1>4 DEF TargetStep, InCall

LEMMA OneLonger ==
  ASSUME NEW s \in Seq(Names), NEW t \in Seq(Names), NEW n \in Nat, NEW name \in Names,
         Len(s) = n, Len(t) = n + 1, t[n + 1] = name,
         \A i \in 1..n : t[i] = s[i]
  PROVE  Append(s, name) = t
<1> DEFINE a == Append(s, name)
<1>1. a \in Seq(Names) /\ Len(a) = n + 1 /\ a[n + 1] = name
  BY AppendProperties
<1>2. \A i \in 1..n : a[i] = s[i]
  BY AppendProperties
<1>3. \A i \in 1..Len(a) : a[i] = t[i]
  BY <1>1, <1>2
<1> HIDE DEF a
<1>4. a = t
  BY <1>1, <1>3, SeqEqual
<1> QED
  BY <1>4 DEF a

LEMMA Appended ==
  /\ Append(<<>>, "helper_version") = <<"helper_version">>
  /\ Append(<<"helper_version">>, "target_identity") = <<"helper_version", "target_identity">>
  /\ Append(<<"helper_version", "target_identity">>, "helper_preflight")
       = <<"helper_version", "target_identity", "helper_preflight">>
  /\ Append(<<"helper_version", "target_identity", "helper_preflight">>, "website")
       = <<"helper_version", "target_identity", "helper_preflight", "website">>
<1> DEFINE one == <<"helper_version">>
           two == <<"helper_version", "target_identity">>
           three == <<"helper_version", "target_identity", "helper_preflight">>
           four == <<"helper_version", "target_identity", "helper_preflight", "website">>
<1>2. Append(one, "target_identity") = two
  <2>1. one \in Seq(Names) /\ two \in Seq(Names) /\ Len(one) = 1 /\ Len(two) = 1 + 1
    BY NamesListed
  <2>2. two[1 + 1] = "target_identity" /\ "target_identity" \in Names /\ 1 \in Nat
    BY NamesListed
  <2>3. \A i \in 1..1 : two[i] = one[i]
    OBVIOUS
  <2> HIDE DEF one, two
  <2> QED
    BY <2>1, <2>2, <2>3, OneLonger
<1>3. Append(two, "helper_preflight") = three
  <2>1. two \in Seq(Names) /\ three \in Seq(Names) /\ Len(two) = 2 /\ Len(three) = 2 + 1
    BY NamesListed
  <2>2. three[2 + 1] = "helper_preflight" /\ "helper_preflight" \in Names /\ 2 \in Nat
    BY NamesListed
  <2>3. \A i \in 1..2 : three[i] = two[i]
    OBVIOUS
  <2> HIDE DEF two, three
  <2> QED
    BY <2>1, <2>2, <2>3, OneLonger
<1>4. Append(three, "website") = four
  <2>1. three \in Seq(Names) /\ four \in Seq(Names) /\ Len(three) = 3 /\ Len(four) = 3 + 1
    BY NamesListed
  <2>2. four[3 + 1] = "website" /\ "website" \in Names /\ 3 \in Nat
    BY NamesListed
  <2>3. \A i \in 1..3 : four[i] = three[i]
    OBVIOUS
  <2> HIDE DEF three, four
  <2> QED
    BY <2>1, <2>2, <2>3, OneLonger
<1> QED
  BY <1>2, <1>3, <1>4

\* One step of the run.
LEMMA RunStepInv ==
  ASSUME PreflightIInv, RunStep
  PROVE  OwnTypes' /\ ChecksInv' /\ ContactsInv'
<1>0. /\ OwnTypes /\ ChecksInv /\ ContactsInv
      /\ outcome = "none"
      /\ at # "done"
  <2>1. OwnTypes /\ ChecksInv /\ ContactsInv
    BY PreflightTypeParts DEF PreflightIInv
  <2>2. at # "done"
    BY <2>1 DEF RunStep, Configuration, CheckClient, CheckFiles, Call, CallFails,
                VersionReply, IdentityReply, PreflightReply, RequestSite, SiteReply,
                SiteFails, Interrupted, Replied, Remote, ContactsInv
  <2> QED
    BY <2>1, <2>2 DEF ChecksInv
<1>1. CASE Configuration
  <2>1. checks' = Passed(Index("openssh_client") - 1)
    BY <1>1, Indices DEF Configuration, Passed
  <2>2. Passed(1) \in Seq(Check)
    BY PassedTyped
  <2>3. OwnTypes'
    BY <1>0, <1>1, <2>1, <2>2, Indices, NamesListed DEF Configuration, OwnTypes, surroundings
  <2>4. ChecksInv'
    BY <1>0, <1>1, <2>1, NamesListed DEF Configuration, ChecksInv
  <2>5. ContactsInv'
    BY <1>0, <1>1 DEF Configuration, ContactsInv, InCall
  <2> QED
    BY <2>3, <2>4, <2>5
\* Every other step passes some checks, fails one, raises, or calls.
<1>2. ASSUME NEW passed \in Names, NEW next \in Names, at \in Names,
             Index(at) <= Index(passed), Index(next) = Index(passed) + 1,
             Pass(passed, next), UNCHANGED <<contacts, clockBehind>>,
             facts' \subseteq Findings
      PROVE  OwnTypes' /\ ChecksInv' /\ at' = next
  <2>1. at' = next /\ checks' = Passed(Index(next) - 1) /\ outcome' = "none"
        /\ category' = category
    BY <1>0, <1>2, Passes DEF Pass
  <2>2. Index(next) - 1 \in 0..11
    BY IndexTyped
  <2>3. Passed(Index(next) - 1) \in Seq(Check)
    BY <2>2, PassedTyped
  <2>4. next # "start" /\ next # "done"
    BY NamesListed
  <2> QED
    BY <1>0, <1>2, <2>1, <2>3, <2>4 DEF OwnTypes, ChecksInv
<1>3. ASSUME NEW name \in Names, NEW result \in {"refused", "error"}, NEW why \in Categories,
             at \in Names, Index(at) <= Index(name), Failure(name, result, why),
             UNCHANGED <<contacts, clockBehind>>, facts' \subseteq Findings
      PROVE  OwnTypes' /\ ChecksInv' /\ at' = "done" /\ outcome' \in {"raised", result}
             /\ category' = why
  <2>1. /\ at' = "done" /\ checks' = Final(Index(name)) /\ category' = why
        /\ outcome' \in {"raised", result}
    BY <1>0, <1>3, Fails
  <2>2. Index(name) \in 1..11 /\ Index(name) \in 1..12
    BY IndexTyped
  <2>3. Final(Index(name)) \in Seq(Check)
    BY <2>2, FinalTyped
  <2> QED
    BY <1>0, <1>3, <2>1, <2>2, <2>3, NamesListed DEF OwnTypes, ChecksInv
<1>4. CASE CheckClient
  <2>1. CASE Pass("openssh_client", "ssh_files")
    <3>1. OwnTypes' /\ ChecksInv' /\ at' = "ssh_files"
      BY <1>0, <1>2, <1>4, <2>1, Indices, NamesListed DEF CheckClient, OwnTypes, surroundings
    <3> QED
      BY <1>0, <1>4, <2>1, <3>1 DEF CheckClient, Pass, ContactsInv, InCall
  <2>2. CASE Failure("openssh_client", "error", "client")
    <3>1. /\ OwnTypes' /\ ChecksInv' /\ at' = "done" /\ outcome' \in {"raised", "error"}
          /\ category' = "client"
      BY <1>0, <1>3, <1>4, <2>2, Indices, NamesListed
         DEF CheckClient, OwnTypes, surroundings, Categories
    <3> QED
      BY <1>0, <1>4, <3>1 DEF CheckClient, ContactsInv, InCall
  <2> QED
    BY <1>4, <2>1, <2>2 DEF CheckClient
<1>5. CASE CheckFiles
  <2>1. CASE Pass("ssh_files", "helper_version")
    <3>1. OwnTypes' /\ ChecksInv' /\ at' = "helper_version"
      BY <1>0, <1>2, <1>5, <2>1, Indices, NamesListed DEF CheckFiles, OwnTypes, surroundings
    <3> QED
      BY <1>0, <1>5, <2>1, <3>1 DEF CheckFiles, Pass, ContactsInv, InCall
  <2>2. CASE Failure("ssh_files", "error", "local_file")
    <3>1. /\ OwnTypes' /\ ChecksInv' /\ at' = "done" /\ outcome' \in {"raised", "error"}
          /\ category' = "local_file"
      BY <1>0, <1>3, <1>5, <2>2, Indices, NamesListed
         DEF CheckFiles, OwnTypes, surroundings, Categories
    <3> QED
      BY <1>0, <1>5, <3>1 DEF CheckFiles, ContactsInv, InCall
  <2> QED
    BY <1>5, <2>1, <2>2 DEF CheckFiles
<1>6. CASE Call
  <2>1. CASE FilesAreUnsafe
    <3>1. at' = "done" /\ outcome' = "raised"
          /\ UNCHANGED <<checks, category, contacts, waiting, facts, clockBehind>>
      BY <1>6, <2>1 DEF Call, RunRaises, surroundings
    <3> QED
      BY <1>0, <1>6, <3>1, NamesListed DEF Call, OwnTypes, ChecksInv, ContactsInv, InCall
  <2>2. CASE ~FilesAreUnsafe
    <3>1. /\ ~InCall /\ InCall' /\ at \in Remote /\ contacts' = Append(contacts, at)
          /\ UNCHANGED <<at, checks, outcome, category, facts, clockBehind>>
      BY <1>6, <2>2 DEF Call, surroundings, InCall
    <3>2. OwnTypes' /\ ChecksInv'
      BY <1>0, <3>1 DEF OwnTypes, ChecksInv
    <3>3. CASE at = "helper_version"
      <4>1. contacts' = <<"helper_version">>
        BY <1>0, <3>1, <3>3, Appended DEF ContactsInv
      <4> QED
        BY <1>0, <3>1, <3>2, <3>3, <4>1 DEF ContactsInv
    <3>4. CASE at = "target_identity"
      <4>1. contacts' = <<"helper_version", "target_identity">>
        BY <1>0, <3>1, <3>4, Appended DEF ContactsInv
      <4> QED
        BY <1>0, <3>1, <3>2, <3>4, <4>1 DEF ContactsInv
    <3>5. CASE at = "helper_preflight"
      <4>1. contacts' = <<"helper_version", "target_identity", "helper_preflight">>
        BY <1>0, <3>1, <3>5, Appended DEF ContactsInv
      <4> QED
        BY <1>0, <3>1, <3>2, <3>5, <4>1 DEF ContactsInv
    <3> QED
      BY <3>1, <3>2, <3>3, <3>4, <3>5 DEF Remote
  <2> QED
    BY <2>1, <2>2
<1>7. CASE CallFails
  <2>1. at \in Remote /\ at \in Names /\ contacts # <<>> /\ ~InCall'
        /\ UNCHANGED <<contacts, clockBehind, facts>>
    BY <1>0, <1>7, NamesListed DEF CallFails, ContactsInv, Remote, surroundings, InCall, Returns
  <2>2. /\ OwnTypes' /\ ChecksInv' /\ at' = "done"
        /\ outcome' \in {"raised", "refused", "error"}
        /\ category' \in {"privilege", "transport"}
    <3>1. Index(at) <= Index(at) /\ facts' \subseteq Findings
      BY <1>0, <2>1, IndexTyped DEF OwnTypes
    <3>2. CASE Failure(at, "refused", "privilege")
      BY <1>3, <2>1, <3>1, <3>2 DEF Categories
    <3>3. CASE Failure(at, "error", "transport")
      BY <1>3, <2>1, <3>1, <3>3 DEF Categories
    <3> QED
      BY <1>7, <3>2, <3>3 DEF CallFails
  <2> QED
    BY <2>1, <2>2 DEF ContactsInv
<1>8. CASE VersionReply
  <2>1. at = "helper_version" /\ InCall /\ ~InCall' /\ UNCHANGED <<contacts, clockBehind, facts>>
    BY <1>8 DEF VersionReply, Replied, Printed, Returns, InCall, surroundings
  <2>2. CASE Failure("helper_version", "refused", "refusal")
    <3>1. /\ OwnTypes' /\ ChecksInv' /\ at' = "done" /\ outcome' \in {"raised", "refused"}
      BY <1>0, <1>3, <2>1, <2>2, Indices, NamesListed DEF OwnTypes, Categories
    <3> QED
      BY <1>0, <2>1, <3>1 DEF ContactsInv
  <2>3. CASE Pass("helper_version", "target_identity")
    <3>1. OwnTypes' /\ ChecksInv' /\ at' = "target_identity"
      BY <1>0, <1>2, <2>1, <2>3, Indices, NamesListed DEF OwnTypes
    <3> QED
      BY <1>0, <2>1, <2>3, <3>1 DEF ContactsInv, Pass
  <2> QED
    BY <1>8, <2>2, <2>3 DEF VersionReply
<1>9. CASE IdentityReply
  <2>1. at = "target_identity" /\ InCall /\ ~InCall' /\ UNCHANGED <<contacts, clockBehind, facts>>
    BY <1>9 DEF IdentityReply, Replied, Printed, Returns, InCall, surroundings
  <2>2. CASE Failure("target_identity", "refused", "refusal")
    <3>1. /\ OwnTypes' /\ ChecksInv' /\ at' = "done" /\ outcome' \in {"raised", "refused"}
      BY <1>0, <1>3, <2>1, <2>2, Indices, NamesListed DEF OwnTypes, Categories
    <3> QED
      BY <1>0, <2>1, <3>1 DEF ContactsInv
  <2>3. CASE Pass("target_identity", "helper_preflight")
    <3>1. OwnTypes' /\ ChecksInv' /\ at' = "helper_preflight"
      BY <1>0, <1>2, <2>1, <2>3, Indices, NamesListed DEF OwnTypes
    <3> QED
      BY <1>0, <2>1, <2>3, <3>1 DEF ContactsInv, Pass
  <2> QED
    BY <1>9, <2>2, <2>3 DEF IdentityReply
<1>10. CASE PreflightReply
  <2>1. /\ at = "helper_preflight" /\ InCall /\ ~InCall'
        /\ UNCHANGED <<contacts, clockBehind>> /\ facts' = Reply
    BY <1>10 DEF PreflightReply, Replied, Printed, Returns, InCall, surroundings
  <2>2. Reply \subseteq Findings
    BY PreflightTypeParts DEF PreflightIInv, HelperTypeOK, Callers, Process, Reply
  <2>3. CASE FirstRefusal(Reply) # "none"
    <3>1. FirstRefusal(Reply) \in Names /\ Index(FirstRefusal(Reply)) \in 6..10
      BY <2>3, RefusalNamed
    <3>2. Failure(FirstRefusal(Reply), "refused", "refusal")
      BY <1>10, <2>3 DEF PreflightReply
    <3>3. at \in Names /\ Index(at) <= Index(FirstRefusal(Reply))
      BY <2>1, <3>1, Indices, NamesListed
    <3>4. /\ OwnTypes' /\ ChecksInv' /\ at' = "done" /\ outcome' \in {"raised", "refused"}
      BY <1>3, <2>1, <2>2, <3>1, <3>2, <3>3 DEF Categories
    <3> QED
      BY <1>0, <2>1, <3>4 DEF ContactsInv
  <2>4. CASE FirstRefusal(Reply) = "none"
    <3>1. facts' \cap Fit = {}
      BY <2>1, <2>4, NothingRefused DEF Fit
    <3>2. Pass("load", "website")
      BY <1>10, <2>4 DEF PreflightReply
    <3>3. OwnTypes' /\ ChecksInv' /\ at' = "website"
      BY <1>0, <1>2, <2>1, <2>2, <3>2, Indices, NamesListed
    <3> QED
      BY <1>0, <2>1, <3>1, <3>2, <3>3 DEF ContactsInv, Pass
  <2> QED
    BY <2>3, <2>4
<1>11. CASE RequestSite
  <2>1. /\ at = "website" /\ ~InCall /\ InCall' /\ contacts' = Append(contacts, at)
        /\ UNCHANGED <<at, checks, outcome, category, facts, clockBehind>>
    BY <1>11 DEF RequestSite, surroundings, InCall
  <2>2. OwnTypes' /\ ChecksInv'
    BY <1>0, <2>1 DEF OwnTypes, ChecksInv
  <2>3. contacts' = <<"helper_version", "target_identity", "helper_preflight", "website">>
    BY <1>0, <2>1, Appended DEF ContactsInv
  <2> QED
    BY <1>0, <2>1, <2>2, <2>3 DEF ContactsInv
<1>12. CASE SiteReply \/ SiteFails
  <2>1. /\ at = "website" /\ InCall /\ ~InCall'
        /\ UNCHANGED <<contacts, clockBehind, facts>>
    BY <1>12 DEF SiteReply, SiteFails, Returns, InCall, surroundings
  <2>2. contacts = <<"helper_version", "target_identity", "helper_preflight", "website">>
        /\ facts \cap Fit = {}
    BY <1>0, <2>1 DEF ContactsInv
  <2>3. contacts # <<>>
    BY <2>2
  <2>4. CASE Failure("website", "refused", "refusal")
    <3>1. /\ OwnTypes' /\ ChecksInv' /\ at' = "done" /\ outcome' \in {"raised", "refused"}
          /\ category' = "refusal"
      BY <1>0, <1>3, <2>1, <2>4, Indices, NamesListed DEF OwnTypes, Categories
    <3> QED
      BY <2>1, <2>3, <3>1 DEF ContactsInv
  <2>5. CASE /\ checks' = checks \o Entries(Index("website"), Index("website"), "pass")
             /\ Report("pass", "none")
    <3>1. at' = "done" /\ outcome' \in {"raised", "pass"} /\ category' = "none"
      BY <2>5 DEF Report, Validated
    <3>2. checks = Passed(10)
      <4>1. Index(at) - 1 = 10 /\ at \in Names
        BY <2>1, Indices, NamesListed
      <4> QED
        BY <1>0, <4>1 DEF ChecksInv
    <3>3. checks' = Final(12)
      BY <2>5, <3>2, AllPassed, Indices
    <3>4. Final(12) \in Seq(Check)
      BY FinalTyped
    <3>5. OwnTypes'
      BY <1>0, <2>1, <3>1, <3>3, <3>4 DEF OwnTypes, Categories
    <3>6. ChecksInv'
      BY <3>1, <3>3, NamesListed DEF ChecksInv
    <3>7. ContactsInv'
      BY <2>1, <2>2, <2>3, <3>1 DEF ContactsInv
    <3> QED
      BY <3>5, <3>6, <3>7
  <2> QED
    BY <1>12, <2>4, <2>5 DEF SiteReply, SiteFails
<1>13. CASE Interrupted
  <2>1. /\ at' = "done" /\ outcome' = "interrupted" /\ ~InCall'
        /\ UNCHANGED <<checks, facts, contacts, category, clockBehind>>
    BY <1>13 DEF Interrupted, Returns, InCall, surroundings
  <2> QED
    BY <1>0, <2>1, NamesListed DEF OwnTypes, ChecksInv, ContactsInv
<1> QED
  BY <1>1, <1>4, <1>5, <1>6, <1>7, <1>8, <1>9, <1>10, <1>11, <1>12, <1>13 DEF RunStep

LEMMA PreflightIInvStep ==
  PreflightIInv /\ [PreflightNext]_preflightVars => PreflightIInv'
<1> SUFFICES ASSUME PreflightIInv, [PreflightNext]_preflightVars PROVE PreflightIInv'
  OBVIOUS
<1>0. PreflightTypeOK /\ HelperTypeOK /\ OwnTypes /\ ChecksInv /\ ContactsInv
  BY PreflightTypeParts DEF PreflightIInv
<1> SUFFICES HelperTypeOK' /\ OwnTypes' /\ ChecksInv' /\ ContactsInv'
  BY DEF PreflightIInv, PreflightTypeOK, OwnTypes, Check
<1>1. CASE RunStep
  BY <1>0, <1>1, RunHelperTypes, RunStepInv
<1>2. CASE ClockSteps
  <2>1. HelperTypeOK'
    BY <1>0, <1>2 DEF ClockSteps, HelperTypeOK
  <2>2. clockBehind' \in BOOLEAN
    BY <1>2 DEF ClockSteps
  <2> QED
    BY <1>0, <1>2, <2>1, <2>2 DEF ClockSteps, OwnTypes, ChecksInv, ContactsInv, InCall
<1>3. CASE TargetStep /\ UNCHANGED ownVars
  <2>1. InCall' <=> InCall
    BY <1>3, OthersKeepTheCall
  <2>2. HelperTypeOK'
    BY <1>0, <1>3, HelperTypeStep
  <2> QED
    BY <1>0, <1>3, <2>1, <2>2 DEF ownVars, OwnTypes, ChecksInv, ContactsInv
<1>4. CASE UNCHANGED preflightVars
  BY <1>0, <1>4 DEF preflightVars, ownVars, helperVars, hostVars, HelperTypeOK, OwnTypes,
                    ChecksInv, ContactsInv, InCall
<1> QED
  BY <1>1, <1>2, <1>3, <1>4 DEF PreflightNext

-----------------------------------------------------------------------------
(* The promises *)

\* The invariant behind the promises below.
THEOREM PreflightInvariant == PreflightSpec => []PreflightIInv
  BY PreflightIInvInit, PreflightIInvStep, PTL DEF PreflightSpec

\* The variables of a run keep their types (PreflightService.run).
THEOREM PreflightTypeCorrect == PreflightSpec => []PreflightTypeOK
  BY PreflightInvariant, PTL DEF PreflightIInv

\* Every report names each check once and in order, with what followed the
\* failure skipped (_pass, _failure, PreflightReport).
THEOREM ReportsAreComplete == PreflightSpec => []ReportIsComplete
<1>1. ASSUME ChecksInv, Reported PROVE ReportIsComplete
  <2>1. PICK k \in 1..12 : checks = Final(k) /\ (outcome = "pass" <=> k = 12)
    BY <1>1 DEF Reported, ChecksInv
  <2>2. DOMAIN checks = 1..11 /\ Len(checks) = 11
    BY <2>1, FinalTyped DEF Final
  <2>3. \A i \in 1..11 : /\ checks[i].name = CheckNames[i]
                        /\ checks[i].status
                              = IF i < k THEN "pass" ELSE IF i = k THEN "fail" ELSE "skip"
    BY <2>1 DEF Final
  <2>4. [i \in DOMAIN checks |-> checks[i].name] = CheckNames
    <3>1. CheckNames = [i \in 1..11 |-> CheckNames[i]]
      BY DEF CheckNames
    <3> QED
      BY <2>2, <2>3, <3>1
  <2>5. k \in 1..(Len(CheckNames) + 1) /\ Len(CheckNames) + 1 = 12
    BY NamesCounted
  <2> QED
    BY <2>1, <2>2, <2>3, <2>4, <2>5 DEF ReportIsComplete
<1>2. PreflightIInv => ReportIsComplete
  BY <1>1 DEF PreflightIInv, ReportIsComplete
<1> QED
  BY <1>2, PreflightInvariant, PTL

\* A pass rests on one reply that showed everything fit and on a website
\* request made after it (run, _verify_identity).
THEOREM PassesAreEarned == PreflightSpec => []PassIsEarned
<1>1. PreflightIInv => PassIsEarned
  BY DEF PreflightIInv, ContactsInv, PassIsEarned, Fit
<1> QED
  BY <1>1, PreflightInvariant, PTL

\* The exit status tells how far the run got (preflight_command).
THEOREM ExitsTellHowFar == PreflightSpec => []ExitTellsHowFar
<1>1. PreflightIInv => ExitTellsHowFar
  <2> SUFFICES ASSUME PreflightIInv PROVE ExitTellsHowFar
    OBVIOUS
  <2>1. CASE outcome = "pass"
    <3>1. contacts = <<"helper_version", "target_identity", "helper_preflight", "website">>
      BY <2>1 DEF PreflightIInv, ContactsInv
    <3>2. 4 \in DOMAIN contacts /\ contacts[4] = "website"
      BY <3>1
    <3> QED
      BY <2>1, <3>2 DEF ExitTellsHowFar, ExitCode
  <2>2. CASE outcome = "refused"
    BY <2>2 DEF PreflightIInv, ContactsInv, ExitTellsHowFar, ExitCode
  <2>3. CASE outcome = "error"
    BY <2>3 DEF PreflightIInv, ContactsInv, ExitTellsHowFar, ExitCode
  <2>4. CASE outcome \notin {"pass", "refused", "error"}
    BY <2>4 DEF ExitTellsHowFar, ExitCode
  <2> QED
    BY <2>1, <2>2, <2>3, <2>4
<1> QED
  BY <1>1, PreflightInvariant, PTL

\* Nothing is contacted unless every check before it has passed (run).
THEOREM ContactsAreInTurn == PreflightSpec => ContactsAreEarned
<1>1. ASSUME PreflightIInv, RunStep, contacts' # contacts
      PROVE  /\ \A i \in DOMAIN checks : checks[i].status = "pass"
             /\ Len(checks) = Index(contacts'[Len(contacts')]) - 1
  <2>1. /\ contacts' = Append(contacts, at) /\ at \in Names
    BY <1>1, NamesListed DEF RunStep, Configuration, CheckClient, CheckFiles, Call, CallFails,
       VersionReply, IdentityReply, PreflightReply, RequestSite, SiteReply, SiteFails,
       Interrupted, Remote
  <2>2. contacts \in Seq(Remote \cup {"website"}) /\ checks = Passed(Index(at) - 1)
    BY <1>1, <2>1 DEF PreflightIInv, PreflightTypeOK, ChecksInv
  <2>3. contacts'[Len(contacts')] = at
    BY <2>1, <2>2
  <2>4. Index(at) - 1 \in 0..11
    BY <2>1, IndexTyped
  <2>5. /\ checks \in Seq(Check) /\ Len(checks) = Index(at) - 1
        /\ \A i \in 1..(Index(at) - 1) : checks[i] = [name |-> CheckNames[i], status |-> "pass"]
    BY <2>2, <2>4, PassedTyped
  <2>6. DOMAIN checks = 1..(Index(at) - 1)
    BY <2>5
  <2> QED
    BY <2>3, <2>5, <2>6
<1>2. ASSUME PreflightIInv, [PreflightNext]_preflightVars, contacts' # contacts
      PROVE  RunStep
  BY <1>2 DEF PreflightNext, ClockSteps, preflightVars, ownVars
<1>3. PreflightIInv /\ [PreflightNext]_preflightVars =>
        [ contacts' # contacts =>
            /\ \A i \in DOMAIN checks : checks[i].status = "pass"
            /\ Len(checks) = Index(contacts'[Len(contacts')]) - 1 ]_preflightVars
  BY <1>1, <1>2
<1> QED
  BY <1>3, PreflightInvariant, PTL DEF PreflightSpec, ContactsAreEarned

-----------------------------------------------------------------------------
(* The run beside the scenario's call *)

\* The run uses a helper of its own and leaves the scenario's call alone.
LEMMA RunsApart ==
  ASSUME HelperIInv, RunStep \/ ClockSteps
  PROVE  CallInv' /\ UNCHANGED Abstract!targetVars
<1>1. UNCHANGED <<active, ours, jobs, evidence>>
  BY DEF RunStep, Configuration, CheckClient, CheckFiles, Call, CallFails, VersionReply,
         IdentityReply, PreflightReply, RequestSite, SiteReply, SiteFails, Interrupted,
         ClockSteps, surroundings, hostVars
<1>2. "scenario" \in waiting' <=> "scenario" \in waiting
  <2>1. waiting' \in {waiting, waiting \ {"preflight"}, waiting \cup {"preflight"}}
    BY DEF RunStep, Configuration, CheckClient, CheckFiles, Call, CallFails, VersionReply,
           IdentityReply, PreflightReply, RequestSite, SiteReply, SiteFails, Interrupted,
           ClockSteps, Returns, Replied
  <2> QED
    BY <2>1
<1>3. \/ UNCHANGED helper
      \/ \E op \in {"version", "identity", "preflight"} : Step("preflight", Serving(op))
  BY DEF RunStep, Configuration, CheckClient, CheckFiles, Call, CallFails, VersionReply,
         IdentityReply, PreflightReply, RequestSite, SiteReply, SiteFails, Interrupted,
         ClockSteps, Remote, OperationOf
<1>4. helper'["scenario"] = helper["scenario"] /\ ReaderInv'
  <2>1. CASE UNCHANGED helper
    BY <2>1 DEF HelperIInv, CallInv, ReaderInv, Op, At
  <2>2. ASSUME NEW op \in {"version", "identity", "preflight"}, Step("preflight", Serving(op))
        PROVE  helper'["scenario"] = helper["scenario"] /\ ReaderInv'
    <3>1. helper'["preflight"] = Serving(op) /\ helper'["scenario"] = helper["scenario"]
      BY <2>2, OneHelperSteps DEF HelperIInv, Callers
    <3>2. Serving(op).op = op /\ Serving(op).stage = "serve"
      BY DEF Serving, Gone
    <3> QED
      BY <3>1, <3>2 DEF ReaderInv, Op, At
  <2> QED
    BY <1>3, <2>1, <2>2
<1>5. CallInv'
  BY <1>1, <1>2, <1>4, OthersStep DEF HelperIInv
<1>6. Calls' = Calls /\ \A op : Late(op)' = Late(op)
  BY <1>1, <1>4 DEF Calls, Late, MayStillAct, At, Op
<1> QED
  BY <1>1, <1>5, <1>6, Unseen

\* The scenario's call is a call of ApacheTarget whatever a preflight run does
\* at the same time (apache_control, execute).
THEOREM CallImplementsTargetBesideRun == PreflightSpec => HelperImplementsTarget
<1>1. PreflightInit => CallInv
  BY CallInvInit DEF PreflightInit
<1>2. PreflightTypeOK /\ CallInv /\ [PreflightNext]_preflightVars
        => CallInv' /\ [AbstractStep]_(Abstract!targetVars)
  <2> SUFFICES ASSUME PreflightTypeOK, CallInv, [PreflightNext]_preflightVars
               PROVE  CallInv' /\ (AbstractStep \/ UNCHANGED Abstract!targetVars)
    OBVIOUS
  <2>1. HelperIInv
    BY PreflightTypeParts DEF HelperIInv
  <2>2. CASE RunStep \/ ClockSteps
    BY <2>1, <2>2, RunsApart
  <2>3. CASE TargetStep
    BY <2>1, <2>3, CallInvStep, TargetStepRefines
  <2>4. CASE UNCHANGED preflightVars
    <3>1. UNCHANGED <<hostVars, helper, waiting, evidence>>
      BY <2>4 DEF preflightVars, helperVars
    <3> QED
      BY <3>1, NothingHappens
         DEF hostVars, CallInv, ReaderInv, ActorInv, JobsInv, WaitInv, At, Op
  <2> QED
    BY <2>2, <2>3, <2>4 DEF PreflightNext
<1> QED
  BY <1>1, <1>2, PreflightTypeCorrect, PTL DEF PreflightSpec, HelperImplementsTarget

=============================================================================

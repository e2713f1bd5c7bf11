------------------------------ MODULE Version ------------------------------
(***************************************************************************)
(* The order of Debian versions (deb/version.go).  A version is a sequence *)
(* of bytes.  Policy is the order that the Debian Policy Manual describes, *)
(* as the comment of compareVersionPart quotes it.                         *)
(***************************************************************************)
EXTENDS Integers, Sequences

SE == INSTANCE SequencesExt

CONSTANT MaxInt   \* the largest number strconv.Atoi returns

Strings == Seq(0 .. 255)
Tilde == 126
Dash == 45
Colon == 58
IsDigit(c) == c \in 48 .. 57

\* unicode.IsLetter takes a byte above 127 for a Latin-1 character
IsLetter(c) ==
  c \in 65 .. 90 \cup 97 .. 122 \cup {170, 181, 186} \cup (192 .. 255 \ {215, 247})

Min2(a, b) == IF a < b THEN a ELSE b
Sign(a, b) == IF a < b THEN -1 ELSE IF a > b THEN 1 ELSE 0
From(s, i) == SubSeq(s, i, Len(s))

\* where the digits of s, or the bytes that are not digits, from i on end
End(s, i, digits) ==
  CHOOSE n \in i .. Len(s) + 1 :
    /\ \A k \in i .. n - 1 : IsDigit(s[k]) = digits
    /\ n <= Len(s) => IsDigit(s[n]) # digits

Number(s) == SE!FoldLeft(LAMBDA n, c : 10 * n + c - 48, 0, s)

\* A number that does not fit comes back as the largest one, with an error that
\* is ignored; the empty string as 0.
Atoi(s) == Min2(Number(s), MaxInt)

compareLexicographic(s1, s2) ==
  LET same == {n \in 0 .. Min2(Len(s1), Len(s2)) : \A i \in 1 .. n : s1[i] = s2[i]}
      i == 1 + CHOOSE n \in same : \A m \in same : m <= n
  IN CASE i > Len(s1) /\ i > Len(s2) -> 0
       [] i > Len(s2) /\ i <= Len(s1) -> IF s1[i] = Tilde THEN -1 ELSE 1
       [] i > Len(s1) /\ i <= Len(s2) -> IF s2[i] = Tilde THEN 1 ELSE -1
       [] OTHER ->
            IF s1[i] = Tilde THEN -1
            ELSE IF s2[i] = Tilde THEN 1
            ELSE IF IsLetter(s1[i]) # IsLetter(s2[i]) THEN IF IsLetter(s1[i]) THEN -1 ELSE 1
            ELSE Sign(s1[i], s2[i])

\* mutant: numbers are compared as strings
CompareNumbers_Strings(s1, s2) == compareLexicographic(s1, s2)

CompareNumbers(s1, s2) == Sign(Atoi(s1), Atoi(s2))

UsedUp(s1, i1, s2, i2) == i1 > Len(s1) /\ i2 > Len(s2)

\* Parts without digits and numbers by turns, until both strings are used up.
compareVersionPart[p \in Strings \X Strings] ==
  LET i1 == End(p[1], 1, FALSE)  j1 == End(p[1], i1, TRUE)
      i2 == End(p[2], 1, FALSE)  j2 == End(p[2], i2, TRUE)
      r == compareLexicographic(SubSeq(p[1], 1, i1 - 1), SubSeq(p[2], 1, i2 - 1))
      n == CompareNumbers(SubSeq(p[1], i1, j1 - 1), SubSeq(p[2], i2, j2 - 1))
  IN IF r # 0 THEN r ELSE IF n # 0 THEN n
     ELSE IF UsedUp(p[1], j1, p[2], j2) THEN 0
     ELSE compareVersionPart[<<From(p[1], j1), From(p[2], j2)>>]

\* epoch, upstream version and Debian revision, split at the first colon and
\* the last dash
parseVersion(ver) ==
  LET dashes == {i \in DOMAIN ver : ver[i] = Dash}
      d == IF dashes = {} THEN Len(ver) + 1 ELSE CHOOSE i \in dashes : \A j \in dashes : j <= i
      rest == SubSeq(ver, 1, d - 1)
      colons == {i \in DOMAIN rest : rest[i] = Colon}
      e == IF colons = {} THEN 0 ELSE CHOOSE i \in colons : \A j \in colons : i <= j
  IN <<SubSeq(rest, 1, e - 1), From(rest, e + 1), From(ver, d + 1)>>

CompareVersions(ver1, ver2) ==
  LET v1 == parseVersion(ver1)  v2 == parseVersion(ver2)
      r == [k \in 1 .. 3 |-> compareVersionPart[<<v1[k], v2[k]>>]]
  IN IF r[1] # 0 THEN r[1] ELSE IF r[2] # 0 THEN r[2] ELSE r[3]

----------------------------------------------------------------------------
\* The order of the policy: versions are compared like vectors of numbers.  A
\* part of n bytes has at most n blocks of bytes that are not digits, each as
\* long as the version and followed by a number.

\* ~ before the end of a part, that before letters, these before the rest
Weight(c) == IF c = Tilde THEN -1 ELSE IF IsLetter(c) THEN c ELSE c + 256

Blocks[p \in Strings] ==
  IF p = <<>> THEN <<>>
  ELSE LET i == End(p, 1, FALSE)  j == End(p, i, TRUE)
       IN <<[text |-> SubSeq(p, 1, i - 1), number |-> Number(SubSeq(p, i, j - 1))]>> \o Blocks[From(p, j)]

Component(b, k, n) ==
  LET block == 1 + ((k - 1) \div (n + 1))  i == 1 + ((k - 1) % (n + 1))
  IN IF block > Len(b) THEN 0
     ELSE IF i = n + 1 THEN b[block].number
     ELSE IF i > Len(b[block].text) THEN 0 ELSE Weight(b[block].text[i])

PolicyPart(p1, p2) ==
  LET n == Len(p1) + Len(p2)
      v1 == [k \in 1 .. n * (n + 1) |-> Component(Blocks[p1], k, n)]
      v2 == [k \in 1 .. n * (n + 1) |-> Component(Blocks[p2], k, n)]
      diff == {k \in 1 .. n * (n + 1) : v1[k] # v2[k]}
  IN IF diff = {} THEN 0
     ELSE LET k == CHOOSE k \in diff : \A m \in diff : k <= m IN Sign(v1[k], v2[k])

Policy(ver1, ver2) ==
  LET v1 == parseVersion(ver1)  v2 == parseVersion(ver2)
      r == [k \in 1 .. 3 |-> PolicyPart(v1[k], v2[k])]
  IN IF r[1] # 0 THEN r[1] ELSE IF r[2] # 0 THEN r[2] ELSE r[3]

\* No number of the version is too large for Atoi.
Fits(ver) == \A i \in DOMAIN ver : \A j \in i .. Len(ver) :
  (\A k \in i .. j : IsDigit(ver[k])) => Number(SubSeq(ver, i, j)) <= MaxInt
=============================================================================

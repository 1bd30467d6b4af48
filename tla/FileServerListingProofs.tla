----------------------- MODULE FileServerListingProofs -----------------------
(***************************************************************************)
(* What a listing shows, for any keys, paths and size of a page: names     *)
(* that lead back to what was found, and all of it up to the last name.    *)
(***************************************************************************)
EXTENDS FileServerProofs, SequenceTheorems, WellFoundedInduction

-----------------------------------------------------------------------------
(***************************************************************************)
(* Parts of a text, a sequence of characters.                              *)
(***************************************************************************)
Text == Seq(Nat)

\* The characters of a text and of a part of it.
LEMMA PartOfText ==
  ASSUME NEW s \in Text, NEW m \in Nat, NEW n \in Nat, 1 <= m, n <= Len(s)
  PROVE  /\ Len(s) \in Nat
         /\ \A i \in 1 .. Len(s) : s[i] \in Nat
         /\ SubSeq(s, m, n) \in Text
         /\ Len(SubSeq(s, m, n)) = IF m <= n THEN n - m + 1 ELSE 0
         /\ \A i \in 1 .. n - m + 1 : SubSeq(s, m, n)[i] = s[m + i - 1]
  <1>1. Len(s) \in Nat /\ \A i \in 1 .. Len(s) : s[i] \in Nat
    BY ElementOfSeq DEF Text
  <1>2. \A i \in m .. n : s[i] \in Nat
    BY <1>1
  <1> QED BY <1>1, <1>2, SubSeqProperties, SMT DEF Text

\* Texts with the same characters are the same.
LEMMA SameText ==
  ASSUME NEW s \in Text, NEW t \in Text,
         Len(s) = Len(t), \A i \in 1 .. Len(s) : s[i] = t[i]
  PROVE  s = t
  BY SeqEqual DEF Text

\* The characters of two texts one after the other.
LEMMA JoinedText ==
  ASSUME NEW s \in Text, NEW t \in Text
  PROVE  /\ s \o t \in Text
         /\ Len(s) \in Nat /\ Len(t) \in Nat /\ Len(s \o t) = Len(s) + Len(t)
         /\ \A i \in 1 .. Len(s) : (s \o t)[i] = s[i]
         /\ \A i \in 1 .. Len(t) : (s \o t)[Len(s) + i] = t[i]
  <1> DEFINE c == s \o t
  <1>1. /\ Len(s) \in Nat /\ Len(t) \in Nat
        /\ c \in Text /\ Len(c) = Len(s) + Len(t)
        /\ \A i \in 1 .. Len(s) + Len(t) :
             c[i] = IF i <= Len(s) THEN s[i] ELSE t[i - Len(s)]
    BY ConcatProperties DEF Text
  <1> HIDE DEF c
  <1>2. \A i \in 1 .. Len(s) : c[i] = s[i]
    BY <1>1
  <1>3. \A i \in 1 .. Len(t) : c[Len(s) + i] = t[i]
    BY <1>1
  <1> QED BY <1>1, <1>2, <1>3 DEF c

\* Two texts start alike if they have the same first characters.
LEMMA SameStart ==
  ASSUME NEW s \in Text, NEW t \in Text, NEW n \in Nat, n <= Len(s), n <= Len(t)
  PROVE  SubSeq(s, 1, n) = SubSeq(t, 1, n) <=> \A i \in 1 .. n : s[i] = t[i]
  <1> DEFINE a == SubSeq(s, 1, n)
             b == SubSeq(t, 1, n)
  <1>1. /\ a \in Text /\ Len(a) = n
        /\ \A i \in 1 .. n : a[i] = s[i]
    BY PartOfText, SMT
  <1>2. /\ b \in Text /\ Len(b) = n
        /\ \A i \in 1 .. n : b[i] = t[i]
    BY PartOfText, SMT
  <1> HIDE DEF a, b
  <1>3. a = b <=> \A i \in 1 .. n : s[i] = t[i]
    BY <1>1, <1>2, SameText
  <1> QED BY <1>3 DEF a, b

\* A prefix agrees with the whole character by character.
LEMMA PrefixChars ==
  ASSUME NEW s \in Text, NEW t \in Text
  PROVE  /\ F!IsPrefix(s, t) <=>
              Len(s) <= Len(t) /\ \A i \in 1 .. Len(s) : s[i] = t[i]
         /\ IsPrefix(s, t) <=> F!IsPrefix(s, t)
         /\ IsStrictPrefix(s, t) <=> F!IsPrefix(s, t) /\ s # t
  <1>1. Len(s) \in Nat /\ Len(t) \in Nat
    BY DEF Text
  <1>2. Len(s) <= Len(t) =>
          (SubSeq(s, 1, Len(s)) = SubSeq(t, 1, Len(s)) <=>
             \A i \in 1 .. Len(s) : s[i] = t[i])
    BY <1>1, SameStart
  <1> QED BY <1>2 DEF F!IsPrefix, IsPrefix, IsStrictPrefix

\* What comes after a prefix, and nothing else.
LEMMA AfterChars ==
  ASSUME NEW p \in Text, NEW k \in Text, F!IsPrefix(p, k)
  PROVE  /\ F!After(k, p) \in Text
         /\ Len(F!After(k, p)) = Len(k) - Len(p)
         /\ \A i \in 1 .. Len(k) - Len(p) : F!After(k, p)[i] = k[Len(p) + i]
         /\ p \o F!After(k, p) = k
  <1>1. Len(p) \in Nat /\ Len(k) \in Nat /\ Len(p) <= Len(k)
    BY PrefixChars DEF Text
  <1> DEFINE a == SubSeq(k, Len(p) + 1, Len(k))
  <1>2. /\ a \in Text
        /\ Len(a) = Len(k) - Len(p)
        /\ \A i \in 1 .. Len(k) - Len(p) : a[i] = k[Len(p) + i]
    BY <1>1, PartOfText, SMT
  <1> HIDE DEF a
  <1> DEFINE c == p \o a
  <1>3. /\ c \in Text /\ Len(c) = Len(p) + Len(a)
        /\ \A i \in 1 .. Len(p) : c[i] = p[i]
        /\ \A i \in 1 .. Len(a) : c[Len(p) + i] = a[i]
    BY <1>2, JoinedText, Zenon
  <1> HIDE DEF c
  <1>4. ASSUME NEW i \in 1 .. Len(k) PROVE c[i] = k[i]
    <2>1. CASE i <= Len(p)
      BY <1>1, <1>3, <2>1, PrefixChars
    <2>2. CASE i > Len(p)
      <3>1. i - Len(p) \in 1 .. Len(k) - Len(p) /\ Len(p) + (i - Len(p)) = i
        BY <1>1, <2>2
      <3> QED BY <1>2, <1>3, <3>1
    <2> QED BY <1>1, <2>1, <2>2
  <1>5. p \o a = k
    <2>1. Len(c) = Len(k)
      BY <1>1, <1>2, <1>3
    <2> QED BY <1>3, <1>4, <2>1, SameText DEF c
  <1> QED BY <1>2, <1>5 DEF a, F!After

\* What is put after a text is found after it.
LEMMA ConcatChars ==
  ASSUME NEW p \in Text, NEW t \in Text
  PROVE  /\ p \o t \in Text /\ Len(p \o t) = Len(p) + Len(t)
         /\ F!IsPrefix(p, p \o t)
         /\ F!After(p \o t, p) = t
  <1> DEFINE c == p \o t
  <1>1. /\ c \in Text /\ Len(p) \in Nat /\ Len(t) \in Nat
        /\ Len(c) = Len(p) + Len(t)
        /\ \A i \in 1 .. Len(p) : c[i] = p[i]
        /\ \A i \in 1 .. Len(t) : c[Len(p) + i] = t[i]
    BY JoinedText
  <1> HIDE DEF c
  <1>2. F!IsPrefix(p, c)
    BY <1>1, PrefixChars
  <1> DEFINE r == F!After(c, p)
  <1>3. /\ r \in Text /\ Len(r) = Len(t)
        /\ \A i \in 1 .. Len(t) : r[i] = c[Len(p) + i]
    BY <1>1, <1>2, AfterChars
  <1> HIDE DEF r
  <1>4. r = t
    BY <1>1, <1>3, SameText
  <1> QED BY <1>1, <1>2, <1>4 DEF c, r

\* Prefixes of prefixes.
LEMMA PrefixOfPrefix ==
  ASSUME NEW p \in Text, NEW q \in Text, NEW k \in Text
  PROVE  /\ F!IsPrefix(p, q) /\ F!IsPrefix(q, k) => F!IsPrefix(p, k)
         /\ F!IsPrefix(p, k) /\ F!IsPrefix(q, k) /\ Len(p) <= Len(q) => F!IsPrefix(p, q)
  <1>1. Len(p) \in Nat /\ Len(q) \in Nat /\ Len(k) \in Nat
    BY DEF Text
  <1> QED BY <1>1, PrefixChars

-----------------------------------------------------------------------------
(***************************************************************************)
(* Paths and the names cut out of them.                                    *)
(***************************************************************************)
UserPrefix(u) == F!BuildPath(u, <<>>)

\* A path starts with its user's prefix.
LEMMA PathChars ==
  ASSUME NEW u \in Text, NEW path \in Text
  PROVE  /\ UserPrefix(u) \in Text /\ Len(UserPrefix(u)) = Len(u) + 1
         /\ F!BuildPath(u, path) \in Text
         /\ F!BuildPath(u, path) = UserPrefix(u) \o path
         /\ F!IsPrefix(UserPrefix(u), F!BuildPath(u, path))
  <1> DEFINE sep == <<F!Sep>>
  <1>1. sep \in Text /\ Len(sep) = 1 /\ <<>> \in Text /\ Len(<<>>) = 0
    BY DEF F!Sep, Text
  <1> HIDE DEF sep
  <1>2. u \o sep \in Text /\ Len(u \o sep) = Len(u) + 1
    <2>1. u \o sep \in Text /\ Len(u \o sep) = Len(u) + Len(sep)
      BY <1>1, JoinedText, Zenon
    <2> QED BY <1>1, <2>1, Zenon
  <1>3. UserPrefix(u) = u \o sep
    <2>1. UserPrefix(u) = (u \o sep) \o <<>>
      BY DEF UserPrefix, F!BuildPath, sep
    <2>2. (u \o sep) \o <<>> = u \o sep
      BY <1>2, ConcatEmptySeq DEF Text
    <2> QED BY <2>1, <2>2
  <1>4. F!BuildPath(u, path) = (u \o sep) \o path
    BY DEF F!BuildPath, sep
  <1> QED BY <1>2, <1>3, <1>4, ConcatChars

\* Whatever was listed, a name is cut off so that the user's path of it is the
\* key again.
LEMMA StrippedLeadsBack ==
  ASSUME NEW u \in Text, NEW base \in Text, NEW k \in Text,
         F!IsPrefix(F!BuildPath(u, base), k)
  PROVE  /\ F!Stripped(u, base, k) \in Text
         /\ F!BuildPath(u, F!Stripped(u, base, k)) = k
         /\ F!IsPrefix(base, F!Stripped(u, base, k))
         /\ Len(F!Stripped(u, base, k)) = Len(k) - Len(F!BuildPath(u, base)) + Len(base)
  <1> DEFINE p == UserPrefix(u)
             b == F!BuildPath(u, base)
             n == F!After(k, p)
  <1>1. /\ p \in Text /\ Len(p) = Len(u) + 1
        /\ b \in Text /\ b = p \o base /\ F!IsPrefix(p, b)
    BY PathChars
  <1>2. F!IsPrefix(p, k)
    BY <1>1, PrefixOfPrefix
  <1>3. /\ n \in Text /\ p \o n = k /\ Len(n) = Len(k) - Len(p)
        /\ \A i \in 1 .. Len(k) - Len(p) : n[i] = k[Len(p) + i]
    BY <1>1, <1>2, AfterChars
  <1>4. F!BuildPath(u, n) = k
    BY <1>3, PathChars
  <1>5. /\ Len(b) = Len(p) + Len(base) /\ Len(b) <= Len(k)
        /\ Len(p) \in Nat /\ Len(base) \in Nat /\ Len(k) \in Nat
        /\ \A i \in 1 .. Len(b) : b[i] = k[i]
        /\ \A i \in 1 .. Len(base) : b[Len(p) + i] = base[i]
    <2>1. /\ Len(b) = Len(p) + Len(base)
          /\ F!After(b, p) = base
      BY <1>1, ConcatChars
    <2>2. \A i \in 1 .. Len(b) - Len(p) : F!After(b, p)[i] = b[Len(p) + i]
      BY <1>1, AfterChars
    <2>3. Len(p) \in Nat /\ Len(base) \in Nat /\ Len(k) \in Nat
      BY <1>1 DEF Text
    <2>4. Len(b) <= Len(k) /\ \A i \in 1 .. Len(b) : b[i] = k[i]
      BY <1>1, PrefixChars
    <2> QED BY <2>1, <2>2, <2>3, <2>4
  <1>6. F!IsPrefix(base, n)
    <2>1. ASSUME NEW i \in 1 .. Len(base) PROVE base[i] = n[i]
      <3>1. /\ Len(p) + i \in 1 .. Len(b)
            /\ i \in 1 .. Len(k) - Len(p)
        BY <1>5
      <3>2. b[Len(p) + i] = k[Len(p) + i] /\ b[Len(p) + i] = base[i]
        BY <1>5, <3>1
      <3>3. n[i] = k[Len(p) + i]
        BY <1>3, <3>1
      <3> QED BY <3>2, <3>3
    <2>2. Len(base) <= Len(n)
      BY <1>3, <1>5
    <2> QED BY <1>3, <2>1, <2>2, PrefixChars
  <1>7. F!Stripped(u, base, k) = n
    BY DEF F!Stripped, UserPrefix
  <1>8. Len(n) = Len(k) - Len(b) + Len(base)
    BY <1>3, <1>5
  <1> HIDE DEF n, p, b
  <1> QED BY <1>3, <1>4, <1>6, <1>7, <1>8 DEF b
-----------------------------------------------------------------------------
(***************************************************************************)
(* What ListObjectsV2 finds.                                               *)
(***************************************************************************)

\* A set of natural numbers has a least one.
LEMMA LeastNatural ==
  ASSUME NEW S \in SUBSET Nat, S # {}
  PROVE  \E x \in S : \A y \in S : x <= y
  <1>1. PICK x \in S : \A y \in S : ~(<<y, x>> \in OpToRel(<, Nat))
    BY NatLessThanWellFounded, WFMin
  <1>2. \A y \in S : ~(y < x)
    BY <1>1 DEF OpToRel
  <1> QED BY <1>2

\* The folder of a key lies between the path that is listed and the key, and
\* is longer than the path.
LEMMA FolderChars ==
  ASSUME NEW k \in Text, NEW p \in Text, F!IsPrefix(p, k),
         F!Contains(F!After(k, p), F!Sep)
  PROVE  /\ F!CommonPrefix(k, p) \in Text
         /\ F!IsPrefix(F!CommonPrefix(k, p), k)
         /\ F!IsPrefix(p, F!CommonPrefix(k, p))
         /\ Len(p) < Len(F!CommonPrefix(k, p))
  <1> DEFINE r == F!After(k, p)
             I == {i \in 1 .. Len(r) : r[i] = F!Sep}
             n == F!Min(I)
             c == SubSeq(k, 1, Len(p) + n)
  <1>1. /\ Len(p) \in Nat /\ Len(k) \in Nat /\ Len(r) = Len(k) - Len(p)
        /\ Len(p) <= Len(k)
    BY AfterChars, PrefixChars DEF Text
  <1>2. I # {} /\ I \in SUBSET Nat
    BY <1>1 DEF F!Contains
  <1>3. n \in I
    BY <1>2, LeastNatural DEF F!Min
  <1>4. F!CommonPrefix(k, p) = c
    BY <1>2 DEF F!CommonPrefix, F!SelectInSeq
  <1>5. n \in Nat /\ 1 <= n /\ Len(p) + n <= Len(k)
    BY <1>1, <1>3
  <1> HIDE DEF n
  <1>6. /\ c \in Text /\ Len(c) = Len(p) + n
        /\ \A i \in 1 .. Len(p) + n : c[i] = k[i]
    BY <1>1, <1>5, PartOfText, SMT
  <1> HIDE DEF c
  <1>7. F!IsPrefix(c, k)
    BY <1>1, <1>5, <1>6, PrefixChars
  <1>8. F!IsPrefix(p, c)
    BY <1>1, <1>5, <1>6, <1>7, PrefixOfPrefix
  <1> QED BY <1>1, <1>4, <1>5, <1>6, <1>7, <1>8

\* What an entry of a listing says of the keys.
LEMMA EntryMeans ==
  ASSUME NEW keys \in SUBSET Text, NEW p \in Text, NEW e \in F!Entries(keys, p)
  PROVE  /\ e = [name |-> e.name, is_folder |-> e.is_folder]
         /\ e.name \in Text /\ e.is_folder \in BOOLEAN
         /\ F!IsPrefix(p, e.name)
         /\ ~e.is_folder => e.name \in keys
         /\ e.is_folder => /\ \E k \in keys : F!IsPrefix(e.name, k)
                           /\ Len(p) < Len(e.name)
  <1>1. CASE \E k \in keys : /\ F!IsPrefix(p, k)
                             /\ e = [name |-> k, is_folder |-> FALSE]
    BY <1>1
  <1>2. CASE \E k \in keys : /\ F!IsPrefix(p, k) /\ F!Contains(F!After(k, p), F!Sep)
                             /\ e = [name |-> F!CommonPrefix(k, p), is_folder |-> TRUE]
    <2>1. PICK k \in keys : /\ F!IsPrefix(p, k) /\ F!Contains(F!After(k, p), F!Sep)
                            /\ e = [name |-> F!CommonPrefix(k, p), is_folder |-> TRUE]
      BY <1>2
    <2>2. /\ F!CommonPrefix(k, p) \in Text /\ F!IsPrefix(F!CommonPrefix(k, p), k)
          /\ F!IsPrefix(p, F!CommonPrefix(k, p)) /\ Len(p) < Len(F!CommonPrefix(k, p))
      BY <2>1, FolderChars
    <2>3. /\ e.name = F!CommonPrefix(k, p) /\ e.is_folder = TRUE
          /\ e = [name |-> e.name, is_folder |-> e.is_folder]
      BY <2>1
    <2> QED BY <2>2, <2>3
  <1> QED BY <1>1, <1>2 DEF F!Entries

\* Every key under a path has an entry.
LEMMA EntryExists ==
  ASSUME NEW keys \in SUBSET Text, NEW p \in Text,
         NEW k \in keys, F!IsPrefix(p, k)
  PROVE  \E e \in F!Entries(keys, p) :
           IF e.is_folder THEN F!IsPrefix(e.name, k) ELSE e.name = k
  <1>1. CASE F!Contains(F!After(k, p), F!Sep)
    <2>1. [name |-> F!CommonPrefix(k, p), is_folder |-> TRUE] \in F!Entries(keys, p)
      BY <1>1 DEF F!Entries
    <2>2. F!IsPrefix(F!CommonPrefix(k, p), k)
      BY <1>1, FolderChars
    <2> QED BY <2>1, <2>2
  <1>2. CASE ~F!Contains(F!After(k, p), F!Sep)
    <2>1. [name |-> k, is_folder |-> FALSE] \in F!Entries(keys, p)
      BY <1>2 DEF F!Entries
    <2> QED BY <2>1
  <1> QED BY <1>1, <1>2

-----------------------------------------------------------------------------
(***************************************************************************)
(* The order of the keys, in which they come on a page.                    *)
(***************************************************************************)

\* Keys that come before others, character by character.
LEMMA BeforeChars ==
  ASSUME NEW k \in Text, NEW l \in Text
  PROVE  F!Before(k, l) <=>
           \E n \in Nat : /\ n <= Len(k) /\ n < Len(l)
                          /\ \A i \in 1 .. n : k[i] = l[i]
                          /\ n = Len(k) \/ k[n + 1] < l[n + 1]
  <1>1. Len(k) \in Nat /\ Len(l) \in Nat
    BY DEF Text
  <1>2. ASSUME NEW n \in Nat, n <= Len(k), n < Len(l)
        PROVE  SubSeq(k, 1, n) = SubSeq(l, 1, n) <=> \A i \in 1 .. n : k[i] = l[i]
    BY <1>1, <1>2, SameStart
  <1>3. \A n : n \in 0 .. Len(k) <=> n \in Nat /\ n <= Len(k)
    BY <1>1
  <1> QED BY <1>2, <1>3 DEF F!Before

\* A folder comes before everything that a key in it comes before.
LEMMA PrefixBefore ==
  ASSUME NEW q \in Text, NEW k \in Text, NEW l \in Text,
         F!IsPrefix(q, k), F!Before(k, l)
  PROVE  F!Before(q, l)
  <1>1. /\ Len(q) \in Nat /\ Len(k) \in Nat /\ Len(l) \in Nat
        /\ Len(q) <= Len(k) /\ \A i \in 1 .. Len(q) : q[i] = k[i]
    BY PrefixChars DEF Text
  <1>2. PICK n \in Nat : /\ n <= Len(k) /\ n < Len(l)
                         /\ \A i \in 1 .. n : k[i] = l[i]
                         /\ n = Len(k) \/ k[n + 1] < l[n + 1]
    BY BeforeChars
  <1>3. CASE Len(q) <= n
    <2>1. Len(q) < Len(l) /\ \A i \in 1 .. Len(q) : q[i] = l[i]
      BY <1>1, <1>2, <1>3
    <2> QED BY <1>1, <2>1, BeforeChars
  <1>4. CASE Len(q) > n
    <2>1. /\ n <= Len(q) /\ \A i \in 1 .. n : q[i] = l[i]
          /\ q[n + 1] < l[n + 1]
      BY <1>1, <1>2, <1>4
    <2> QED BY <1>2, <2>1, BeforeChars
  <1> QED BY <1>1, <1>3, <1>4

-----------------------------------------------------------------------------
(***************************************************************************)
(* What a listing answers with.                                            *)
(***************************************************************************)
Shown(u, base, e) == [e EXCEPT !.name = F!Stripped(u, base, @)]
Answers(u, base, page) == {Shown(u, base, e) : e \in page}

\* A path of some user is a text.
LEMMA PathsAreText ==
  /\ \A u \in User, path \in Name \cup Base : u \in Text /\ path \in Text
  /\ F!Key \subseteq Text
  <1>1. \A u \in User, path \in Name \cup Base : u \in Text /\ path \in Text
    BY UserAssumption, PathAssumption DEF Text
  <1>2. \A u \in User, n \in Name : F!BuildPath(u, n) \in Text
    BY <1>1, PathChars
  <1> QED BY <1>1, <1>2 DEF F!Key

\* An entry keeps its kind and gets a name that leads back to it.
LEMMA ShownLeadsBack ==
  ASSUME NEW u \in User, NEW base \in Name \cup Base, object \in SUBSET Text,
         NEW e \in F!Entries(object, F!BuildPath(u, base))
  PROVE  LET f == Shown(u, base, e)
         IN  /\ f \in F!Userfile /\ f.is_folder = e.is_folder
             /\ f.name = F!Stripped(u, base, e.name)
             /\ F!BuildPath(u, f.name) = e.name
             /\ F!IsPrefix(base, f.name)
             /\ e.is_folder => base # f.name
  <1> DEFINE p == F!BuildPath(u, base)
             n == F!Stripped(u, base, e.name)
  <1>1. u \in Text /\ base \in Text /\ p \in Text
    BY PathsAreText, PathChars
  <1>2. /\ e = [name |-> e.name, is_folder |-> e.is_folder]
        /\ e.name \in Text /\ e.is_folder \in BOOLEAN
        /\ F!IsPrefix(p, e.name)
        /\ e.is_folder => Len(p) < Len(e.name)
    BY <1>1, EntryMeans
  <1>3. /\ n \in Text /\ F!BuildPath(u, n) = e.name
        /\ F!IsPrefix(base, n)
        /\ Len(n) = Len(e.name) - Len(p) + Len(base)
    BY <1>1, <1>2, StrippedLeadsBack
  <1>4. Shown(u, base, e) = [name |-> n, is_folder |-> e.is_folder]
    BY <1>2 DEF Shown
  <1>5. e.is_folder => base # n
    <2>1. Len(n) \in Nat /\ Len(p) \in Nat /\ Len(base) \in Nat /\ Len(e.name) \in Nat
      BY <1>1, <1>2, <1>3 DEF Text
    <2> HIDE DEF n, p
    <2> QED BY <1>2, <1>3, <2>1
  <1> HIDE DEF n, p
  <1>6. Shown(u, base, e) \in F!Userfile
    BY <1>2, <1>3, <1>4 DEF F!Userfile, Text
  <1> QED BY <1>2, <1>3, <1>4, <1>5, <1>6 DEF n

\* The three things the properties say of a listing.
LEMMA ListingAnswers ==
  ASSUME NEW u \in User, NEW base \in Name \cup Base,
         object \in SUBSET Text, NEW page \in F!Listed(u, base)
  PROVE  LET A == Answers(u, base, page)
         IN  /\ A \in SUBSET F!Userfile
             /\ \A f \in A :
                  IF f.is_folder
                    THEN \E k \in object : IsStrictPrefix(F!BuildPath(u, f.name), k)
                                           \/ F!BuildPath(u, f.name) = k
                    ELSE F!BuildPath(u, f.name) \in object
             /\ \A f \in A, k \in object :
                  IsPrefix(F!BuildPath(u, base), k) /\ F!Before(k, F!BuildPath(u, f.name)) =>
                    \E g \in A :
                      IF g.is_folder
                        THEN /\ IsPrefix(F!BuildPath(u, g.name), k)
                             /\ IsStrictPrefix(base, g.name)
                        ELSE F!BuildPath(u, g.name) = k
  <1> DEFINE p == F!BuildPath(u, base)
             E == F!Entries(object, p)
             A == Answers(u, base, page)
  <1>1. u \in Text /\ base \in Text /\ p \in Text
    BY PathsAreText, PathChars
  <1>3. /\ page \subseteq E
        /\ \A e \in page, d \in E : F!Before(d.name, e.name) => d \in page
    BY DEF F!Listed, F!Pages
  <1>4. \A f \in A : \E e \in page : f = Shown(u, base, e)
    BY DEF Answers
  <1>5. \A e \in page : Shown(u, base, e) \in A
    BY DEF Answers
  <1>6. ASSUME NEW e \in E
        PROVE  /\ Shown(u, base, e) \in F!Userfile
               /\ Shown(u, base, e).is_folder = e.is_folder
               /\ Shown(u, base, e).name \in Text
               /\ F!BuildPath(u, Shown(u, base, e).name) = e.name
               /\ F!IsPrefix(base, Shown(u, base, e).name)
               /\ e.is_folder => base # Shown(u, base, e).name
    BY ShownLeadsBack DEF F!Userfile, Text
  <1>7. ASSUME NEW e \in E
        PROVE  /\ e = [name |-> e.name, is_folder |-> e.is_folder]
               /\ e.name \in Text /\ e.is_folder \in BOOLEAN
               /\ ~e.is_folder => e.name \in object
               /\ e.is_folder => \E k \in object : F!IsPrefix(e.name, k)
    BY <1>1, EntryMeans
  <1>8. ASSUME NEW k \in object, F!IsPrefix(p, k)
        PROVE  \E e \in E : IF e.is_folder THEN F!IsPrefix(e.name, k) ELSE e.name = k
    BY <1>1, <1>8, EntryExists
  <1> HIDE DEF p, E, A
  <1>9. A \in SUBSET F!Userfile
    BY <1>3, <1>4, <1>6
  <1>10. ASSUME NEW f \in A
         PROVE  IF f.is_folder
                  THEN \E k \in object : IsStrictPrefix(F!BuildPath(u, f.name), k)
                                         \/ F!BuildPath(u, f.name) = k
                  ELSE F!BuildPath(u, f.name) \in object
    <2>1. PICK e \in E : f = Shown(u, base, e)
      BY <1>3, <1>4
    <2>2. f.is_folder = e.is_folder /\ F!BuildPath(u, f.name) = e.name
      BY <1>6, <2>1
    <2>3. CASE e.is_folder
      <3>1. PICK k \in object : F!IsPrefix(e.name, k)
        BY <1>7, <2>3
      <3>2. IsStrictPrefix(e.name, k) \/ e.name = k
        BY <1>7, <3>1, PrefixChars
      <3> QED BY <2>2, <2>3, <3>2
    <2>4. CASE ~e.is_folder
      BY <1>7, <2>2, <2>4
    <2> QED BY <2>3, <2>4
  <1>11. ASSUME NEW f \in A, NEW k \in object, IsPrefix(p, k),
                F!Before(k, F!BuildPath(u, f.name))
         PROVE  \E g \in A : IF g.is_folder
                               THEN /\ IsPrefix(F!BuildPath(u, g.name), k)
                                    /\ IsStrictPrefix(base, g.name)
                               ELSE F!BuildPath(u, g.name) = k
    <2>1. PICK last \in page : f = Shown(u, base, last)
      BY <1>4, <1>11
    <2>2. PICK e \in E : IF e.is_folder THEN F!IsPrefix(e.name, k) ELSE e.name = k
      BY <1>1, <1>8, <1>11, PrefixChars
    <2>6. e \in page
      <3>1. F!Before(k, last.name) /\ last.name \in Text /\ e.name \in Text /\ k \in Text
        BY <1>3, <1>6, <1>7, <1>11, <2>1
      <3>2. F!Before(e.name, last.name)
        BY <1>7, <2>2, <3>1, PrefixBefore
      <3> QED BY <1>3, <3>2
    <2> DEFINE g == Shown(u, base, e)
    <2>3. /\ g \in A /\ g.is_folder = e.is_folder /\ g.name \in Text
          /\ F!BuildPath(u, g.name) = e.name /\ F!IsPrefix(base, g.name)
          /\ e.is_folder => base # g.name
      BY <1>5, <1>6, <2>6
    <2> HIDE DEF g
    <2>4. CASE e.is_folder
      <3>1. IsPrefix(e.name, k)
        BY <1>7, <2>2, <2>4, PrefixChars
      <3>2. IsStrictPrefix(base, g.name)
        BY <1>1, <2>3, <2>4, PrefixChars
      <3> QED BY <2>3, <2>4, <3>1, <3>2
    <2>5. CASE ~e.is_folder
      BY <2>2, <2>3, <2>5
    <2> QED BY <2>4, <2>5
  <1> QED BY <1>9, <1>10, <1>11 DEF A, p

-----------------------------------------------------------------------------
(***************************************************************************)
(* The behaviours.  A request that is under way has a user and a path, and *)
(* no answer yet.                                                          *)
(***************************************************************************)
FilesInv ==
  /\ F!TypeOK
  /\ host \in [Slot -> Server \cup {NULL}]
  /\ \A c \in Slot : pc[c] # "idle" => job[c] \in F!Job /\ ans[c].res = "none"

\* No request and no file.
LEMMA InitFilesInv == Init => FilesInv
  <1> SUFFICES ASSUME Init PROVE FilesInv
    OBVIOUS
  <1>1. /\ object = {} /\ pc = [c \in Slot |-> "idle"] /\ job = [c \in Slot |-> NULL]
        /\ ans = [c \in Slot |-> [res |-> "none", files |-> {}, key |-> NULL]]
        /\ host = [c \in Slot |-> NULL]
    BY DEF Init, F!Init
  <1>2. [res |-> "none", files |-> {}, key |-> NULL] \in F!Answer
    BY DEF F!Answer
  <1>3. ans \in [Slot -> F!Answer]
    BY <1>1, <1>2, Zenon
  <1>4. object \in SUBSET F!Key /\ pc \in [Slot -> {"idle", "list", "delete"}]
        /\ job \in [Slot -> F!Job \cup {NULL}] /\ host \in [Slot -> Server \cup {NULL}]
    BY <1>1
  <1> QED BY <1>1, <1>3, <1>4 DEF FilesInv, F!TypeOK

\* A step that answers or starts one request.
LEMMA OneSlotMoves ==
  ASSUME FilesInv, NEW c \in Slot, NEW stage \in {"idle", "list", "delete"},
         NEW a \in F!Answer, NEW j \in F!Job,
         pc' = [pc EXCEPT ![c] = stage], ans' = [ans EXCEPT ![c] = a],
         job' = [job EXCEPT ![c] = j] \/ (job' = job /\ stage = "idle"),
         stage # "idle" => a.res = "none",
         object' \subseteq object,
         host' = host \/ \E s \in Server : host' = [host EXCEPT ![c] = s]
  PROVE  FilesInv'
  <1>1. object' \in SUBSET F!Key
    BY DEF FilesInv, F!TypeOK
  <1>2. /\ pc' \in [Slot -> {"idle", "list", "delete"}]
        /\ ans' \in [Slot -> F!Answer]
        /\ job' \in [Slot -> F!Job \cup {NULL}]
        /\ host' \in [Slot -> Server \cup {NULL}]
    BY DEF FilesInv, F!TypeOK
  <1>3. \A d \in Slot : pc'[d] # "idle" => job'[d] \in F!Job /\ ans'[d].res = "none"
    BY DEF FilesInv, F!TypeOK
  <1> QED BY <1>1, <1>2, <1>3 DEF FilesInv, F!TypeOK

\* Answers are of their type.
LEMMA AnswersTyped ==
  /\ \A r \in {"none", "ok", "redirect", "panic", "error"}, fs \in SUBSET F!Userfile,
        k \in F!Key \cup {NULL} :
       /\ [res |-> r, files |-> fs, key |-> k] \in F!Answer
       /\ [res |-> r, files |-> fs, key |-> k].res = r
  /\ \A a \in F!Answer : [a EXCEPT !.res = "error"] \in F!Answer
  BY DEF F!Answer

\* A listing answers with the entries of a page.
LEMMA ListStep ==
  ASSUME FilesInv, NEW c \in Slot, F!ListObjects(c)
  PROVE  /\ job[c] \in F!Job
         /\ pc' = [pc EXCEPT ![c] = "idle"] /\ job' = job /\ object' = object
         /\ \E page \in F!Listed(job[c].user, job[c].path) :
              LET A == Answers(job[c].user, job[c].path, page)
              IN  /\ A \in SUBSET F!Userfile
                  /\ ans' = [ans EXCEPT ![c] = [res |-> "ok", files |-> A, key |-> NULL]]
  <1>1. job[c] \in F!Job /\ job[c].user \in User /\ job[c].path \in Name \cup Base
    BY DEF FilesInv, F!ListObjects, F!Job
  <1>2. object \in SUBSET Text
    BY PathsAreText DEF FilesInv, F!TypeOK
  <1>3. /\ pc' = [pc EXCEPT ![c] = "idle"] /\ job' = job /\ object' = object
        /\ \E page \in F!Listed(job[c].user, job[c].path) :
             ans' = [ans EXCEPT ![c] =
                       [res |-> "ok", key |-> NULL,
                        files |-> {[e EXCEPT !.name = F!Stripped(job[c].user, job[c].path, @)] :
                                     e \in page}]]
    BY Zenon DEF F!ListObjects, F!Return, F!Answered
  <1>4. PICK page \in F!Listed(job[c].user, job[c].path) :
          ans' = [ans EXCEPT ![c] =
                    [res |-> "ok", files |-> Answers(job[c].user, job[c].path, page),
                     key |-> NULL]]
    BY <1>3 DEF Answers, Shown
  <1>5. Answers(job[c].user, job[c].path, page) \in SUBSET F!Userfile
    BY <1>1, <1>2, ListingAnswers
  <1> QED BY <1>1, <1>3, <1>4, <1>5

\* The other steps of a request answer without files.
LEMMA OtherSteps ==
  ASSUME FilesInv, NEW c \in Slot, F!DeleteObject(c) \/ F!Fail(c)
  PROVE  /\ job[c] \in F!Job
         /\ pc' = [pc EXCEPT ![c] = "idle"] /\ job' = job /\ object' \subseteq object
         /\ \E res \in {"ok", "error"} :
              /\ ans' = [ans EXCEPT ![c] = [res |-> res, files |-> {}, key |-> NULL]]
              /\ res = "ok" => pc[c] = "delete"
  <1>1. CASE F!DeleteObject(c)
    BY <1>1 DEF FilesInv, F!DeleteObject, F!Return, F!Answered
  <1>2. CASE F!Fail(c)
    BY <1>2 DEF FilesInv, F!Fail, F!Return, F!Answered
  <1> QED BY <1>1, <1>2

\* Servers take requests, and leave the files alone.
LEMMA AcceptKeepsFilesInv ==
  ASSUME FilesInv, NEW c \in Slot, NEW s \in Server, Accept(c, s)
  PROVE  FilesInv'
  <1>1. host' = [host EXCEPT ![c] = s]
    BY DEF Accept
  <1>2. ASSUME NEW u \in User, NEW p \in Name \cup Base,
               NEW stage \in {"list", "delete"}, F!Start(c, stage, u, p)
        PROVE  FilesInv'
    <2>1. [user |-> u, path |-> p] \in F!Job
      BY DEF F!Job
    <2>2. [res |-> "none", files |-> {}, key |-> NULL] \in F!Answer
      BY AnswersTyped
    <2>3. /\ pc' = [pc EXCEPT ![c] = stage]
          /\ job' = [job EXCEPT ![c] = [user |-> u, path |-> p]]
          /\ ans' = [ans EXCEPT ![c] = [res |-> "none", files |-> {}, key |-> NULL]]
          /\ object' = object
      BY <1>2 DEF F!Start, F!Answered
    <2> QED BY <1>1, <2>1, <2>2, <2>3, OneSlotMoves
  <1>3. ASSUME NEW u \in User, NEW n \in Name, NEW b \in B!Buckets,
               F!StartDownload(c, u, n, b)
        PROVE  FilesInv'
    <2>1. [user |-> u, path |-> n] \in F!Job /\ F!BuildPath(u, n) \in F!Key
      BY DEF F!Job, F!Key
    <2>2. PICK a \in F!Answer : ans' = [ans EXCEPT ![c] = a]
      BY <1>3, <2>1, AnswersTyped DEF F!StartDownload, F!Answered
    <2>3. /\ pc' = [pc EXCEPT ![c] = "idle"] /\ object' = object
          /\ job' = [job EXCEPT ![c] = [user |-> u, path |-> n]]
      BY <1>3 DEF F!StartDownload, FilesInv, F!TypeOK
    <2> QED BY <1>1, <2>1, <2>2, <2>3, OneSlotMoves
  <1> QED BY <1>2, <1>3 DEF Accept, F!GetUserfiles, F!DeleteUserfile

\* A request comes to its answer.
LEMMA ProgressKeepsFilesInv ==
  ASSUME FilesInv, NEW c \in Slot, Progress(c)
  PROVE  FilesInv'
  <1>1. host' = host /\ (F!ListObjects(c) \/ F!DeleteObject(c) \/ F!Fail(c))
    BY DEF Progress
  <1>2. CASE F!ListObjects(c)
    <2>1. PICK a \in F!Answer : ans' = [ans EXCEPT ![c] = a]
      BY <1>2, ListStep, AnswersTyped
    <2>2. /\ pc' = [pc EXCEPT ![c] = "idle"]
          /\ job' = job /\ object' = object /\ job[c] \in F!Job
      BY <1>2, ListStep
    <2> QED BY <1>1, <2>1, <2>2, OneSlotMoves
  <1>3. CASE F!DeleteObject(c) \/ F!Fail(c)
    <2>1. PICK a \in F!Answer : ans' = [ans EXCEPT ![c] = a]
      BY <1>3, OtherSteps, AnswersTyped
    <2>2. /\ pc' = [pc EXCEPT ![c] = "idle"]
          /\ job' = job /\ object' \subseteq object /\ job[c] \in F!Job
      BY <1>3, OtherSteps
    <2> QED BY <1>1, <2>1, <2>2, OneSlotMoves
  <1> QED BY <1>1, <1>2, <1>3

\* A crash ends the requests of the server.
LEMMA CrashKeepsFilesInv ==
  ASSUME FilesInv, NEW s \in Server, Crash(s)
  PROVE  FilesInv'
  <1> DEFINE D == {c \in Slot : host[c] = s}
             a(c) == IF c \in D /\ pc[c] # "idle"
                       THEN [ans[c] EXCEPT !.res = "error"] ELSE ans[c]
  <1>1. /\ pc' = [c \in Slot |-> IF c \in D THEN "idle" ELSE pc[c]]
        /\ ans' = [c \in Slot |-> a(c)]
        /\ object' = object /\ job' = job /\ host' = host
    BY Zenon DEF Crash, F!Drop
  <1>2. \A c \in Slot : a(c) \in F!Answer /\ (c \notin D => a(c) = ans[c])
    BY AnswersTyped DEF FilesInv, F!TypeOK
  <1> HIDE DEF D, a
  <1>3. pc' \in [Slot -> {"idle", "list", "delete"}] /\ ans' \in [Slot -> F!Answer]
    BY <1>1, <1>2 DEF FilesInv, F!TypeOK
  <1>4. \A c \in Slot : pc'[c] # "idle" => c \notin D /\ pc[c] # "idle" /\ ans'[c] = ans[c]
    BY <1>1, <1>2
  <1> QED BY <1>1, <1>3, <1>4 DEF FilesInv, F!TypeOK

\* Every step keeps the invariant.
LEMMA NextFilesInv == FilesInv /\ [Next]_vars => FilesInv'
  <1> SUFFICES ASSUME FilesInv, [Next]_vars PROVE FilesInv'
    OBVIOUS
  <1>1. ASSUME UNCHANGED fileVars, UNCHANGED host PROVE FilesInv'
    BY <1>1 DEF FilesInv, F!TypeOK, fileVars
  <1>2. CASE \E s \in Server : Run(s)
    BY <1>1, <1>2 DEF Run
  <1>3. CASE UNCHANGED vars
    BY <1>1, <1>3 DEF vars
  <1>4. ASSUME NEW k \in F!Key, StoreObject(k) PROVE FilesInv'
    <2>1. object' = object \cup {k} /\ UNCHANGED <<pc, job, ans, host>>
      BY <1>4 DEF StoreObject, F!StoreObject
    <2>2. object' \in SUBSET F!Key
      BY <2>1 DEF FilesInv, F!TypeOK
    <2> QED BY <2>1, <2>2 DEF FilesInv, F!TypeOK
  <1> QED BY <1>2, <1>3, <1>4, AcceptKeepsFilesInv, ProgressKeepsFilesInv,
             CrashKeepsFilesInv DEF Next

\* Every reachable state satisfies it.
LEMMA FilesInvariance == Spec => []FilesInv
  BY InitFilesInv, NextFilesInv, PTL DEF Spec

\* Servers, requests, answers and keys are what they should be, and listings
\* answer with nothing but names and kinds.
THEOREM TypeCorrect == Spec => []TypeOK
  <1>1. IInv /\ FilesInv => TypeOK
    BY DEF IInv, FilesInv, TypeOK
  <1> QED BY <1>1, Invariance, FilesInvariance, PTL

\* A step that lists answers with a page of what is under the path
\* that was asked for.
LEMMA ListsMeans ==
  ASSUME FilesInv, [Next]_vars, NEW c \in Slot, Lists(c)
  PROVE  /\ job[c].user \in User /\ job[c].path \in Name \cup Base
         /\ object \in SUBSET Text
         /\ \E page \in F!Listed(job[c].user, job[c].path) :
              ans'[c].files = Answers(job[c].user, job[c].path, page)
  <1>1. /\ pc[c] = "list" /\ ans'[c].res = "ok" /\ ans[c].res = "none"
        /\ job[c] \in F!Job /\ ans \in [Slot -> F!Answer]
    BY DEF FilesInv, F!TypeOK, Lists
  <1>2. ans'[c] # ans[c]
    BY <1>1
  <1>3. ~UNCHANGED ans
    BY <1>2
  <1>4. F!ListObjects(c)
    <2>1. ASSUME NEW s \in Server, NEW d \in Slot, Accept(d, s) PROVE FALSE
      <3>1. pc[d] = "idle" /\ \E a : ans' = [ans EXCEPT ![d] = a]
        BY <2>1 DEF Accept, F!GetUserfiles, F!DeleteUserfile, F!StartDownload,
                    F!Start, F!Answered
      <3> QED BY <1>1, <1>2, <3>1
    <2>2. ASSUME NEW s \in Server, Crash(s) PROVE FALSE
      <3> DEFINE D == {d \in Slot : host[d] = s}
      <3>1. ans' = [d \in Slot |-> IF d \in D /\ pc[d] # "idle"
                                     THEN [ans[d] EXCEPT !.res = "error"] ELSE ans[d]]
        BY <2>2, Zenon DEF Crash, F!Drop
      <3>2. ans'[c] = ans[c] \/ ans'[c] = [ans[c] EXCEPT !.res = "error"]
        BY <3>1
      <3>3. ans[c] \in F!Answer
        BY <1>1
      <3>4. [ans[c] EXCEPT !.res = "error"].res = "error"
        BY <3>3 DEF F!Answer
      <3> QED BY <1>1, <1>2, <3>2, <3>4
    <2>3. ASSUME NEW d \in Slot, Progress(d) PROVE F!ListObjects(c)
      <3>1. CASE F!ListObjects(d)
        <4>1. \E a : ans' = [ans EXCEPT ![d] = a]
          BY <3>1, ListStep
        <4>2. d = c
          BY <1>2, <4>1
        <4> QED BY <3>1, <4>2
      <3>2. CASE F!DeleteObject(d) \/ F!Fail(d)
        <4>1. PICK res \in {"ok", "error"} :
                /\ ans' = [ans EXCEPT ![d] = [res |-> res, files |-> {}, key |-> NULL]]
                /\ res = "ok" => pc[d] = "delete"
          BY <3>2, OtherSteps
        <4>2. d = c
          BY <1>2, <4>1
        <4> QED BY <1>1, <4>1, <4>2
      <3> QED BY <2>3, <3>1, <3>2 DEF Progress
    <2>4. ~(\E s \in Server : Run(s)) /\ ~(\E k \in F!Key : StoreObject(k)) /\ ~UNCHANGED vars
      BY <1>3 DEF Run, StoreObject, F!StoreObject, vars, fileVars
    <2> QED BY <2>1, <2>2, <2>3, <2>4 DEF Next
  <1>5. job[c].user \in User /\ job[c].path \in Name \cup Base
    BY <1>1 DEF F!Job
  <1>6. object \in SUBSET Text
    BY PathsAreText DEF FilesInv, F!TypeOK
  <1>7. \E page \in F!Listed(job[c].user, job[c].path) :
          ans'[c].files = Answers(job[c].user, job[c].path, page)
    BY <1>1, <1>4, ListStep
  <1> QED BY <1>5, <1>6, <1>7

\* Every name a listing answers with leads back to a file or a folder, for
\* any paths, and whatever was listed.
THEOREM NamesLeadBack == Spec => NamesRoundTrip
  <1>1. ASSUME FilesInv, [Next]_vars, NEW c \in Slot, Lists(c),
               NEW f \in ans'[c].files
        PROVE  IF f.is_folder
                 THEN \E k \in object : IsStrictPrefix(ListedKey(c, f), k)
                                        \/ ListedKey(c, f) = k
                 ELSE ListedKey(c, f) \in object
    BY <1>1, ListsMeans, ListingAnswers DEF ListedKey
  <1>2. FilesInv /\ [Next]_vars =>
          [\A c \in Slot : Lists(c) =>
             \A f \in ans'[c].files :
               IF f.is_folder
                 THEN \E k \in object : IsStrictPrefix(ListedKey(c, f), k)
                                        \/ ListedKey(c, f) = k
                 ELSE ListedKey(c, f) \in object]_vars
    BY <1>1
  <1> QED BY <1>2, FilesInvariance, PTL DEF Spec, NamesRoundTrip

\* For any size of a page and wherever S3 cuts it, listings leave out nothing
\* that comes before something they show.
THEOREM NothingLeftOut == Spec => OnlyTheEndIsMissing
  <1>1. ASSUME FilesInv, [Next]_vars, NEW c \in Slot, Lists(c),
               NEW f \in ans'[c].files, NEW k \in object,
               IsPrefix(F!BuildPath(job[c].user, job[c].path), k),
               F!Before(k, ListedKey(c, f))
        PROVE  \E g \in ans'[c].files : Shows(c, g, k)
    BY <1>1, ListsMeans, ListingAnswers DEF ListedKey, Shows
  <1>2. FilesInv /\ [Next]_vars =>
          [\A c \in Slot : Lists(c) =>
             \A f \in ans'[c].files, k \in object :
               /\ IsPrefix(F!BuildPath(job[c].user, job[c].path), k)
               /\ F!Before(k, ListedKey(c, f))
               => \E g \in ans'[c].files : Shows(c, g, k)]_vars
    BY <1>1
  <1> QED BY <1>2, FilesInvariance, PTL DEF Spec, OnlyTheEndIsMissing
=============================================================================

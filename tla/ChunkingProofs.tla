--------------------------- MODULE ChunkingProofs ---------------------------
(***************************************************************************)
(* Proofs about Chunking for any document, chunk size and overlap.         *)
(*                                                                         *)
(* The texts of a document come out of a recursion over sequences.  What   *)
(* it computes is found by induction over numbers, which follows from the  *)
(* library's theorems on minimal elements (LeastNumber, Induction).  The   *)
(* invariant then says where the letters are while the loops run.          *)
(***************************************************************************)
EXTENDS Chunking, FiniteSetTheorems, WellFoundedInduction, SequenceTheorems,
        TLAPS

-----------------------------------------------------------------------------
(* A set of naturals that is not empty has a least element.                *)
LEMMA LeastNumber ==
  ASSUME NEW T \in SUBSET Nat, T # {}
  PROVE  \E m \in T : \A k \in T : m <= k
<1> DEFINE below(n) == {k \in Nat : k < n}
           Below == {below(n) : n \in T}
<1>1. \A n \in T : below(n) \in FiniteSubsetsOf(Nat)
  <2> SUFFICES ASSUME NEW n \in T PROVE below(n) \in FiniteSubsetsOf(Nat)
    OBVIOUS
  <2>1. below(n) \in SUBSET Nat /\ \A k \in below(n) : k <= n
    OBVIOUS
  <2> QED
    BY <2>1, FS_BoundedSetOfNaturals DEF FiniteSubsetsOf
<1>2. PICK x \in Below :
          \A y \in Below : <<y, x>> \notin StrictSubsetOrdering(Nat)
  <2> HIDE DEF below
  <2>1. Below \subseteq FiniteSubsetsOf(Nat) /\ Below # {}
    BY <1>1
  <2> HIDE DEF Below
  <2> QED
    BY <2>1, WFMin, FS_StrictSubsetOrderingWellFounded
<1>3. PICK m \in T : x = below(m)
  OBVIOUS
<1>4. ASSUME NEW k \in T, k < m PROVE FALSE
  <2>1. below(k) \subseteq below(m) /\ k \in below(m) /\ k \notin below(k)
    BY <1>4
  <2>2. <<below(k), below(m)>> \in StrictSubsetOrdering(Nat)
    <3> HIDE DEF below
    <3>1. below(k) \in SUBSET Nat /\ below(m) \in SUBSET Nat
      BY DEF below
    <3> QED
      BY <2>1, <3>1 DEF StrictSubsetOrdering
  <2> QED
    BY <1>2, <1>3, <2>2
<1> QED
  BY <1>4

LEMMA Induction ==
  ASSUME NEW T \in SUBSET Nat, 0 \in T, \A n \in T : n + 1 \in T
  PROVE  T = Nat
<1> SUFFICES ASSUME Nat \ T # {} PROVE FALSE
  OBVIOUS
<1>1. PICK m \in Nat \ T : \A k \in Nat \ T : m <= k
  BY LeastNumber
<1>2. m # 0 /\ m - 1 \in Nat /\ m - 1 \in T
  BY <1>1
<1> QED
  BY <1>1, <1>2

(* A recursion over 1 .. n: step[i] takes the value at i - 1 to the one at  *)
(* i.  It always has a solution.                                           *)
StepsOf(S, n) == [1 .. n -> [S -> S]]
Runs(S, n, base, step) ==
    {f \in [0 .. n -> S] :
        f[0] = base /\ \A i \in 1 .. n : f[i] = step[i][f[i - 1]]}

LEMMA Recursion ==
  ASSUME NEW S, NEW n \in Nat, NEW base \in S, NEW step \in StepsOf(S, n)
  PROVE  \E f : f \in Runs(S, n, base, step)
<1> USE DEF StepsOf
<1> DEFINE Solves(f, m) == f[0] = base /\ \A i \in 1 .. m : f[i] = step[i][f[i - 1]]
           Solved(m) == m <= n => \E f \in [0 .. m -> S] : Solves(f, m)
           T == {m \in Nat : Solved(m)}
<1>1. Solved(0)
  <2>1. [i \in 0 .. 0 |-> base] \in [0 .. 0 -> S]
    OBVIOUS
  <2>2. Solves([i \in 0 .. 0 |-> base], 0)
    OBVIOUS
  <2> QED
    BY <2>1, <2>2
<1>2. ASSUME NEW m \in Nat, Solved(m) PROVE Solved(m + 1)
  <2> SUFFICES ASSUME m + 1 <= n
               PROVE  \E f \in [0 .. m + 1 -> S] : Solves(f, m + 1)
    OBVIOUS
  <2>1. PICK f \in [0 .. m -> S] : Solves(f, m)
    BY <1>2
  <2> DEFINE g == [i \in 0 .. m + 1 |->
                      IF i = m + 1 THEN step[m + 1][f[m]] ELSE f[i]]
  <2>2. step[m + 1][f[m]] \in S
    OBVIOUS
  <2>3. g \in [0 .. m + 1 -> S]
    BY <2>2
  <2>4. \A i \in 0 .. m : g[i] = f[i]
    OBVIOUS
  <2>5. g[m + 1] = step[m + 1][f[m]]
    OBVIOUS
  <2> HIDE DEF g
  <2>6. Solves(g, m + 1)
    BY <2>1, <2>4, <2>5
  <2> QED
    BY <2>3, <2>6
<1> HIDE DEF Solved
<1>3. T \in SUBSET Nat /\ 0 \in T /\ \A m \in T : m + 1 \in T
  BY <1>1, <1>2
<1> HIDE DEF T
<1>4. T = Nat
  BY <1>3, Induction
<1>5. Solved(n)
  BY <1>4 DEF T
<1> QED
  BY <1>5 DEF Solved, Runs

-----------------------------------------------------------------------------
JoinStep(texts, separator, done, n) ==
    IF done = <<>> THEN texts[n] ELSE done \o separator \o texts[n]

(* The recursion of Joined is well defined.                                *)
LEMMA JoinedSteps ==
  ASSUME NEW S, NEW texts \in Seq(Seq(S)), NEW separator \in Seq(S)
  PROVE  \E f \in [0 .. Len(texts) -> Seq(S)] :
            /\ f[0] = <<>>
            /\ \A n \in 1 .. Len(texts) :
                  f[n] = JoinStep(texts, separator, f[n - 1], n)
            /\ Joined(texts, separator) = f[Len(texts)]
<1> DEFINE N == Len(texts)
           Solves(f) == f = [n \in 0 .. N |-> IF n = 0 THEN <<>>
                            ELSE JoinStep(texts, separator, f[n - 1], n)]
           g == CHOOSE f : Solves(f)
           step == [n \in 1 .. N |-> [done \in Seq(S) |->
                       JoinStep(texts, separator, done, n)]]
<1>1. N \in Nat /\ <<>> \in Seq(S)
  OBVIOUS
<1>2. step \in [1 .. N -> [Seq(S) -> Seq(S)]]
  <2>1. ASSUME NEW n \in 1 .. N, NEW done \in Seq(S)
        PROVE  JoinStep(texts, separator, done, n) \in Seq(S)
    <3>1. texts[n] \in Seq(S)
      OBVIOUS
    <3>2. done \o separator \in Seq(S) /\ (done \o separator) \o texts[n] \in Seq(S)
      BY <3>1, ConcatProperties
    <3> QED
      BY <3>1, <3>2 DEF JoinStep
  <2> QED
    BY <2>1
<1>3. PICK f \in [0 .. N -> Seq(S)] :
          f[0] = <<>> /\ \A n \in 1 .. N : f[n] = step[n][f[n - 1]]
  <2> DEFINE T == Seq(S)
             empty == <<>>
  <2>1. empty \in T /\ N \in Nat /\ step \in StepsOf(T, N)
    BY <1>1, <1>2 DEF StepsOf
  <2> HIDE DEF step, N, T, empty
  <2>2. \E f : f \in Runs(T, N, empty, step)
    BY <2>1, Recursion
  <2> QED
    BY <2>2 DEF T, empty, Runs
<1>4. \A n \in 1 .. N : f[n] = JoinStep(texts, separator, f[n - 1], n)
  <2> SUFFICES ASSUME NEW n \in 1 .. N
               PROVE  f[n] = JoinStep(texts, separator, f[n - 1], n)
    OBVIOUS
  <2>1. f[n - 1] \in Seq(S)
    <3>1. n - 1 \in 0 .. N
      BY <1>1
    <3> QED
      BY <3>1
  <2> QED
    BY <1>3, <2>1
<1>5. Solves(f)
  <2> HIDE DEF N
  <2> QED
    BY <1>1, <1>3, <1>4
<1>6. Solves(g)
  <2> HIDE DEF Solves
  <2> QED
    BY <1>5
<1> HIDE DEF g
<1> DEFINE Same == {n \in Nat : n <= N => g[n] = f[n]}
<1>7. Same = Nat
  <2>1. 0 \in Same
    BY <1>1, <1>3, <1>6
  <2>2. ASSUME NEW n \in Same PROVE n + 1 \in Same
    <3>1. n \in Nat /\ (n <= N => g[n] = f[n])
      OBVIOUS
    <3>2. ASSUME n + 1 <= N PROVE g[n + 1] = f[n + 1]
      <4>1. n + 1 \in 1 .. N /\ n + 1 # 0 /\ (n + 1) - 1 = n /\ n + 1 \in 0 .. N
        BY <1>1, <3>1, <3>2
      <4>2. g[n + 1] = JoinStep(texts, separator, g[n], n + 1)
        BY <1>6, <4>1
      <4>3. f[n + 1] = JoinStep(texts, separator, f[n], n + 1)
        BY <1>4, <4>1
      <4> QED
        BY <1>1, <3>1, <4>1, <4>2, <4>3
    <3> QED
      BY <3>1, <3>2
  <2> HIDE DEF Same
  <2>3. Same \in SUBSET Nat
    BY DEF Same
  <2> QED
    BY <2>1, <2>2, <2>3, Induction
<1>8. Joined(texts, separator) = g[N]
  BY DEF Joined, JoinStep, g
<1>9. g[N] = f[N]
  BY <1>1, <1>7, SMTT(20)
<1> HIDE DEF N
<1> QED
  BY <1>3, <1>4, <1>8, <1>9 DEF N

(* What is in the first n of the texts.                                    *)
Parts(texts, n) == UNION {Range(texts[i]) : i \in 1 .. n}

LEMMA PartsGrow ==
  ASSUME NEW texts
  PROVE  /\ Parts(texts, 0) = {}
         /\ \A n \in Nat :
               Parts(texts, n + 1) = Parts(texts, n) \cup Range(texts[n + 1])
<1>1. Parts(texts, 0) = {}
  BY DEF Parts
<1>2. ASSUME NEW n \in Nat
      PROVE  Parts(texts, n + 1) = Parts(texts, n) \cup Range(texts[n + 1])
  <2>1. 1 .. n + 1 = (1 .. n) \cup {n + 1}
    OBVIOUS
  <2>2. Parts(texts, n + 1) = UNION {Range(texts[i]) : i \in (1 .. n) \cup {n + 1}}
    BY <2>1 DEF Parts
  <2> QED
    BY <2>2 DEF Parts
<1> QED
  BY <1>1, <1>2

(* Joined keeps what is in the texts, and adds nothing but the separator.  *)
LEMMA JoinedRange ==
  ASSUME NEW S, NEW texts \in Seq(Seq(S)), NEW separator \in Seq(S)
  PROVE  /\ Joined(texts, separator) \in Seq(S)
         /\ Parts(texts, Len(texts)) \subseteq Range(Joined(texts, separator))
         /\ Range(Joined(texts, separator))
               \subseteq Parts(texts, Len(texts)) \cup Range(separator)
<1> DEFINE N == Len(texts)
<1>1. N \in Nat
  OBVIOUS
<1>2. PICK f \in [0 .. N -> Seq(S)] :
            /\ f[0] = <<>>
            /\ \A n \in 1 .. N : f[n] = JoinStep(texts, separator, f[n - 1], n)
            /\ Joined(texts, separator) = f[N]
  BY JoinedSteps
<1>3. \A i \in 1 .. N : texts[i] \in Seq(S)
  OBVIOUS
<1> HIDE DEF N
<1> DEFINE Holds(n) == /\ Parts(texts, n) \subseteq Range(f[n])
                       /\ Range(f[n]) \subseteq Parts(texts, n) \cup Range(separator)
           T == {n \in Nat : n <= N => Holds(n)}
<1>4. Holds(0)
  BY <1>2, PartsGrow DEF Range
<1>5. ASSUME NEW n \in Nat, n + 1 <= N, Holds(n) PROVE Holds(n + 1)
  <2> DEFINE done == f[n]
             next == texts[n + 1]
  <2>1. /\ n + 1 \in 1 .. N /\ (n + 1) - 1 = n
        /\ done \in Seq(S) /\ next \in Seq(S)
    BY <1>1, <1>2, <1>3, <1>5
  <2>2. f[n + 1] = IF done = <<>> THEN next ELSE (done \o separator) \o next
    BY <1>2, <2>1 DEF JoinStep
  <2>3. Parts(texts, n + 1) = Parts(texts, n) \cup Range(next)
    BY PartsGrow
  <2>4. /\ Parts(texts, n) \subseteq Range(done)
        /\ Range(done) \subseteq Parts(texts, n) \cup Range(separator)
    BY <1>5
  <2> HIDE DEF done, next
  <2>5. CASE done = <<>>
    <3>1. f[n + 1] = next /\ Range(done) = {}
      BY <2>2, <2>5 DEF Range
    <3> QED
      BY <2>3, <2>4, <3>1
  <2>6. CASE done # <<>>
    <3> DEFINE left == done \o separator
    <3>1. f[n + 1] = left \o next
      BY <2>2, <2>6
    <3>2. left \in Seq(S) /\ Range(left) = Range(done) \cup Range(separator)
      BY <2>1, ConcatProperties, RangeConcatenation
    <3> HIDE DEF left
    <3>3. Range(f[n + 1]) = Range(left) \cup Range(next)
      BY <2>1, <3>1, <3>2, RangeConcatenation
    <3> QED
      BY <2>3, <2>4, <3>2, <3>3
  <2> QED
    BY <2>5, <2>6
<1> HIDE DEF Holds
<1>6. T \in SUBSET Nat /\ 0 \in T /\ \A n \in T : n + 1 \in T
  BY <1>1, <1>4, <1>5
<1>7. T = Nat
  <2> HIDE DEF T
  <2> QED
    BY <1>6, Induction
<1>8. Holds(N)
  <2>1. N \in T
    BY <1>1, <1>7
  <2> QED
    BY <1>1, <2>1
<1>9. f[N] \in Seq(S)
  BY <1>1, <1>2
<1> QED
  BY <1>2, <1>8, <1>9 DEF Holds, N

-----------------------------------------------------------------------------
Char == Seq(Nat)
String == Seq(Char)

LettersOf(texts) == UNION {Letters(t) : t \in Range(texts)}
LettersIn(paras) == UNION {LettersOf(t) : t \in Range(paras)}

LEMMA JoinedLetters ==
  ASSUME NEW texts \in Seq(String), NEW separator \in String,
         Range(separator) \subseteq {Blank}
  PROVE  /\ Joined(texts, separator) \in String
         /\ Letters(Joined(texts, separator)) = LettersOf(texts)
<1> DEFINE joined == Joined(texts, separator)
<1>1. /\ joined \in String
      /\ Parts(texts, Len(texts)) \subseteq Range(joined)
      /\ Range(joined) \subseteq Parts(texts, Len(texts)) \cup Range(separator)
  BY JoinedRange DEF String
<1> HIDE DEF joined
<1>2. Parts(texts, Len(texts)) = UNION {Range(t) : t \in Range(texts)}
  <2>1. Range(texts) = {texts[i] : i \in 1 .. Len(texts)}
    BY RangeEquality
  <2> QED
    BY <2>1 DEF Parts
<1>3. Letters(joined) = LettersOf(texts)
  BY <1>1, <1>2 DEF Letters, LettersOf
<1> QED
  BY <1>1, <1>3 DEF joined

LEMMA BlankIs ==
  /\ Blank \in Char /\ <<>> \in String
  /\ <<Blank>> \in String /\ <<Blank, Blank>> \in String
  /\ Range(<<>>) = {} /\ Letters(<<>>) = {}
  /\ Range(<<Blank>>) \subseteq {Blank}
  /\ Range(<<Blank, Blank>>) \subseteq {Blank}
<1>1. Blank \in Char
  BY DEF Blank, Char
<1>2. <<>> \in String /\ <<Blank>> \in String /\ <<Blank, Blank>> \in String
  BY <1>1 DEF String
<1>3. /\ Range(<<>>) = {}
      /\ Range(<<Blank>>) \subseteq {Blank}
      /\ Range(<<Blank, Blank>>) \subseteq {Blank}
  <2> HIDE DEF Blank
  <2> QED
    BY DEF Range
<1> QED
  BY <1>1, <1>2, <1>3 DEF Letters

LEMMA ConcatLetters ==
  ASSUME NEW s \in String, NEW t \in String
  PROVE  s \o t \in String /\ Letters(s \o t) = Letters(s) \cup Letters(t)
<1>1. s \o t \in String /\ Range(s \o t) = Range(s) \cup Range(t)
  BY ConcatProperties, RangeConcatenation DEF String
<1> QED
  BY <1>1 DEF Letters

-----------------------------------------------------------------------------
(* The texts of a document.                                                *)
Lengthy == Seq(Seq(Seq(Nat)))

LEMMA SeqOfInSeq ==
  ASSUME NEW S, NEW n \in Nat, NEW s \in SeqOf(S, n)
  PROVE  s \in Seq(S)
<1>1. PICK m \in 0 .. n : s \in [1 .. m -> S]
  BY DEF SeqOf
<1> QED
  BY <1>1

LEMMA SeqMoreOf ==
  ASSUME NEW S, NEW T, S \subseteq T
  PROVE  Seq(S) \subseteq Seq(T)
  BY SeqMonotonic

LEMMA DocumentIs == Document \subseteq Lengthy
<1>1. Lengths \subseteq Nat
  BY ChunkingAssumption
<1>2. Paragraph \subseteq Seq(Nat)
  <2>1. \A x \in Paragraph : x \in Seq(Lengths)
    BY SeqOfInSeq, ChunkingAssumption DEF Paragraph
  <2> QED
    BY <1>1, <2>1, SeqMoreOf
<1>3. Page \subseteq Seq(Seq(Nat))
  <2>1. \A x \in Page : x \in Seq(Paragraph)
    BY SeqOfInSeq, ChunkingAssumption DEF Page
  <2> QED
    BY <1>2, <2>1, SeqMoreOf
<1>4. \A x \in Document : x \in Seq(Page)
  BY SeqOfInSeq, ChunkingAssumption DEF Document
<1> QED
  BY <1>3, <1>4, SeqMoreOf DEF Lengthy

LEMMA FunctionIsSeq ==
  ASSUME NEW S, NEW n \in Nat, NEW f \in [1 .. n -> S]
  PROVE  f \in Seq(S) /\ Len(f) = n /\ Range(f) = {f[i] : i \in 1 .. n}
  BY DEF Range

LEMMA SentenceIs ==
  ASSUME NEW place \in Char, NEW length \in Nat
  PROVE  Sentence(place, length) \in String
<1>1. \A i \in 1 .. length : Append(place, i) \in Char
  BY AppendProperties DEF Char
<1> HIDE DEF Char
<1>2. Sentence(place, length) \in [1 .. length -> Char]
  BY <1>1 DEF Sentence
<1> QED
  BY <1>2, FunctionIsSeq DEF String

LEMMA ParagraphIs ==
  ASSUME NEW d \in Lengthy, NEW p \in 1 .. Len(d)
  PROVE  /\ Len(d[p]) \in Nat /\ Len(ParagraphsOf(d, p)) = Len(d[p])
         /\ ParagraphsOf(d, p) \in Seq(Seq(String))
<1>1. Len(d) \in Nat /\ d[p] \in Seq(Seq(Nat)) /\ Len(d[p]) \in Nat
  BY DEF Lengthy
<1>2. ASSUME NEW g \in 1 .. Len(d[p])
      PROVE  Sentences(d, p, g) \in Seq(String)
  <2>1. d[p][g] \in Seq(Nat) /\ Len(d[p][g]) \in Nat
    BY <1>1, <1>2
  <2>2. ASSUME NEW s \in 1 .. Len(d[p][g])
        PROVE  Sentence(<<p, g, s>>, d[p][g][s]) \in String
    <3>1. <<p, g, s>> \in Char
      BY <1>1, <2>1 DEF Char
    <3>2. d[p][g][s] \in Nat
      BY <2>1
    <3> QED
      BY <3>1, <3>2, SentenceIs
  <2> HIDE DEF String
  <2>3. Sentences(d, p, g) \in [1 .. Len(d[p][g]) -> String]
    BY <2>2 DEF Sentences
  <2> QED
    BY <2>1, <2>3, FunctionIsSeq
<1> HIDE DEF String
<1>3. ParagraphsOf(d, p) \in [1 .. Len(d[p]) -> Seq(String)]
  BY <1>2 DEF ParagraphsOf
<1> QED
  BY <1>1, <1>3, FunctionIsSeq

LEMMA TextOfLetters ==
  ASSUME NEW paragraph \in Seq(String)
  PROVE  /\ TextOf(paragraph) \in String
         /\ Letters(TextOf(paragraph)) = LettersOf(paragraph)
  BY BlankIs, JoinedLetters DEF TextOf

LEMMA PageLetters ==
  ASSUME NEW d \in Lengthy, NEW p \in 1 .. Len(d)
  PROVE  /\ PageText(d, p) \in String
         /\ Letters(PageText(d, p)) = LettersIn(ParagraphsOf(d, p))
<1> DEFINE paras == ParagraphsOf(d, p)
           n == Len(d[p])
           texts == [g \in 1 .. n |-> TextOf(paras[g])]
<1>1. n \in Nat /\ Len(paras) = n /\ paras \in Seq(Seq(String))
  BY ParagraphIs
<1> HIDE DEF paras, n
<1>2. \A g \in 1 .. n : paras[g] \in Seq(String)
  BY <1>1
<1>3. \A g \in 1 .. n : /\ TextOf(paras[g]) \in String
                        /\ Letters(TextOf(paras[g])) = LettersOf(paras[g])
  BY <1>2, TextOfLetters
<1> HIDE DEF String
<1>4. texts \in [1 .. n -> String]
  BY <1>3
<1>5. texts \in Seq(String) /\ Range(texts) = {texts[g] : g \in 1 .. n}
  <2> HIDE DEF texts
  <2> QED
    BY <1>1, <1>4, FunctionIsSeq
<1>6. Range(paras) = {paras[g] : g \in 1 .. n}
  BY <1>1, RangeEquality
<1>7. PageText(d, p) = Joined(texts, <<Blank, Blank>>)
  BY DEF PageText, texts, paras, n
<1>8. LettersOf(texts) = LettersIn(paras)
  <2>1. LettersOf(texts) = UNION {Letters(texts[g]) : g \in 1 .. n}
    BY <1>5 DEF LettersOf
  <2>2. LettersIn(paras) = UNION {LettersOf(paras[g]) : g \in 1 .. n}
    BY <1>6 DEF LettersIn
  <2>3. \A g \in 1 .. n : Letters(texts[g]) = LettersOf(paras[g])
    BY <1>3
  <2> QED
    BY <2>1, <2>2, <2>3
<1> QED
  BY <1>5, <1>7, <1>8, BlankIs, JoinedLetters DEF paras

(* What a document holds is what its pages and its paragraphs hold.        *)
Whole(d) == UNION {Letters(PageText(d, p)) : p \in 1 .. Len(d)}

LEMMA DocumentLetters ==
  ASSUME NEW d \in Lengthy
  PROVE  /\ PageTexts(d) \in Seq(String) /\ LettersOf(PageTexts(d)) = Whole(d)
         /\ Paragraphs(d) \in Seq(Seq(String))
         /\ LettersIn(Paragraphs(d)) = Whole(d)
<1> DEFINE N == Len(d)
           split == [p \in 1 .. N |-> ParagraphsOf(d, p)]
<1>1. N \in Nat
  BY DEF Lengthy
<1>2. \A p \in 1 .. N : /\ PageText(d, p) \in String
                        /\ ParagraphsOf(d, p) \in Seq(Seq(String))
                        /\ Letters(PageText(d, p)) = LettersIn(ParagraphsOf(d, p))
  BY PageLetters, ParagraphIs
<1> HIDE DEF String
<1>3. PageTexts(d) \in [1 .. N -> String]
  BY <1>2 DEF PageTexts
<1>4. /\ PageTexts(d) \in Seq(String)
      /\ Range(PageTexts(d)) = {PageTexts(d)[p] : p \in 1 .. N}
  <2> DEFINE pages == PageTexts(d)
             T == String
  <2>1. pages \in [1 .. N -> T]
    BY <1>3
  <2> HIDE DEF pages, T, N
  <2>2. pages \in Seq(T) /\ Range(pages) = {pages[p] : p \in 1 .. N}
    BY <1>1, <2>1, FunctionIsSeq
  <2> QED
    BY <2>2 DEF pages, T
<1>5. LettersOf(PageTexts(d)) = Whole(d)
  <2>1. \A p \in 1 .. N : PageTexts(d)[p] = PageText(d, p)
    BY DEF PageTexts
  <2>2. LettersOf(PageTexts(d)) = UNION {Letters(PageTexts(d)[p]) : p \in 1 .. N}
    BY <1>4 DEF LettersOf
  <2> QED
    BY <2>1, <2>2 DEF Whole
<1> DEFINE T == Seq(String)
<1>6. split \in [1 .. N -> Seq(T)]
  BY <1>2
<1>7. /\ split \in Seq(Seq(T)) /\ Len(split) = N
      /\ \A p \in 1 .. N : split[p] = ParagraphsOf(d, p)
  <2>1. \A p \in 1 .. N : split[p] = ParagraphsOf(d, p)
    OBVIOUS
  <2> HIDE DEF split, T
  <2> QED
    BY <1>1, <1>6, <2>1, FunctionIsSeq
<1>8. Paragraphs(d) = Joined(split, <<>>)
  BY DEF Paragraphs
<1> HIDE DEF split, T
<1>9. /\ Paragraphs(d) \in Seq(T)
      /\ Range(Paragraphs(d)) = Parts(split, N)
  <2> DEFINE empty == <<>>
             joined == Joined(split, empty)
  <2>1. empty \in Seq(T) /\ Range(empty) = {}
    BY BlankIs
  <2> HIDE DEF empty, N
  <2>2. /\ joined \in Seq(T)
        /\ Parts(split, Len(split)) \subseteq Range(joined)
        /\ Range(joined) \subseteq Parts(split, Len(split)) \cup Range(empty)
    BY <1>7, <2>1, JoinedRange
  <2>3. Paragraphs(d) = joined
    BY <1>8 DEF empty
  <2> HIDE DEF joined
  <2> QED
    BY <1>7, <2>1, <2>2, <2>3
<1>10. Parts(split, N) = UNION {Range(ParagraphsOf(d, p)) : p \in 1 .. N}
  BY <1>7 DEF Parts
<1>11. LettersIn(Paragraphs(d)) = UNION {LettersIn(ParagraphsOf(d, p)) : p \in 1 .. N}
  BY <1>9, <1>10 DEF LettersIn
<1>12. LettersIn(Paragraphs(d)) = Whole(d)
  BY <1>2, <1>11 DEF Whole
<1> QED
  BY <1>4, <1>5, <1>9, <1>12 DEF T

-----------------------------------------------------------------------------
(* The windows of a text.                                                  *)
ChunkOf == [index : Nat, text : String]
Held(chunks) == UNION {Letters(c.text) : c \in Range(chunks)}

LEMMA Quotient ==
  ASSUME NEW u \in Nat, NEW d \in Nat \ {0}
  PROVE  /\ u \div d \in Nat
         /\ (u \div d) * d <= u /\ u < (u \div d) * d + d
  BY SMT

LEMMA AdvanceIs == Advance \in Nat \ {0} /\ Advance <= ChunkSize /\ ChunkSize \in Nat
  BY ChunkingAssumption DEF Advance

LEMMA CutLetters ==
  ASSUME NEW text \in String, NEW m \in Nat \ {0}, NEW n \in Nat, n <= Len(text)
  PROVE  /\ SubSeq(text, m, n) \in String
         /\ Range(SubSeq(text, m, n)) = {text[i] : i \in m .. n}
<1>1. Len(text) \in Nat /\ \A i \in m .. n : text[i] \in Char
  <2> HIDE DEF Char
  <2> QED
    BY DEF String
<1>2. /\ SubSeq(text, m, n) \in Seq(Char)
      /\ Len(SubSeq(text, m, n)) = IF m <= n THEN n - m + 1 ELSE 0
      /\ \A i \in 1 .. n - m + 1 : SubSeq(text, m, n)[i] = text[m + i - 1]
  BY <1>1, SubSeqProperties
<1> DEFINE cut == SubSeq(text, m, n)
<1> HIDE DEF cut
<1>3. Range(cut) = {cut[i] : i \in 1 .. Len(cut)}
  BY <1>2, RangeEquality DEF cut
<1>4. ASSUME NEW x \in Range(cut) PROVE x \in {text[i] : i \in m .. n}
  <2>1. PICK i \in 1 .. Len(cut) : x = cut[i]
    BY <1>3, <1>4
  <2>2. /\ m <= n /\ i \in 1 .. n - m + 1
    BY <1>2, <2>1 DEF cut
  <2>3. m + i - 1 \in m .. n /\ x = text[m + i - 1]
    BY <1>2, <2>1, <2>2 DEF cut
  <2> QED
    BY <2>3
<1>5. ASSUME NEW i \in m .. n PROVE text[i] \in Range(cut)
  <2>1. /\ i - m + 1 \in 1 .. Len(cut) /\ i - m + 1 \in 1 .. n - m + 1
        /\ m + (i - m + 1) - 1 = i
    BY <1>2 DEF cut
  <2>2. cut[i - m + 1] = text[i]
    BY <1>2, <2>1 DEF cut
  <2> QED
    BY <1>3, <2>1, <2>2
<1> QED
  BY <1>2, <1>4, <1>5 DEF cut, String

(* The windows of a text hold all of it, and are numbered on from idx.     *)
LEMMA WindowsHold ==
  ASSUME NEW text \in String, NEW idx \in Nat
  PROVE  /\ Windows(text, idx) \in Seq(ChunkOf)
         /\ Held(Windows(text, idx)) = Letters(text)
         /\ \A n \in 1 .. Len(Windows(text, idx)) :
               Windows(text, idx)[n].index = idx + n - 1
<1> DEFINE size == Len(text)
           count == (size + Advance - 1) \div Advance
           last(n) == Min({(n - 1) * Advance + ChunkSize, size})
           first(n) == (n - 1) * Advance + 1
           made == Windows(text, idx)
<1>1. size \in Nat /\ Advance \in Nat \ {0} /\ Advance <= ChunkSize
      /\ ChunkSize \in Nat
  BY AdvanceIs DEF String
<1>2. /\ count \in Nat /\ count * Advance <= size + Advance - 1
      /\ size + Advance - 1 < count * Advance + Advance
  <2> HIDE DEF size
  <2>1. size + Advance - 1 \in Nat
    BY <1>1
  <2> QED
    BY <1>1, <2>1, Quotient
<1> HIDE DEF size, count
<1>3. ASSUME NEW n \in 1 .. count
      PROVE  /\ first(n) \in Nat \ {0} /\ last(n) \in Nat /\ last(n) <= size
             /\ \A k \in 1 .. size : first(n) <= k /\ k <= n * Advance => k <= last(n)
  <2> DEFINE start == (n - 1) * Advance
             end == start + ChunkSize
  <2>1. start \in Nat /\ start + Advance = n * Advance
    BY <1>1, <1>2
  <2> HIDE DEF start
  <2>2. end \in Nat /\ end >= n * Advance /\ n * Advance \in Nat
    BY <1>1, <1>2, <2>1
  <2>3. Min({end, size}) = IF end <= size THEN end ELSE size
    <3> HIDE DEF end
    <3> QED
      BY <1>1, <2>2 DEF Min
  <2> HIDE DEF end
  <2>4. last(n) = IF end <= size THEN end ELSE size
    BY <2>3 DEF end, start
  <2>5. first(n) = start + 1
    BY DEF start
  <2> HIDE DEF last, first
  <2> QED
    BY <1>1, <2>1, <2>2, <2>4, <2>5
<1> HIDE DEF last, first
<1>4. made = [n \in 1 .. count |->
                [index |-> idx + n - 1, text |-> SubSeq(text, first(n), last(n))]]
  BY DEF Windows, count, size, first, last
<1> HIDE DEF made
<1>5. ASSUME NEW n \in 1 .. count
      PROVE  /\ SubSeq(text, first(n), last(n)) \in String
             /\ Range(SubSeq(text, first(n), last(n)))
                   = {text[k] : k \in first(n) .. last(n)}
  BY <1>3, CutLetters DEF size
<1> HIDE DEF String
<1>6. made \in [1 .. count -> ChunkOf]
  BY <1>2, <1>4, <1>5 DEF ChunkOf
<1>7. /\ made \in Seq(ChunkOf) /\ Len(made) = count
      /\ Range(made) = {made[n] : n \in 1 .. count}
  BY <1>2, <1>6, FunctionIsSeq
<1>8. Held(made) = UNION {Letters(SubSeq(text, first(n), last(n))) : n \in 1 .. count}
  <2>1. \A n \in 1 .. count : made[n].text = SubSeq(text, first(n), last(n))
    BY <1>4
  <2>2. Held(made) = UNION {Letters(made[n].text) : n \in 1 .. count}
    BY <1>7 DEF Held
  <2> QED
    BY <2>1, <2>2
<1>9. Range(text) = {text[k] : k \in 1 .. size}
  BY RangeEquality DEF String, size
<1>10. ASSUME NEW k \in 1 .. size
       PROVE  \E n \in 1 .. count : k \in first(n) .. last(n)
  <2> DEFINE q == (k - 1) \div Advance
             n == q + 1
  <2>1. q \in Nat /\ q * Advance <= k - 1 /\ k - 1 < q * Advance + Advance
    <3>1. k - 1 \in Nat
      BY <1>1
    <3> QED
      BY <1>1, <3>1, Quotient
  <2> HIDE DEF q
  <2>2. n \in 1 .. count
    <3>1. SUFFICES ASSUME q >= count PROVE FALSE
      BY <1>2, <2>1
    <3>2. q * Advance >= count * Advance
      BY <1>1, <1>2, <2>1, <3>1
    <3>3. q * Advance \in Nat /\ count * Advance \in Nat
      BY <1>1, <1>2, <2>1
    <3> QED
      BY <1>1, <1>2, <2>1, <3>2, <3>3
  <2>3. n * Advance = q * Advance + Advance /\ (n - 1) * Advance = q * Advance
    BY <1>1, <2>1
  <2>4. first(n) <= k /\ k <= n * Advance
    <3>1. first(n) = q * Advance + 1
      BY <2>3 DEF first
    <3>2. q * Advance \in Nat
      BY <1>1, <2>1
    <3> QED
      BY <1>1, <2>1, <2>3, <3>1, <3>2
  <2> HIDE DEF n
  <2> QED
    BY <1>1, <1>3, <2>2, <2>4
<1>11. UNION {Range(SubSeq(text, first(n), last(n))) : n \in 1 .. count} = Range(text)
  <2>1. ASSUME NEW n \in 1 .. count, NEW k \in first(n) .. last(n)
        PROVE  k \in 1 .. size
    BY <1>1, <1>3
  <2>2. UNION {Range(SubSeq(text, first(n), last(n))) : n \in 1 .. count}
            = UNION {{text[k] : k \in first(n) .. last(n)} : n \in 1 .. count}
    BY <1>5
  <2> QED
    BY <1>9, <1>10, <2>1, <2>2
<1>12. Held(made) = Letters(text)
  BY <1>8, <1>11 DEF Letters
<1>13. \A n \in 1 .. Len(made) : made[n].index = idx + n - 1
  BY <1>4, <1>7
<1> QED
  BY <1>7, <1>12, <1>13 DEF made

LEMMA LastPartIs ==
  ASSUME NEW text \in String
  PROVE  LastPart(text) \in String /\ Letters(LastPart(text)) \subseteq Letters(text)
<1> DEFINE size == Len(text)
           m == IF size > Overlap THEN size - Overlap + 1 ELSE 1
<1>1. size \in Nat /\ Overlap \in Nat
  BY ChunkingAssumption DEF String
<1> HIDE DEF size
<1>2. m \in Nat \ {0} /\ size <= size
  BY <1>1
<1> HIDE DEF m
<1>3. /\ SubSeq(text, m, size) \in String
      /\ Range(SubSeq(text, m, size)) = {text[i] : i \in m .. size}
  BY <1>1, <1>2, CutLetters DEF size
<1>4. Range(text) = {text[i] : i \in 1 .. size}
  BY RangeEquality DEF String, size
<1>5. \A i \in m .. size : i \in 1 .. size
  BY <1>1, <1>2
<1>6. LastPart(text) = SubSeq(text, m, size)
  BY DEF LastPart, m, size
<1> QED
  BY <1>3, <1>4, <1>5, <1>6 DEF Letters

-----------------------------------------------------------------------------
(* The numbers of chunks.                                                  *)
Ascending(chunks) ==
    \A m, n \in 1 .. Len(chunks) : m < n => chunks[m].index < chunks[n].index
Below(chunks, i) == \A n \in 1 .. Len(chunks) : chunks[n].index < i
From(chunks, i) == \A n \in 1 .. Len(chunks) : chunks[n].index >= i

LEMMA AscendingConcat ==
  ASSUME NEW s \in Seq(ChunkOf), NEW t \in Seq(ChunkOf), NEW i \in Nat,
         Ascending(s), Ascending(t), Below(s, i), From(t, i)
  PROVE  /\ s \o t \in Seq(ChunkOf) /\ Ascending(s \o t)
         /\ \A j \in Nat : i <= j /\ Below(t, j) => Below(s \o t, j)
         /\ Held(s \o t) = Held(s) \cup Held(t)
<1> DEFINE k == Len(s)
           l == Len(t)
           st == s \o t
<1>1. /\ k \in Nat /\ l \in Nat /\ st \in Seq(ChunkOf) /\ Len(st) = k + l
      /\ \A n \in 1 .. k + l : st[n] = IF n <= k THEN s[n] ELSE t[n - k]
      /\ Range(st) = Range(s) \cup Range(t)
  BY ConcatProperties, RangeConcatenation
<1>2. /\ \A n \in 1 .. k : s[n].index \in Nat
      /\ \A n \in 1 .. l : t[n].index \in Nat
  <2>1. \A c \in ChunkOf : c.index \in Nat
    BY DEF ChunkOf
  <2> HIDE DEF ChunkOf
  <2>2. (\A n \in 1 .. k : s[n] \in ChunkOf) /\ (\A n \in 1 .. l : t[n] \in ChunkOf)
    OBVIOUS
  <2> QED
    BY <2>1, <2>2
<1> HIDE DEF k, l, st
<1>3. Ascending(st)
  <2> SUFFICES ASSUME NEW m \in 1 .. k + l, NEW n \in 1 .. k + l, m < n
               PROVE  st[m].index < st[n].index
    BY <1>1 DEF Ascending
  <2>1. CASE n <= k
    <3>1. m \in 1 .. k /\ n \in 1 .. k /\ st[m] = s[m] /\ st[n] = s[n]
      BY <1>1, <2>1
    <3> QED
      BY <3>1 DEF Ascending, k
  <2>2. CASE m <= k /\ n > k
    <3>1. m \in 1 .. k /\ n - k \in 1 .. l /\ st[m] = s[m] /\ st[n] = t[n - k]
      BY <1>1, <2>2
    <3>2. s[m].index < i /\ t[n - k].index >= i
      BY <3>1 DEF Below, From, k, l
    <3>3. s[m].index \in Nat /\ t[n - k].index \in Nat
      BY <1>2, <3>1
    <3> QED
      BY <3>1, <3>2, <3>3
  <2>3. CASE m > k
    <3>1. /\ m - k \in 1 .. l /\ n - k \in 1 .. l /\ m - k < n - k
          /\ st[m] = t[m - k] /\ st[n] = t[n - k]
      BY <1>1, <2>3
    <3> QED
      BY <3>1 DEF Ascending, l
  <2> QED
    BY <1>1, <2>1, <2>2, <2>3
<1>4. ASSUME NEW j \in Nat, i <= j, Below(t, j)
      PROVE  Below(st, j)
  <2> SUFFICES ASSUME NEW n \in 1 .. k + l
               PROVE  st[n].index < j
    BY <1>1 DEF Below
  <2>1. CASE n <= k
    <3>1. n \in 1 .. k /\ st[n] = s[n]
      BY <1>1, <2>1
    <3>2. s[n].index < i /\ s[n].index \in Nat
      BY <1>2, <3>1 DEF Below, k
    <3> QED
      BY <1>4, <3>1, <3>2
  <2>2. CASE n > k
    <3>1. n - k \in 1 .. l /\ st[n] = t[n - k]
      BY <1>1, <2>2
    <3> QED
      BY <1>4, <3>1 DEF Below, l
  <2> QED
    BY <1>1, <2>1, <2>2
<1>5. Held(st) = Held(s) \cup Held(t)
  BY <1>1 DEF Held
<1> QED
  BY <1>1, <1>3, <1>4, <1>5 DEF st

LEMMA WindowsAscend ==
  ASSUME NEW text \in String, NEW idx \in Nat
  PROVE  /\ Ascending(Windows(text, idx)) /\ From(Windows(text, idx), idx)
         /\ Len(Windows(text, idx)) \in Nat
         /\ \A j \in Nat : idx + Len(Windows(text, idx)) <= j
                            => Below(Windows(text, idx), j)
<1> DEFINE made == Windows(text, idx)
<1>1. /\ made \in Seq(ChunkOf)
      /\ \A n \in 1 .. Len(made) : made[n].index = idx + n - 1
  BY WindowsHold
<1> HIDE DEF made
<1>2. Len(made) \in Nat
  BY <1>1
<1> QED
  BY <1>1, <1>2 DEF Ascending, From, Below, made

LEMMA SingleChunk ==
  ASSUME NEW c \in ChunkOf
  PROVE  /\ <<c>> \in Seq(ChunkOf) /\ Ascending(<<c>>) /\ From(<<c>>, c.index)
         /\ c.index \in Nat /\ \A j \in Nat : c.index < j => Below(<<c>>, j)
         /\ Held(<<c>>) = Letters(c.text)
<1>1. c.index \in Nat
  BY DEF ChunkOf
<1> HIDE DEF ChunkOf
<1> DEFINE s == [n \in 1 .. 1 |-> c]
<1>2. s = <<c>>
  OBVIOUS
<1>3. s \in Seq(ChunkOf) /\ Len(s) = 1 /\ Range(s) = {s[n] : n \in 1 .. 1}
  <2>1. s \in [1 .. 1 -> ChunkOf]
    OBVIOUS
  <2> HIDE DEF s
  <2> QED
    BY <2>1, FunctionIsSeq
<1>4. \A n \in 1 .. 1 : n = 1 /\ s[n] = c
  OBVIOUS
<1>5. Range(s) = {c}
  BY <1>3, <1>4
<1> HIDE DEF s
<1>6. Held(s) = Letters(c.text)
  BY <1>5 DEF Held
<1>7. Ascending(s) /\ From(s, c.index) /\ \A j \in Nat : c.index < j => Below(s, j)
  BY <1>1, <1>3, <1>4 DEF Ascending, From, Below
<1> QED
  BY <1>1, <1>2, <1>3, <1>6, <1>7

LEMMA NoChunks ==
  /\ <<>> \in Seq(ChunkOf) /\ Ascending(<<>>) /\ Held(<<>>) = {}
  /\ \A i : Below(<<>>, i) /\ From(<<>>, i)
  BY BlankIs DEF Ascending, Below, From, Held

(* A chunk with a number above all the others goes to the end.             *)
LEMMA AddChunk ==
  ASSUME NEW s \in Seq(ChunkOf), NEW c \in ChunkOf,
         Ascending(s), Below(s, c.index)
  PROVE  /\ Append(s, c) \in Seq(ChunkOf) /\ Ascending(Append(s, c))
         /\ \A j \in Nat : c.index < j => Below(Append(s, c), j)
         /\ Held(Append(s, c)) = Held(s) \cup Letters(c.text)
<1> DEFINE one == <<c>>
<1>1. /\ one \in Seq(ChunkOf) /\ Ascending(one) /\ From(one, c.index)
      /\ c.index \in Nat /\ \A j \in Nat : c.index < j => Below(one, j)
      /\ Held(one) = Letters(c.text)
  BY SingleChunk
<1>2. Append(s, c) = s \o one
  BY AppendIsConcat
<1> HIDE DEF one, ChunkOf
<1>3. /\ s \o one \in Seq(ChunkOf) /\ Ascending(s \o one)
      /\ \A j \in Nat : c.index <= j /\ Below(one, j) => Below(s \o one, j)
      /\ Held(s \o one) = Held(s) \cup Held(one)
  BY <1>1, AscendingConcat
<1>4. \A j \in Nat : c.index < j => Below(s \o one, j)
  BY <1>1, <1>3
<1> QED
  BY <1>1, <1>2, <1>3, <1>4

(* Leaving out the chunks of white space loses no letter and no order.     *)
LEMMA KeptIs ==
  ASSUME NEW chunks \in Seq(ChunkOf), Ascending(chunks)
  PROVE  /\ Kept(chunks) \in Seq(ChunkOf) /\ Ascending(Kept(chunks))
         /\ Held(Kept(chunks)) = Held(chunks)
<1> DEFINE N == Len(chunks)
           empty == <<>>
           single(n) == IF Letters(chunks[n].text) = {} THEN <<>> ELSE <<chunks[n]>>
           singles == [n \in 1 .. N |-> single(n)]
           held(n) == UNION {Letters(chunks[i].text) : i \in 1 .. n}
           C == ChunkOf
<1>1. N \in Nat /\ \A n \in 1 .. N : chunks[n] \in C
  <2> HIDE DEF C
  <2> QED
    BY DEF C
<1>2. /\ empty \in Seq(C) /\ Ascending(empty) /\ Held(empty) = {}
      /\ \A i : Below(empty, i)
  BY NoChunks
<1>3. ASSUME NEW n \in 1 .. N
      PROVE  /\ single(n) \in Seq(C) /\ Ascending(single(n))
             /\ chunks[n].index \in Nat /\ From(single(n), chunks[n].index)
             /\ \A j \in Nat : chunks[n].index < j => Below(single(n), j)
             /\ Held(single(n)) = Letters(chunks[n].text)
  <2>1. chunks[n] \in ChunkOf
    BY <1>1
  <2>2. /\ <<chunks[n]>> \in Seq(C) /\ Ascending(<<chunks[n]>>)
        /\ From(<<chunks[n]>>, chunks[n].index)
        /\ chunks[n].index \in Nat
        /\ \A j \in Nat : chunks[n].index < j => Below(<<chunks[n]>>, j)
        /\ Held(<<chunks[n]>>) = Letters(chunks[n].text)
    BY <2>1, SingleChunk
  <2>3. <<>> \in Seq(C) /\ Ascending(<<>>) /\ Held(<<>>) = {}
        /\ \A i : Below(<<>>, i) /\ From(<<>>, i)
    BY NoChunks
  <2>4. CASE Letters(chunks[n].text) = {}
    <3>1. single(n) = <<>>
      BY <2>4
    <3> HIDE DEF single, C
    <3> QED
      BY <2>2, <2>3, <2>4, <3>1
  <2>5. CASE Letters(chunks[n].text) # {}
    <3>1. single(n) = <<chunks[n]>>
      BY <2>5
    <3> HIDE DEF single, C
    <3> QED
      BY <2>2, <3>1
  <2> QED
    BY <2>4, <2>5
<1>4. /\ singles \in Seq(Seq(C)) /\ Len(singles) = N
      /\ \A n \in 1 .. N : singles[n] = single(n)
  <2> HIDE DEF single, C
  <2>1. \A n \in 1 .. N : singles[n] = single(n)
    OBVIOUS
  <2>2. singles \in [1 .. N -> Seq(C)]
    BY <1>3
  <2> HIDE DEF singles, N
  <2> QED
    BY <1>1, <2>1, <2>2, FunctionIsSeq
<1>5. Kept(chunks) = Joined(singles, empty)
  BY DEF Kept
<1> HIDE DEF singles, empty, C, single, N
<1>6. PICK f \in [0 .. Len(singles) -> Seq(C)] :
         /\ f[0] = <<>>
         /\ \A n \in 1 .. Len(singles) : f[n] = JoinStep(singles, empty, f[n - 1], n)
         /\ Joined(singles, empty) = f[Len(singles)]
  BY <1>2, <1>4, JoinedSteps
<1>7. ASSUME NEW n \in 1 .. N
      PROVE  f[n] = f[n - 1] \o single(n) /\ f[n - 1] \in Seq(C)
  <2>1. n - 1 \in 0 .. N /\ single(n) \in Seq(C)
    BY <1>1, <1>3
  <2>2. f[n - 1] \in Seq(C)
    BY <1>4, <1>6, <2>1
  <2>3. f[n - 1] \o empty = f[n - 1]
    BY <2>2, ConcatEmptySeq DEF empty
  <2>4. f[n] = IF f[n - 1] = <<>> THEN single(n)
               ELSE (f[n - 1] \o empty) \o single(n)
    BY <1>4, <1>6 DEF JoinStep
  <2>5. <<>> \o single(n) = single(n)
    BY <2>1, ConcatEmptySeq
  <2> QED
    BY <2>2, <2>3, <2>4, <2>5
<1> DEFINE Fine(n) == /\ Ascending(f[n]) /\ Held(f[n]) = held(n)
                      /\ \A m \in n + 1 .. N : Below(f[n], chunks[m].index)
           T == {n \in Nat : n <= N => Fine(n)}
<1>8. Fine(0)
  <2>1. f[0] = empty
    BY <1>6 DEF empty
  <2>2. held(0) = {}
    OBVIOUS
  <2> HIDE DEF held
  <2> QED
    BY <1>2, <2>1, <2>2
<1>9. ASSUME NEW n \in Nat, n + 1 <= N, Fine(n) PROVE Fine(n + 1)
  <2> DEFINE next == single(n + 1)
             done == f[n]
             i == chunks[n + 1].index
  <2>1. n + 1 \in 1 .. N /\ (n + 1) - 1 = n /\ n + 1 \in n + 1 .. N
    BY <1>1, <1>9
  <2>2. f[n + 1] = done \o next /\ done \in Seq(C)
    BY <1>7, <2>1
  <2>3. /\ next \in Seq(C) /\ Ascending(next) /\ i \in Nat /\ From(next, i)
        /\ \A j \in Nat : i < j => Below(next, j)
        /\ Held(next) = Letters(chunks[n + 1].text)
    BY <1>3, <2>1
  <2>4. Ascending(done) /\ Held(done) = held(n) /\ Below(done, i)
    BY <1>9, <2>1
  <2>5. held(n + 1) = held(n) \cup Letters(chunks[n + 1].text)
    <3>1. 1 .. n + 1 = (1 .. n) \cup {n + 1}
      OBVIOUS
    <3> QED
      BY <3>1
  <2> HIDE DEF next, done, i, held
  <2>6. /\ Ascending(done \o next)
        /\ \A j \in Nat : i <= j /\ Below(next, j) => Below(done \o next, j)
        /\ Held(done \o next) = Held(done) \cup Held(next)
    BY <2>2, <2>3, <2>4, AscendingConcat DEF C
  <2>7. ASSUME NEW m \in n + 2 .. N
        PROVE  Below(done \o next, chunks[m].index)
    <3>1. m \in 1 .. N /\ n + 1 < m
      BY <1>1, <2>7
    <3>2. i < chunks[m].index /\ chunks[m].index \in Nat
      BY <1>3, <2>1, <3>1 DEF Ascending, N, i
    <3> QED
      BY <2>3, <2>6, <3>2
  <2>8. Held(done \o next) = held(n + 1)
    BY <2>3, <2>4, <2>5, <2>6
  <2>9. \A m \in (n + 1) + 1 .. N : m \in n + 2 .. N
    OBVIOUS
  <2> QED
    BY <2>2, <2>6, <2>7, <2>8, <2>9
<1> HIDE DEF Fine
<1>10. T \in SUBSET Nat /\ 0 \in T /\ \A n \in T : n + 1 \in T
  BY <1>1, <1>8, <1>9
<1>11. T = Nat
  <2> HIDE DEF T
  <2> QED
    BY <1>10, Induction
<1>12. Fine(N)
  <2>1. N \in T
    BY <1>1, <1>11
  <2> QED
    BY <1>1, <2>1
<1>13. f[N] \in Seq(C)
  BY <1>1, <1>4, <1>6
<1>14. Held(chunks) = held(N)
  <2>1. Range(chunks) = {chunks[n] : n \in 1 .. N}
    BY RangeEquality DEF N
  <2> QED
    BY <2>1 DEF Held
<1> HIDE DEF held
<1> QED
  BY <1>4, <1>5, <1>6, <1>12, <1>13, <1>14 DEF Fine, C

-----------------------------------------------------------------------------
LEMMA HeadAndTail ==
  ASSUME NEW S, NEW s \in Seq(S), s # <<>>
  PROVE  /\ Head(s) \in S /\ Tail(s) \in Seq(S)
         /\ Range(s) = {Head(s)} \cup Range(Tail(s))
<1> DEFINE h == Head(s)
           t == Tail(s)
           n == Len(s)
<1>1. /\ h \in S /\ t \in Seq(S) /\ n \in Nat /\ n > 0 /\ h = s[1]
      /\ Len(t) = n - 1 /\ \A i \in 1 .. n - 1 : t[i] = s[i + 1]
  OBVIOUS
<1>2. /\ Range(s) = {s[i] : i \in 1 .. n}
      /\ Range(t) = {t[i] : i \in 1 .. n - 1}
  BY <1>1, RangeEquality, ZenonT(40)
<1> HIDE DEF h, t, n
<1>3. \A i \in 1 .. n : i = 1 \/ (i - 1 \in 1 .. n - 1 /\ (i - 1) + 1 = i)
  BY <1>1
<1>4. \A i \in 1 .. n : s[i] = h \/ s[i] \in Range(t)
  <2> SUFFICES ASSUME NEW i \in 1 .. n, i # 1 PROVE s[i] \in Range(t)
    BY <1>1
  <2>1. i - 1 \in 1 .. n - 1 /\ t[i - 1] = s[(i - 1) + 1] /\ (i - 1) + 1 = i
    BY <1>1, <1>3
  <2> QED
    BY <1>2, <2>1
<1>5. h \in Range(s) /\ \A i \in 1 .. n - 1 : t[i] \in Range(s)
  <2>1. 1 \in 1 .. n /\ \A i \in 1 .. n - 1 : i + 1 \in 1 .. n
    BY <1>1
  <2> QED
    BY <1>1, <1>2, <2>1
<1>6. Range(s) = {h} \cup Range(t)
  BY <1>2, <1>4, <1>5
<1> QED
  BY <1>1, <1>6 DEF h, t

LEMMA FirstText ==
  ASSUME NEW texts \in Seq(String), texts # <<>>
  PROVE  /\ Head(texts) \in String /\ Tail(texts) \in Seq(String)
         /\ LettersOf(texts) = Letters(Head(texts)) \cup LettersOf(Tail(texts))
<1>1. /\ Head(texts) \in String /\ Tail(texts) \in Seq(String)
      /\ Range(texts) = {Head(texts)} \cup Range(Tail(texts))
  BY HeadAndTail
<1> QED
  BY <1>1 DEF LettersOf

LEMMA FirstParagraph ==
  ASSUME NEW paras \in Seq(Seq(String)), paras # <<>>
  PROVE  /\ Head(paras) \in Seq(String) /\ Tail(paras) \in Seq(Seq(String))
         /\ LettersIn(paras) = LettersOf(Head(paras)) \cup LettersIn(Tail(paras))
<1>1. /\ Head(paras) \in Seq(String) /\ Tail(paras) \in Seq(Seq(String))
      /\ Range(paras) = {Head(paras)} \cup Range(Tail(paras))
  BY HeadAndTail
<1> QED
  BY <1>1 DEF LettersIn

LEMMA NoTexts ==
  /\ <<>> \in Seq(String) /\ LettersOf(<<>>) = {}
  /\ <<>> \in Seq(Seq(String)) /\ LettersIn(<<>>) = {}
  BY BlankIs DEF LettersOf, LettersIn

-----------------------------------------------------------------------------
(* The inductive invariant.  What is not yet in a chunk is still to come:  *)
(* in the text that is being filled, in the sentences or the paragraphs    *)
(* that are left, or in the pages that are left; and the next number is    *)
(* above every number given, except when no more chunk is made.            *)
Texts == Seq(String)
Groups == Seq(Texts)
Chunks == Seq(ChunkOf)
Stages == {"idle", "fixed", "pages", "paragraphs", "filter", "done"}
ChunkerStates ==
    [pc : Stages, document : Lengthy, pages : Texts, paras : Groups,
     todo : Texts, current : String, idx : Nat, chunks : Chunks]

Numbered ==
    /\ Ascending(ck.chunks)
    /\ ck.pc \in {"pages", "paragraphs"} => Below(ck.chunks, ck.idx)

Contained ==
    /\ ck.pc = "fixed" => LettersOf(ck.pages) = Whole(ck.document)
    /\ ck.pc = "pages" =>
           Held(ck.chunks) \cup LettersOf(ck.pages) = Whole(ck.document)
    /\ ck.pc = "paragraphs" =>
           Held(ck.chunks) \cup Letters(ck.current) \cup LettersOf(ck.todo)
               \cup LettersIn(ck.paras) = Whole(ck.document)
    /\ ck.pc \in {"filter", "done"} => Held(ck.chunks) = Whole(ck.document)

ChunkerInv == ck \in ChunkerStates /\ Numbered /\ Contained

LEMMA IdleIs ==
  /\ IdleChunker \in ChunkerStates
  /\ IdleChunker.pc = "idle" /\ IdleChunker.chunks = <<>>
<1>1. <<>> \in Lengthy /\ <<>> \in Texts /\ <<>> \in Groups
      /\ <<>> \in String /\ <<>> \in Chunks
  BY NoTexts, BlankIs, NoChunks DEF Lengthy, Texts, Groups, Chunks
<1>2. IdleChunker \in ChunkerStates
  BY <1>1 DEF ChunkerStates, IdleChunker, Stages
<1> QED
  BY <1>2 DEF IdleChunker

LEMMA IdleFine ==
  ASSUME ck = IdleChunker
  PROVE  ChunkerInv
<1>1. ck \in ChunkerStates /\ ck.pc = "idle" /\ ck.chunks = <<>>
  BY IdleIs
<1> QED
  BY <1>1, NoChunks DEF ChunkerInv, Numbered, Contained

LEMMA ReturnFine ==
  ASSUME ChunkReturn
  PROVE  ChunkerInv'
<1>1. ck' \in ChunkerStates /\ ck'.pc = "idle" /\ ck'.chunks = <<>>
  BY IdleIs DEF ChunkReturn
<1> QED
  BY <1>1, NoChunks DEF ChunkerInv, Numbered, Contained

LEMMA DocumentFine ==
  ASSUME NEW strategy \in Strategy, NEW document \in Document,
         ChunkDocument(strategy, document)
  PROVE  ChunkerInv'
<1>1. document \in Lengthy
  BY DocumentIs
<1>2. /\ PageTexts(document) \in Texts /\ Paragraphs(document) \in Groups
      /\ LettersOf(PageTexts(document)) = Whole(document)
      /\ LettersIn(Paragraphs(document)) = Whole(document)
  BY <1>1, DocumentLetters DEF Texts, Groups
<1>3. /\ ck'.pc \in {"pages", "fixed", "paragraphs"}
      /\ ck'.document = document /\ ck'.pages = PageTexts(document)
      /\ ck'.paras = Paragraphs(document) /\ ck'.todo = <<>>
      /\ ck'.current = <<>> /\ ck'.idx = 0 /\ ck'.chunks = <<>>
      /\ ck' = [pc |-> ck'.pc, document |-> document,
                pages |-> PageTexts(document), paras |-> Paragraphs(document),
                todo |-> <<>>, current |-> <<>>, idx |-> 0, chunks |-> <<>>]
  BY DEF ChunkDocument, IdleChunker
<1>4. <<>> \in Texts /\ <<>> \in String /\ <<>> \in Chunks
  BY NoTexts, BlankIs, NoChunks DEF Texts, Chunks
<1>5. ck' \in ChunkerStates
  BY <1>1, <1>2, <1>3, <1>4 DEF ChunkerStates, Stages
<1>6. Numbered'
  BY <1>3, NoChunks DEF Numbered
<1>7. Contained'
  BY <1>2, <1>3, NoChunks, NoTexts, BlankIs DEF Contained
<1> QED
  BY <1>5, <1>6, <1>7 DEF ChunkerInv

LEMMA FixedFine ==
  ASSUME ChunkerInv, ChunkFixed
  PROVE  ChunkerInv'
<1> DEFINE text == Joined(ck.pages, <<Blank, Blank>>)
           made == Windows(text, 0)
<1>1. ck \in ChunkerStates /\ ck.pages \in Texts /\ ck.pc = "fixed"
  BY DEF ChunkerInv, ChunkerStates, ChunkFixed
<1>2. text \in String /\ Letters(text) = LettersOf(ck.pages)
  BY <1>1, BlankIs, JoinedLetters DEF Texts
<1>3. ck' = [ck EXCEPT !.pc = "filter", !.chunks = made]
  BY DEF ChunkFixed
<1> HIDE DEF text
<1>4. made \in Chunks /\ Held(made) = Letters(text) /\ Ascending(made)
  BY <1>2, WindowsHold, WindowsAscend DEF Chunks
<1> HIDE DEF made
<1>5. ck' \in ChunkerStates /\ ck'.pc = "filter" /\ ck'.chunks = made
      /\ ck'.document = ck.document
  BY <1>1, <1>3, <1>4 DEF ChunkerStates, Stages
<1>6. Numbered'
  BY <1>4, <1>5 DEF Numbered
<1>7. Contained'
  BY <1>1, <1>2, <1>4, <1>5 DEF Contained, ChunkerInv
<1> QED
  BY <1>5, <1>6, <1>7 DEF ChunkerInv

LEMMA FilterFine ==
  ASSUME ChunkerInv, FilterEmpty
  PROVE  ChunkerInv'
<1> DEFINE kept == Kept(ck.chunks)
<1>1. ck \in ChunkerStates /\ ck.chunks \in Chunks /\ ck.pc = "filter"
      /\ Ascending(ck.chunks)
  BY DEF ChunkerInv, ChunkerStates, FilterEmpty, Numbered
<1>2. kept \in Chunks /\ Ascending(kept) /\ Held(kept) = Held(ck.chunks)
  BY <1>1, KeptIs DEF Chunks
<1>3. ck' = [ck EXCEPT !.pc = "done", !.chunks = kept]
  BY DEF FilterEmpty
<1> HIDE DEF kept
<1>4. ck' \in ChunkerStates /\ ck'.pc = "done" /\ ck'.chunks = kept
      /\ ck'.document = ck.document
  BY <1>1, <1>2, <1>3 DEF ChunkerStates, Stages
<1>5. Numbered'
  BY <1>2, <1>4 DEF Numbered
<1>6. Contained'
  BY <1>1, <1>2, <1>4 DEF Contained, ChunkerInv
<1> QED
  BY <1>4, <1>5, <1>6 DEF ChunkerInv

LEMMA PageFine ==
  ASSUME ChunkerInv, ChunkPage
  PROVE  ChunkerInv'
<1>1. /\ ck \in ChunkerStates /\ ck.pages \in Texts /\ ck.pc = "pages"
      /\ ck.chunks \in Chunks /\ ck.idx \in Nat
      /\ Ascending(ck.chunks) /\ Below(ck.chunks, ck.idx)
      /\ Held(ck.chunks) \cup LettersOf(ck.pages) = Whole(ck.document)
  BY DEF ChunkerInv, ChunkerStates, ChunkPage, Numbered, Contained
<1>2. CASE ck.pages = <<>>
  <2>1. ck' = [ck EXCEPT !.pc = "filter"]
    BY <1>2 DEF ChunkPage
  <2>2. ck' \in ChunkerStates /\ ck'.pc = "filter" /\ ck'.chunks = ck.chunks
        /\ ck'.document = ck.document
    BY <1>1, <2>1 DEF ChunkerStates, Stages
  <2>3. Held(ck.chunks) = Whole(ck.document)
    BY <1>1, <1>2, NoTexts
  <2> QED
    BY <1>1, <2>2, <2>3 DEF ChunkerInv, Numbered, Contained
<1>3. CASE ck.pages # <<>>
  <2> DEFINE text == Head(ck.pages)
             single == [index |-> ck.idx, text |-> text]
             windows == Windows(text, ck.idx)
             made == IF Len(text) <= ChunkSize THEN <<single>> ELSE windows
  <2>1. /\ text \in String /\ Tail(ck.pages) \in Texts
        /\ LettersOf(ck.pages) = Letters(text) \cup LettersOf(Tail(ck.pages))
    BY <1>1, <1>3, FirstText DEF Texts
  <2>2. ck' = [ck EXCEPT !.pages = Tail(ck.pages), !.chunks = ck.chunks \o made,
                         !.idx = ck.idx + Len(made)]
    BY <1>3 DEF ChunkPage
  <2> HIDE DEF text
  <2>3. /\ <<single>> \in Seq(ChunkOf) /\ Ascending(<<single>>)
        /\ From(<<single>>, ck.idx) /\ Len(<<single>>) = 1
        /\ Below(<<single>>, ck.idx + 1)
        /\ Held(<<single>>) = Letters(text)
    <3>1. single \in ChunkOf /\ single.index = ck.idx /\ single.text = text
      BY <1>1, <2>1 DEF ChunkOf
    <3> HIDE DEF single
    <3>2. ck.idx + 1 \in Nat /\ ck.idx < ck.idx + 1 /\ Len(<<single>>) = 1
      BY <1>1
    <3> QED
      BY <3>1, <3>2, SingleChunk
  <2>4. /\ windows \in Seq(ChunkOf) /\ Ascending(windows)
        /\ From(windows, ck.idx) /\ Len(windows) \in Nat
        /\ Held(windows) = Letters(text)
        /\ \A j \in Nat : ck.idx + Len(windows) <= j => Below(windows, j)
    BY <1>1, <2>1, WindowsHold, WindowsAscend
  <2> HIDE DEF single, windows
  <2>5. /\ made \in Seq(ChunkOf) /\ Ascending(made)
        /\ From(made, ck.idx) /\ Len(made) \in Nat
        /\ Held(made) = Letters(text) /\ Below(made, ck.idx + Len(made))
    <3>1. CASE Len(text) <= ChunkSize
      <4>1. made = <<single>>
        BY <3>1
      <4> HIDE DEF made
      <4> QED
        BY <2>3, <4>1
    <3>2. CASE ~ (Len(text) <= ChunkSize)
      <4>1. made = windows
        BY <3>2
      <4>2. ck.idx + Len(windows) \in Nat
               /\ ck.idx + Len(windows) <= ck.idx + Len(windows)
        BY <1>1, <2>4
      <4> HIDE DEF made
      <4> QED
        BY <2>4, <4>1, <4>2
    <3> QED
      BY <3>1, <3>2
  <2> HIDE DEF made
  <2>6. ck.idx + Len(made) \in Nat /\ ck.idx <= ck.idx + Len(made)
    BY <1>1, <2>5
  <2>7. /\ ck.chunks \o made \in Chunks /\ Ascending(ck.chunks \o made)
        /\ Below(ck.chunks \o made, ck.idx + Len(made))
        /\ Held(ck.chunks \o made) = Held(ck.chunks) \cup Held(made)
    BY <1>1, <2>5, <2>6, AscendingConcat DEF Chunks
  <2>8. /\ ck' \in ChunkerStates /\ ck'.pc = "pages"
        /\ ck'.pages = Tail(ck.pages) /\ ck'.chunks = ck.chunks \o made
        /\ ck'.idx = ck.idx + Len(made) /\ ck'.document = ck.document
    BY <1>1, <2>1, <2>2, <2>6, <2>7 DEF ChunkerStates, Stages
  <2>9. Held(ck'.chunks) \cup LettersOf(ck'.pages) = Whole(ck'.document)
    BY <1>1, <2>1, <2>5, <2>7, <2>8
  <2> QED
    BY <2>7, <2>8, <2>9 DEF ChunkerInv, Numbered, Contained
<1> QED
  BY <1>2, <1>3

(* The state of the strategies that fill a chunk.                          *)
LEMMA Filling ==
  ASSUME ChunkerInv, ck.pc = "paragraphs"
  PROVE  /\ ck.paras \in Groups /\ ck.todo \in Texts /\ ck.current \in String
         /\ ck.chunks \in Chunks /\ ck.idx \in Nat
         /\ Ascending(ck.chunks) /\ Below(ck.chunks, ck.idx)
         /\ Held(ck.chunks) \cup Letters(ck.current) \cup LettersOf(ck.todo)
               \cup LettersIn(ck.paras) = Whole(ck.document)
  BY DEF ChunkerInv, ChunkerStates, Numbered, Contained

(* The chunk that is closed takes the letters; what follows keeps its end. *)
LEMMA CloseIs ==
  ASSUME ChunkerInv, ck.pc = "paragraphs",
         NEW separator \in String, Letters(separator) = {}, NEW more \in String
  PROVE  LET c == Close(separator, more) IN
         /\ c \in ChunkerStates /\ c.pc = ck.pc
         /\ c.document = ck.document /\ c.paras = ck.paras /\ c.todo = ck.todo
         /\ Ascending(c.chunks) /\ Below(c.chunks, c.idx)
         /\ Held(c.chunks) = Held(ck.chunks) \cup Letters(ck.current)
         /\ Letters(more) \subseteq Letters(c.current)
         /\ Letters(c.current) \subseteq Letters(ck.current) \cup Letters(more)
<1> DEFINE chunk == [index |-> ck.idx, text |-> ck.current]
           part == LastPart(ck.current)
           end == part \o separator
<1>1. /\ ck.current \in String /\ ck.chunks \in Chunks /\ ck.idx \in Nat
      /\ Ascending(ck.chunks) /\ Below(ck.chunks, ck.idx)
  BY Filling
<1>2. chunk \in ChunkOf /\ chunk.index = ck.idx /\ chunk.text = ck.current
  BY <1>1 DEF ChunkOf
<1>3. part \in String /\ Letters(part) \subseteq Letters(ck.current)
  BY <1>1, LastPartIs
<1> HIDE DEF chunk, part
<1>4. end \in String /\ Letters(end) = Letters(part)
  BY <1>3, ConcatLetters
<1> HIDE DEF end
<1>5. end \o more \in String /\ Letters(end \o more) = Letters(end) \cup Letters(more)
  BY <1>4, ConcatLetters
<1>6. ck.idx + 1 \in Nat /\ ck.idx < ck.idx + 1
  BY <1>1
<1>7. /\ Append(ck.chunks, chunk) \in Chunks
      /\ Ascending(Append(ck.chunks, chunk))
      /\ Below(Append(ck.chunks, chunk), ck.idx + 1)
      /\ Held(Append(ck.chunks, chunk)) = Held(ck.chunks) \cup Letters(ck.current)
  BY <1>1, <1>2, <1>6, AddChunk DEF Chunks
<1> DEFINE c == Close(separator, more)
<1>8. c = [ck EXCEPT !.chunks = Append(ck.chunks, chunk), !.idx = ck.idx + 1,
                     !.current = end \o more]
  BY DEF Close, chunk, end, part
<1>9. ck \in ChunkerStates
  BY DEF ChunkerInv
<1> HIDE DEF c
<1>10. /\ c \in ChunkerStates /\ c.pc = ck.pc /\ c.document = ck.document
       /\ c.paras = ck.paras /\ c.todo = ck.todo
       /\ c.chunks = Append(ck.chunks, chunk) /\ c.idx = ck.idx + 1
       /\ c.current = end \o more
  BY <1>5, <1>6, <1>7, <1>8, <1>9 DEF ChunkerStates
<1>11. /\ Letters(more) \subseteq Letters(c.current)
       /\ Letters(c.current) \subseteq Letters(ck.current) \cup Letters(more)
  BY <1>3, <1>4, <1>5, <1>10
<1> QED
  BY <1>7, <1>10, <1>11 DEF c

LEMMA RestFine ==
  ASSUME ChunkerInv, ChunkRest
  PROVE  ChunkerInv'
<1> DEFINE chunk == [index |-> ck.idx, text |-> ck.current]
           chunks == IF Letters(ck.current) = {} THEN ck.chunks
                     ELSE Append(ck.chunks, chunk)
<1>1. ck.pc = "paragraphs" /\ ck.todo = <<>> /\ ck.paras = <<>>
  BY DEF ChunkRest
<1>2. /\ ck \in ChunkerStates /\ ck.current \in String
      /\ ck.chunks \in Chunks /\ ck.idx \in Nat
      /\ Ascending(ck.chunks) /\ Below(ck.chunks, ck.idx)
      /\ Held(ck.chunks) \cup Letters(ck.current) = Whole(ck.document)
  <2>1. ck \in ChunkerStates
    BY DEF ChunkerInv
  <2> QED
    BY <1>1, <2>1, Filling, NoTexts
<1>3. chunk \in ChunkOf /\ chunk.index = ck.idx /\ chunk.text = ck.current
  BY <1>2 DEF ChunkOf
<1>4. ck' = [ck EXCEPT !.pc = "filter", !.chunks = chunks]
  BY DEF ChunkRest
<1> HIDE DEF chunk
<1>5. /\ Append(ck.chunks, chunk) \in Chunks
      /\ Ascending(Append(ck.chunks, chunk))
      /\ Held(Append(ck.chunks, chunk)) = Held(ck.chunks) \cup Letters(ck.current)
  BY <1>2, <1>3, AddChunk DEF Chunks
<1>6. /\ chunks \in Chunks /\ Ascending(chunks)
      /\ Held(chunks) = Whole(ck.document)
  BY <1>2, <1>5
<1> HIDE DEF chunks
<1>7. ck' \in ChunkerStates /\ ck'.pc = "filter" /\ ck'.chunks = chunks
      /\ ck'.document = ck.document
  BY <1>2, <1>4, <1>6 DEF ChunkerStates, Stages
<1> QED
  BY <1>6, <1>7 DEF ChunkerInv, Numbered, Contained

LEMMA ParagraphFine ==
  ASSUME ChunkerInv, ChunkParagraph
  PROVE  ChunkerInv'
<1> DEFINE para == TextOf(Head(ck.paras))
           rest == Tail(ck.paras)
           blanks == <<Blank, Blank>>
           closed == Close(blanks, para)
<1>1. ck.pc = "paragraphs" /\ ck.todo = <<>> /\ ck.paras # <<>>
  BY DEF ChunkParagraph
<1>2. /\ ck \in ChunkerStates
      /\ ck.paras \in Groups /\ ck.current \in String
      /\ ck.chunks \in Chunks /\ ck.idx \in Nat
      /\ Ascending(ck.chunks) /\ Below(ck.chunks, ck.idx)
      /\ Held(ck.chunks) \cup Letters(ck.current) \cup LettersIn(ck.paras)
             = Whole(ck.document)
  <2>1. ck \in ChunkerStates
    BY DEF ChunkerInv
  <2> QED
    BY <1>1, <2>1, Filling, NoTexts
<1>3. /\ Head(ck.paras) \in Texts /\ rest \in Groups
      /\ LettersIn(ck.paras) = LettersOf(Head(ck.paras)) \cup LettersIn(rest)
  BY <1>1, <1>2, FirstParagraph DEF Groups, Texts
<1>4. para \in String /\ Letters(para) = LettersOf(Head(ck.paras))
  BY <1>3, TextOfLetters DEF Texts
<1>5. blanks \in String /\ Letters(blanks) = {}
  BY BlankIs DEF Letters
<1>6. ck' = IF Fits(para)
            THEN [ck EXCEPT !.paras = rest,
                     !.current = IF ck.current = <<>> THEN para
                                 ELSE (ck.current \o blanks) \o para]
            ELSE IF ck.current # <<>>
            THEN [closed EXCEPT !.paras = rest]
            ELSE [ck EXCEPT !.paras = rest, !.todo = Head(ck.paras)]
  <2>1. closed.paras = ck.paras
    BY DEF Close
  <2> QED
    BY <2>1 DEF ChunkParagraph
<1>7. CASE Fits(para)
  <2> DEFINE current == IF ck.current = <<>> THEN para
                        ELSE (ck.current \o blanks) \o para
  <2> HIDE DEF para, rest, blanks
  <2>1. current \in String /\ Letters(current) = Letters(ck.current) \cup Letters(para)
    <3>1. /\ ck.current \o blanks \in String
          /\ Letters(ck.current \o blanks) = Letters(ck.current)
      <4>1. /\ ck.current \o blanks \in String
            /\ Letters(ck.current \o blanks) = Letters(ck.current) \cup Letters(blanks)
        BY <1>2, <1>5, ConcatLetters
      <4> QED
        BY <1>5, <4>1
    <3>2. /\ (ck.current \o blanks) \o para \in String
          /\ Letters((ck.current \o blanks) \o para) = Letters(ck.current) \cup Letters(para)
      BY <1>4, <3>1, ConcatLetters
    <3> QED
      BY <1>4, <3>2, BlankIs
  <2>2. ck' = [ck EXCEPT !.paras = rest, !.current = current]
    BY <1>6, <1>7
  <2> HIDE DEF current
  <2>3. /\ ck' \in ChunkerStates /\ ck'.pc = "paragraphs" /\ ck'.paras = rest
        /\ ck'.todo = <<>> /\ ck'.current = current /\ ck'.idx = ck.idx
        /\ ck'.chunks = ck.chunks /\ ck'.document = ck.document
    BY <1>1, <1>2, <1>3, <2>1, <2>2 DEF ChunkerStates
  <2>4. Held(ck'.chunks) \cup Letters(ck'.current) \cup LettersOf(ck'.todo)
            \cup LettersIn(ck'.paras) = Whole(ck'.document)
    BY <1>2, <1>3, <1>4, <2>1, <2>3, NoTexts
  <2> QED
    BY <1>2, <2>3, <2>4 DEF ChunkerInv, Numbered, Contained
<1>8. CASE ~ Fits(para) /\ ck.current # <<>>
  <2>1. /\ closed \in ChunkerStates /\ closed.pc = ck.pc
        /\ closed.document = ck.document /\ closed.todo = ck.todo
        /\ Ascending(closed.chunks) /\ Below(closed.chunks, closed.idx)
        /\ Held(closed.chunks) = Held(ck.chunks) \cup Letters(ck.current)
        /\ Letters(para) \subseteq Letters(closed.current)
        /\ Letters(closed.current) \subseteq Letters(ck.current) \cup Letters(para)
    BY <1>1, <1>4, <1>5, CloseIs
  <2>2. ck' = [closed EXCEPT !.paras = rest]
    BY <1>6, <1>8
  <2> HIDE DEF closed, para, rest
  <2>3. /\ ck' \in ChunkerStates /\ ck'.pc = "paragraphs" /\ ck'.paras = rest
        /\ ck'.todo = <<>> /\ ck'.current = closed.current
        /\ ck'.idx = closed.idx /\ ck'.chunks = closed.chunks
        /\ ck'.document = ck.document
    BY <1>1, <1>3, <2>1, <2>2 DEF ChunkerStates
  <2>4. Held(ck'.chunks) \cup Letters(ck'.current) \cup LettersOf(ck'.todo)
            \cup LettersIn(ck'.paras) = Whole(ck'.document)
    BY <1>2, <1>3, <1>4, <2>1, <2>3, NoTexts
  <2> QED
    BY <2>1, <2>3, <2>4 DEF ChunkerInv, Numbered, Contained
<1>9. CASE ~ Fits(para) /\ ck.current = <<>>
  <2>1. ck' = [ck EXCEPT !.paras = rest, !.todo = Head(ck.paras)]
    BY <1>6, <1>9
  <2> HIDE DEF rest
  <2>2. /\ ck' \in ChunkerStates /\ ck'.pc = "paragraphs" /\ ck'.paras = rest
        /\ ck'.todo = Head(ck.paras) /\ ck'.current = ck.current
        /\ ck'.idx = ck.idx /\ ck'.chunks = ck.chunks
        /\ ck'.document = ck.document
    BY <1>1, <1>2, <1>3, <2>1 DEF ChunkerStates
  <2>3. Held(ck'.chunks) \cup Letters(ck'.current) \cup LettersOf(ck'.todo)
            \cup LettersIn(ck'.paras) = Whole(ck'.document)
    BY <1>2, <1>3, <2>2
  <2> QED
    BY <1>2, <2>2, <2>3 DEF ChunkerInv, Numbered, Contained
<1> QED
  BY <1>7, <1>8, <1>9

LEMMA SentenceFine ==
  ASSUME ChunkerInv, ChunkSentence
  PROVE  ChunkerInv'
<1> DEFINE sent == Head(ck.todo)
           rest == Tail(ck.todo)
           blank == <<Blank>>
           closed == Close(blank, sent)
           made == Windows(sent, ck.idx)
           next == NextIndex(made)
<1>1. ck.pc = "paragraphs" /\ ck.todo # <<>>
  BY DEF ChunkSentence
<1>2. /\ ck \in ChunkerStates
      /\ ck.todo \in Texts /\ ck.current \in String
      /\ ck.chunks \in Chunks /\ ck.idx \in Nat
      /\ Ascending(ck.chunks) /\ Below(ck.chunks, ck.idx)
      /\ Held(ck.chunks) \cup Letters(ck.current) \cup LettersOf(ck.todo)
             \cup LettersIn(ck.paras) = Whole(ck.document)
  <2>1. ck \in ChunkerStates
    BY DEF ChunkerInv
  <2> QED
    BY <1>1, <2>1, Filling
<1>3. /\ sent \in String /\ rest \in Texts
      /\ LettersOf(ck.todo) = Letters(sent) \cup LettersOf(rest)
  BY <1>1, <1>2, FirstText DEF Texts
<1>4. blank \in String /\ Letters(blank) = {}
  BY BlankIs DEF Letters
<1>5. ck' = IF Fits(sent)
            THEN [ck EXCEPT !.todo = rest, !.current = (ck.current \o blank) \o sent]
            ELSE IF ck.current # <<>>
            THEN [closed EXCEPT !.todo = rest]
            ELSE [ck EXCEPT !.todo = rest, !.chunks = ck.chunks \o made, !.idx = next]
  <2>1. closed.todo = ck.todo
    BY DEF Close
  <2> QED
    BY <2>1 DEF ChunkSentence
<1>6. CASE Fits(sent)
  <2> DEFINE current == (ck.current \o blank) \o sent
  <2> HIDE DEF sent, rest, blank
  <2>1. current \in String /\ Letters(current) = Letters(ck.current) \cup Letters(sent)
    <3>1. /\ ck.current \o blank \in String
          /\ Letters(ck.current \o blank) = Letters(ck.current)
      <4>1. /\ ck.current \o blank \in String
            /\ Letters(ck.current \o blank) = Letters(ck.current) \cup Letters(blank)
        BY <1>2, <1>4, ConcatLetters
      <4> QED
        BY <1>4, <4>1
    <3> QED
      BY <1>3, <3>1, ConcatLetters
  <2>2. ck' = [ck EXCEPT !.todo = rest, !.current = current]
    BY <1>5, <1>6
  <2> HIDE DEF current
  <2>3. /\ ck' \in ChunkerStates /\ ck'.pc = "paragraphs" /\ ck'.paras = ck.paras
        /\ ck'.todo = rest /\ ck'.current = current /\ ck'.idx = ck.idx
        /\ ck'.chunks = ck.chunks /\ ck'.document = ck.document
    BY <1>1, <1>2, <1>3, <2>1, <2>2 DEF ChunkerStates
  <2>4. Held(ck'.chunks) \cup Letters(ck'.current) \cup LettersOf(ck'.todo)
            \cup LettersIn(ck'.paras) = Whole(ck'.document)
    BY <1>2, <1>3, <2>1, <2>3
  <2> QED
    BY <1>2, <2>3, <2>4 DEF ChunkerInv, Numbered, Contained
<1>7. CASE ~ Fits(sent) /\ ck.current # <<>>
  <2>1. /\ closed \in ChunkerStates /\ closed.pc = ck.pc
        /\ closed.document = ck.document /\ closed.paras = ck.paras
        /\ Ascending(closed.chunks) /\ Below(closed.chunks, closed.idx)
        /\ Held(closed.chunks) = Held(ck.chunks) \cup Letters(ck.current)
        /\ Letters(sent) \subseteq Letters(closed.current)
        /\ Letters(closed.current) \subseteq Letters(ck.current) \cup Letters(sent)
    BY <1>1, <1>3, <1>4, CloseIs
  <2>2. ck' = [closed EXCEPT !.todo = rest]
    BY <1>5, <1>7
  <2> HIDE DEF closed, sent, rest
  <2>3. /\ ck' \in ChunkerStates /\ ck'.pc = "paragraphs" /\ ck'.paras = ck.paras
        /\ ck'.todo = rest /\ ck'.current = closed.current
        /\ ck'.idx = closed.idx /\ ck'.chunks = closed.chunks
        /\ ck'.document = ck.document
    BY <1>1, <1>3, <2>1, <2>2 DEF ChunkerStates
  <2>4. Held(ck'.chunks) \cup Letters(ck'.current) \cup LettersOf(ck'.todo)
            \cup LettersIn(ck'.paras) = Whole(ck'.document)
    BY <1>2, <1>3, <2>1, <2>3
  <2> QED
    BY <2>1, <2>3, <2>4 DEF ChunkerInv, Numbered, Contained
<1>8. CASE ~ Fits(sent) /\ ck.current = <<>>
  <2>1. ck' = [ck EXCEPT !.todo = rest, !.chunks = ck.chunks \o made, !.idx = next]
    BY <1>5, <1>8
  <2> HIDE DEF sent, rest
  <2>2. /\ made \in Seq(ChunkOf) /\ Ascending(made) /\ From(made, ck.idx)
        /\ Len(made) \in Nat /\ Held(made) = Letters(sent)
        /\ \A j \in Nat : ck.idx + Len(made) <= j => Below(made, j)
    BY <1>2, <1>3, WindowsHold, WindowsAscend
  <2> HIDE DEF made
  <2>3. next \in Nat /\ ck.idx <= next /\ ck.idx + Len(made) <= next
    <3>1. Len(ck.chunks) \in Nat
      BY <1>2 DEF Chunks
    <3> QED
      BY <1>2, <2>2, <3>1 DEF NextIndex
  <2> HIDE DEF next
  <2>4. /\ ck.chunks \o made \in Chunks /\ Ascending(ck.chunks \o made)
        /\ Below(ck.chunks \o made, next)
        /\ Held(ck.chunks \o made) = Held(ck.chunks) \cup Held(made)
    <3>1. Below(made, next)
      BY <2>2, <2>3
    <3> QED
      BY <1>2, <2>2, <2>3, <3>1, AscendingConcat DEF Chunks
  <2>5. /\ ck' \in ChunkerStates /\ ck'.pc = "paragraphs" /\ ck'.paras = ck.paras
        /\ ck'.todo = rest /\ ck'.current = ck.current /\ ck'.idx = next
        /\ ck'.chunks = ck.chunks \o made /\ ck'.document = ck.document
    BY <1>1, <1>2, <1>3, <2>1, <2>3, <2>4 DEF ChunkerStates
  <2>6. Held(ck'.chunks) \cup Letters(ck'.current) \cup LettersOf(ck'.todo)
            \cup LettersIn(ck'.paras) = Whole(ck'.document)
    BY <1>2, <1>3, <2>2, <2>4, <2>5
  <2> QED
    BY <2>4, <2>5, <2>6 DEF ChunkerInv, Numbered, Contained
<1> QED
  BY <1>6, <1>7, <1>8

LEMMA ChunkerInductive == ChunkingSpec => []ChunkerInv
<1>1. ChunkingInit => ChunkerInv
  BY IdleFine DEF ChunkingInit
<1>2. ChunkerInv /\ [ChunkingNext]_ck => ChunkerInv'
  <2> SUFFICES ASSUME ChunkerInv, [ChunkingNext]_ck PROVE ChunkerInv'
    OBVIOUS
  <2>1. CASE \E strategy \in Strategy, document \in Document :
                 ChunkDocument(strategy, document)
    BY <2>1, DocumentFine
  <2>2. CASE ChunkFixed
    BY <2>2, FixedFine
  <2>3. CASE ChunkPage
    BY <2>3, PageFine
  <2>4. CASE ChunkParagraph
    BY <2>4, ParagraphFine
  <2>5. CASE ChunkSentence
    BY <2>5, SentenceFine
  <2>6. CASE ChunkRest
    BY <2>6, RestFine
  <2>7. CASE FilterEmpty
    BY <2>7, FilterFine
  <2>8. CASE ChunkReturn
    BY <2>8, ReturnFine
  <2>9. CASE UNCHANGED ck
    BY <2>9 DEF ChunkerInv, Numbered, Contained
  <2> QED
    BY <2>1, <2>2, <2>3, <2>4, <2>5, <2>6, <2>7, <2>8, <2>9 DEF ChunkingNext
<1> QED
  BY <1>1, <1>2, PTL DEF ChunkingSpec

(* No letter is lost: whatever the strategy, the size, the overlap and the *)
(* document, the chunks that come out of DocumentChunker.chunk hold every  *)
(* letter of the pages, and no other.                                      *)
THEOREM NoLetterLost == ChunkingSpec => []NothingLost
<1>1. ChunkerInv => NothingLost
  <2> SUFFICES ASSUME ChunkerInv, ck.pc = "done" PROVE NothingLost
    BY DEF NothingLost
  <2>1. Held(ck.chunks) = Whole(ck.document) /\ ck.chunks \in Seq(ChunkOf)
    BY DEF ChunkerInv, Contained, ChunkerStates, Chunks
  <2>2. Range(ck.chunks) = {ck.chunks[n] : n \in 1 .. Len(ck.chunks)}
    BY <2>1, RangeEquality
  <2>3. Held(ck.chunks)
            = UNION {Letters(ck.chunks[n].text) : n \in 1 .. Len(ck.chunks)}
    BY <2>2 DEF Held
  <2> QED
    BY <2>1, <2>3 DEF NothingLost, Whole
<1> QED
  BY <1>1, ChunkerInductive, PTL

(* The numbers grow along the chunks, so the chunk_id of a document name   *)
(* one chunk each and ORDER BY chunk_index gives the order of the text.    *)
THEOREM ChunksOrdered == ChunkingSpec => []IndexOrders
<1>1. ChunkerInv => IndexOrders
  BY DEF ChunkerInv, Numbered, Ascending, IndexOrders
<1> QED
  BY <1>1, ChunkerInductive, PTL

-----------------------------------------------------------------------------
(* How long the chunks are.                                                *)

(* A text is no longer than what it is joined into.                        *)
LEMMA JoinedLength ==
  ASSUME NEW S, NEW texts \in Seq(Seq(S)), NEW separator \in Seq(S),
         NEW i \in 1 .. Len(texts)
  PROVE  Len(texts[i]) <= Len(Joined(texts, separator))
<1> DEFINE N == Len(texts)
<1>1. N \in Nat /\ \A k \in 1 .. N : texts[k] \in Seq(S)
  OBVIOUS
<1>2. PICK f \in [0 .. N -> Seq(S)] :
            /\ f[0] = <<>>
            /\ \A n \in 1 .. N : f[n] = JoinStep(texts, separator, f[n - 1], n)
            /\ Joined(texts, separator) = f[N]
  BY JoinedSteps
<1> HIDE DEF N
<1> DEFINE Holds(n) == \A k \in 1 .. n : Len(texts[k]) <= Len(f[n])
           T == {n \in Nat : n <= N => Holds(n)}
<1>3. Holds(0)
  OBVIOUS
<1>4. \A k \in 1 .. N : Len(texts[k]) \in Nat
  BY <1>1
<1>5. \A n \in Nat : n + 1 <= N =>
          /\ n + 1 \in 1 .. N /\ f[n] \in Seq(S) /\ texts[n + 1] \in Seq(S)
          /\ f[n + 1] = JoinStep(texts, separator, f[n], n + 1)
  <2> SUFFICES ASSUME NEW n \in Nat, n + 1 <= N
               PROVE  /\ n + 1 \in 1 .. N /\ f[n] \in Seq(S)
                      /\ texts[n + 1] \in Seq(S)
                      /\ f[n + 1] = JoinStep(texts, separator, f[n], n + 1)
    OBVIOUS
  <2>1. n + 1 \in 1 .. N /\ (n + 1) - 1 = n /\ n \in 0 .. N
    BY <1>1
  <2> QED
    BY <1>1, <1>2, <2>1
<1> HIDE DEF Holds
<1>6. ASSUME NEW n \in Nat, n + 1 <= N, Holds(n) PROVE Holds(n + 1)
  <2> DEFINE done == f[n]
             next == texts[n + 1]
             longer == f[n + 1]
  <2>1. /\ done \in Seq(S) /\ next \in Seq(S)
        /\ longer = IF done = <<>> THEN next ELSE (done \o separator) \o next
    BY <1>5, <1>6 DEF JoinStep
  <2>2. \A k \in 1 .. n : Len(texts[k]) <= Len(done) /\ Len(texts[k]) \in Nat
    BY <1>1, <1>4, <1>6 DEF Holds
  <2> HIDE DEF done, next, longer
  <2>3. Len(done) \in Nat /\ Len(separator) \in Nat /\ Len(next) \in Nat
    BY <2>1
  <2>4. /\ Len(longer) \in Nat
        /\ Len(next) <= Len(longer) /\ Len(done) <= Len(longer)
    <3>1. CASE done = <<>>
      <4>1. longer = next /\ Len(done) = 0
        BY <2>1, <3>1
      <4> QED
        BY <2>3, <4>1
    <3>2. CASE done # <<>>
      <4>1. longer = (done \o separator) \o next
        BY <2>1, <3>2
      <4>2. Len(longer) = Len(done) + Len(separator) + Len(next)
        BY <2>1, <4>1
      <4> QED
        BY <2>3, <4>2
    <3> QED
      BY <3>1, <3>2
  <2>5. \A k \in 1 .. n : Len(texts[k]) <= Len(longer)
    BY <2>2, <2>3, <2>4
  <2>6. \A k \in 1 .. n + 1 : k \in 1 .. n \/ k = n + 1
    OBVIOUS
  <2> QED
    BY <2>4, <2>5, <2>6 DEF Holds, next, longer
<1>7. T \in SUBSET Nat /\ 0 \in T /\ \A n \in T : n + 1 \in T
  BY <1>1, <1>3, <1>6
<1>8. T = Nat
  <2> HIDE DEF T
  <2> QED
    BY <1>7, Induction
<1>9. Holds(N)
  <2>1. N \in T
    BY <1>1, <1>8
  <2> QED
    BY <1>1, <2>1
<1> QED
  BY <1>2, <1>9 DEF Holds, N

LEMMA CutLength ==
  ASSUME NEW text \in String, NEW m \in Nat \ {0}, NEW n \in Nat, n <= Len(text)
  PROVE  Len(SubSeq(text, m, n)) = IF m <= n THEN n - m + 1 ELSE 0
<1>1. Len(text) \in Nat /\ \A i \in m .. n : text[i] \in Char
  <2> HIDE DEF Char
  <2> QED
    BY DEF String
<1> QED
  BY <1>1, SubSeqProperties

LEMMA LastPartLength ==
  ASSUME NEW text \in String
  PROVE  Len(LastPart(text)) \in 0 .. Overlap
<1> DEFINE size == Len(text)
           m == IF size > Overlap THEN size - Overlap + 1 ELSE 1
<1>1. size \in Nat /\ Overlap \in Nat
  BY ChunkingAssumption DEF String
<1> HIDE DEF size
<1>2. m \in Nat \ {0} /\ size <= size
  BY <1>1
<1>3. IF m <= size THEN size - m + 1 \in 0 .. Overlap ELSE TRUE
  BY <1>1
<1> HIDE DEF m
<1>4. Len(SubSeq(text, m, size)) = IF m <= size THEN size - m + 1 ELSE 0
  BY <1>1, <1>2, CutLength DEF size
<1>5. LastPart(text) = SubSeq(text, m, size)
  BY DEF LastPart, m, size
<1>6. Len(SubSeq(text, m, size)) \in 0 .. Overlap
  BY <1>1, <1>3, <1>4
<1> QED
  BY <1>5, <1>6

(* No chunk is longer than most.                                           *)
Small(chunks, most) == \A c \in Range(chunks) : Len(c.text) <= most

LEMMA WindowsSmall ==
  ASSUME NEW text \in String, NEW idx \in Nat
  PROVE  Small(Windows(text, idx), ChunkSize)
<1> DEFINE size == Len(text)
           count == (size + Advance - 1) \div Advance
           last(n) == Min({(n - 1) * Advance + ChunkSize, size})
           first(n) == (n - 1) * Advance + 1
           made == Windows(text, idx)
<1>1. size \in Nat /\ Advance \in Nat \ {0} /\ ChunkSize \in Nat
  BY AdvanceIs DEF String
<1>2. count \in Nat
  <2> HIDE DEF size
  <2>1. size + Advance - 1 \in Nat
    BY <1>1
  <2> QED
    BY <1>1, <2>1, Quotient
<1> HIDE DEF size, count
<1>3. ASSUME NEW n \in 1 .. count
      PROVE  Len(SubSeq(text, first(n), last(n))) <= ChunkSize
  <2> DEFINE start == (n - 1) * Advance
             end == start + ChunkSize
  <2>1. start \in Nat
    BY <1>1, <1>2
  <2> HIDE DEF start
  <2>2. end \in Nat
    BY <1>1, <2>1
  <2>3. Min({end, size}) = IF end <= size THEN end ELSE size
    <3> HIDE DEF end
    <3> QED
      BY <1>1, <2>2 DEF Min
  <2>4. last(n) \in Nat /\ last(n) <= size /\ last(n) <= end
    <3>1. last(n) = Min({end, size})
      BY DEF start
    <3> HIDE DEF last, end
    <3> QED
      BY <1>1, <2>2, <2>3, <3>1
  <2>5. first(n) = start + 1 /\ first(n) \in Nat \ {0}
    BY <2>1 DEF start
  <2> HIDE DEF last, first
  <2>6. Len(SubSeq(text, first(n), last(n)))
            = IF first(n) <= last(n) THEN last(n) - first(n) + 1 ELSE 0
    BY <2>4, <2>5, CutLength DEF size
  <2> QED
    BY <1>1, <2>1, <2>4, <2>5, <2>6
<1> HIDE DEF last, first
<1>4. made = [n \in 1 .. count |->
                [index |-> idx + n - 1,
                 text |-> SubSeq(text, first(n), last(n))]]
  BY DEF Windows, count, size, first, last
<1>5. made \in Seq(ChunkOf)
  BY WindowsHold
<1> HIDE DEF made
<1>6. Range(made) = {made[n] : n \in 1 .. count}
  BY <1>4 DEF Range
<1>7. \A n \in 1 .. count : made[n].text = SubSeq(text, first(n), last(n))
  BY <1>4
<1> QED
  BY <1>3, <1>6, <1>7 DEF Small, made

LEMMA SmallConcat ==
  ASSUME NEW s \in Seq(ChunkOf), NEW t \in Seq(ChunkOf), NEW most \in Nat,
         Small(s, most), Small(t, most)
  PROVE  Small(s \o t, most)
<1>1. Range(s \o t) = Range(s) \cup Range(t)
  BY RangeConcatenation
<1> QED
  BY <1>1 DEF Small

LEMMA SmallSingle ==
  ASSUME NEW c \in ChunkOf, NEW most \in Nat, Len(c.text) <= most
  PROVE  <<c>> \in Seq(ChunkOf) /\ Small(<<c>>, most)
<1>1. Range(<<c>>) = {c}
  BY DEF Range
<1> QED
  BY <1>1, SingleChunk DEF Small

LEMMA SmallAppend ==
  ASSUME NEW s \in Seq(ChunkOf), NEW c \in ChunkOf, NEW most \in Nat,
         Small(s, most), Len(c.text) <= most
  PROVE  Small(Append(s, c), most)
<1>1. Append(s, c) = s \o <<c>>
  BY AppendIsConcat
<1> QED
  BY <1>1, SmallSingle, SmallConcat

(* A longer bound is a bound.                                              *)
LEMMA SmallMore ==
  ASSUME NEW chunks \in Seq(ChunkOf), NEW m \in Nat, NEW n \in Nat, m <= n,
         Small(chunks, m)
  PROVE  Small(chunks, n)
<1>1. ASSUME NEW c \in Range(chunks) PROVE Len(c.text) \in Nat
  <2>1. Range(chunks) \subseteq ChunkOf
    <3> HIDE DEF ChunkOf
    <3> QED
      BY RangeOfSeq
  <2> QED
    BY <1>1, <2>1 DEF ChunkOf, String
<1> QED
  BY <1>1 DEF Small

LEMMA SmallKept ==
  ASSUME NEW chunks \in Seq(ChunkOf), NEW most \in Nat, Small(chunks, most)
  PROVE  Small(Kept(chunks), most)
<1> DEFINE N == Len(chunks)
           single(n) == IF Letters(chunks[n].text) = {} THEN <<>>
                        ELSE <<chunks[n]>>
           singles == [n \in 1 .. N |-> single(n)]
           C == ChunkOf
<1>1. N \in Nat /\ \A n \in 1 .. N : chunks[n] \in C
  <2> HIDE DEF C
  <2> QED
    BY DEF C
<1>2. Range(chunks) = {chunks[n] : n \in 1 .. N}
  <2> HIDE DEF C
  <2> QED
    BY RangeEquality DEF C
<1> HIDE DEF C
<1>3. ASSUME NEW n \in 1 .. N
      PROVE  single(n) \in Seq(C) /\ Range(single(n)) \subseteq Range(chunks)
  <2>1. chunks[n] \in C /\ chunks[n] \in Range(chunks)
    BY <1>1, <1>2
  <2>2. <<chunks[n]>> \in Seq(C) /\ Range(<<chunks[n]>>) = {chunks[n]}
    BY <2>1 DEF Range
  <2>3. <<>> \in Seq(C) /\ Range(<<>>) = {}
    BY DEF Range
  <2> QED
    BY <2>1, <2>2, <2>3
<1>4. /\ singles \in Seq(Seq(C)) /\ Len(singles) = N
      /\ \A n \in 1 .. N : singles[n] = single(n)
  <2> HIDE DEF single
  <2>1. \A n \in 1 .. N : singles[n] = single(n)
    OBVIOUS
  <2>2. singles \in [1 .. N -> Seq(C)]
    BY <1>3
  <2> HIDE DEF singles, N
  <2> QED
    BY <1>1, <2>1, <2>2, FunctionIsSeq
<1>5. Kept(chunks) = Joined(singles, <<>>)
  BY DEF Kept
<1> HIDE DEF singles, single, N
<1>6. <<>> \in Seq(C) /\ Range(<<>>) = {}
  BY DEF Range
<1>7. Range(Kept(chunks)) \subseteq Parts(singles, N)
  BY <1>4, <1>5, <1>6, JoinedRange
<1>8. Parts(singles, N) \subseteq Range(chunks)
  BY <1>3, <1>4 DEF Parts
<1> QED
  BY <1>7, <1>8 DEF Small

(* While paragraphs are put together no text is longer than the longest of *)
(* them, with the overlap and a separator before it.                       *)
Short(paras, B) == \A para \in Range(paras) : Len(TextOf(para)) <= B
Most(B) == B + Overlap + 2

Sized(B) ==
    /\ Small(ck.chunks, Most(B))
    /\ ck.pc = "paragraphs" =>
           /\ Short(ck.paras, B)
           /\ \A sent \in Range(ck.todo) : Len(sent) <= B
           /\ Len(ck.current) <= Most(B)

(* No chunk is longer than the longest paragraph of the document and the   *)
(* overlap, when these exceed the size (DocumentChunker, _chunk_semantic): *)
(* a paragraph or a sentence that comes to a chunk with text in it is not  *)
(* split, so the size alone is no bound.                                   *)
ChunksBounded ==
    \A B \in Nat :
        ChunkSize <= B + Overlap /\ Short(Paragraphs(ck.document), B)
            => \A c \in Range(ck.chunks) : Len(c.text) <= B + Overlap + 2

LEMMA MostIs ==
  ASSUME NEW B \in Nat, ChunkSize <= B + Overlap
  PROVE  /\ Most(B) \in Nat /\ Overlap \in Nat /\ ChunkSize \in Nat
         /\ ChunkSize + 2 <= Most(B) /\ ChunkSize <= Most(B) /\ B <= Most(B)
  BY ChunkingAssumption DEF Most

LEMMA LengthOfText ==
  ASSUME NEW s \in String, NEW t \in String
  PROVE  s \o t \in String /\ Len(s \o t) = Len(s) + Len(t) /\ Len(s) \in Nat
<1> DEFINE S == Char
<1> HIDE DEF S
<1>1. s \in Seq(S) /\ t \in Seq(S)
  BY DEF String, S
<1>2. s \o t \in Seq(S) /\ Len(s \o t) = Len(s) + Len(t) /\ Len(s) \in Nat
  BY <1>1
<1> QED
  BY <1>2 DEF String, S

LEMMA PageSized ==
  ASSUME ChunkerInv, ChunkPage,
         NEW B \in Nat, ChunkSize <= B + Overlap, Sized(B)
  PROVE  Sized(B)'
<1>1. /\ ck \in ChunkerStates /\ ck.pages \in Texts /\ ck.pc = "pages"
      /\ ck.chunks \in Chunks /\ ck.idx \in Nat /\ Small(ck.chunks, Most(B))
  BY DEF ChunkerInv, ChunkerStates, ChunkPage, Sized
<1>2. CASE ck.pages = <<>>
  <2>1. ck' = [ck EXCEPT !.pc = "filter"]
    BY <1>2 DEF ChunkPage
  <2>2. ck'.pc = "filter" /\ ck'.chunks = ck.chunks
    BY <1>1, <2>1 DEF ChunkerStates
  <2> QED
    BY <1>1, <2>2 DEF Sized, Small
<1>3. CASE ck.pages # <<>>
  <2> DEFINE text == Head(ck.pages)
             single == [index |-> ck.idx, text |-> text]
             windows == Windows(text, ck.idx)
             made == IF Len(text) <= ChunkSize THEN <<single>> ELSE windows
  <2>1. text \in String
    BY <1>1, <1>3, FirstText DEF Texts
  <2>2. ck' = [ck EXCEPT !.pages = Tail(ck.pages), !.chunks = ck.chunks \o made,
                         !.idx = ck.idx + Len(made)]
    BY <1>3 DEF ChunkPage
  <2> HIDE DEF text
  <2>3. single \in ChunkOf /\ single.text = text
    BY <1>1, <2>1 DEF ChunkOf
  <2>4. windows \in Seq(ChunkOf) /\ Small(windows, Most(B))
    BY <1>1, <2>1, WindowsHold, WindowsSmall, SmallMore, MostIs
  <2> HIDE DEF single, windows
  <2>5. Len(text) <= ChunkSize
            => <<single>> \in Seq(ChunkOf) /\ Small(<<single>>, Most(B))
    <3> SUFFICES ASSUME Len(text) <= ChunkSize
                 PROVE  /\ <<single>> \in Seq(ChunkOf)
                        /\ Small(<<single>>, Most(B))
      OBVIOUS
    <3>1. Len(text) \in Nat
      BY <2>1 DEF String
    <3>2. Len(single.text) <= Most(B) /\ Most(B) \in Nat
      BY <2>3, <3>1, MostIs
    <3> QED
      BY <2>3, <3>2, SmallSingle
  <2>6. made \in Seq(ChunkOf) /\ Small(made, Most(B))
    BY <2>4, <2>5
  <2> HIDE DEF made
  <2>7. Small(ck.chunks \o made, Most(B))
    BY <1>1, <2>6, SmallConcat, MostIs DEF Chunks
  <2>8. ck'.pc = "pages" /\ ck'.chunks = ck.chunks \o made
    BY <1>1, <2>2 DEF ChunkerStates
  <2> QED
    BY <2>7, <2>8 DEF Sized, Small
<1> QED
  BY <1>2, <1>3

LEMMA FixedSized ==
  ASSUME ChunkerInv, ChunkFixed, NEW B \in Nat, ChunkSize <= B + Overlap
  PROVE  Sized(B)'
<1> DEFINE text == Joined(ck.pages, <<Blank, Blank>>)
           made == Windows(text, 0)
<1>1. ck \in ChunkerStates /\ ck.pages \in Texts
  BY DEF ChunkerInv, ChunkerStates
<1>2. text \in String
  BY <1>1, BlankIs, JoinedLetters DEF Texts
<1>3. ck' = [ck EXCEPT !.pc = "filter", !.chunks = made]
  BY DEF ChunkFixed
<1> HIDE DEF text
<1>4. Small(made, Most(B))
  BY <1>2, WindowsHold, WindowsSmall, SmallMore, MostIs
<1> HIDE DEF made
<1>5. ck'.pc = "filter" /\ ck'.chunks = made
  BY <1>1, <1>3 DEF ChunkerStates
<1> QED
  BY <1>4, <1>5 DEF Sized, Small

LEMMA FilterSized ==
  ASSUME ChunkerInv, FilterEmpty,
         NEW B \in Nat, ChunkSize <= B + Overlap, Sized(B)
  PROVE  Sized(B)'
<1>1. ck \in ChunkerStates /\ ck.chunks \in Chunks /\ Small(ck.chunks, Most(B))
  BY DEF ChunkerInv, ChunkerStates, Sized
<1>2. Small(Kept(ck.chunks), Most(B))
  BY <1>1, SmallKept, MostIs DEF Chunks
<1>3. ck'.pc = "done" /\ ck'.chunks = Kept(ck.chunks)
  BY <1>1 DEF FilterEmpty, ChunkerStates
<1> QED
  BY <1>2, <1>3 DEF Sized, Small

LEMMA RestSized ==
  ASSUME ChunkerInv, ChunkRest,
         NEW B \in Nat, ChunkSize <= B + Overlap, Sized(B)
  PROVE  Sized(B)'
<1> DEFINE chunk == [index |-> ck.idx, text |-> ck.current]
<1>1. /\ ck \in ChunkerStates /\ ck.current \in String
      /\ ck.chunks \in Chunks /\ ck.idx \in Nat
      /\ Small(ck.chunks, Most(B)) /\ Len(ck.current) <= Most(B)
  BY DEF ChunkerInv, ChunkerStates, ChunkRest, Sized
<1>2. chunk \in ChunkOf /\ chunk.text = ck.current
  BY <1>1 DEF ChunkOf
<1>3. /\ ck'.pc = "filter"
      /\ ck'.chunks = ck.chunks \/ ck'.chunks = Append(ck.chunks, chunk)
  BY <1>1 DEF ChunkRest, ChunkerStates
<1> HIDE DEF chunk
<1>4. Small(Append(ck.chunks, chunk), Most(B))
  BY <1>1, <1>2, SmallAppend, MostIs DEF Chunks
<1> QED
  BY <1>1, <1>3, <1>4 DEF Sized, Small

(* A chunk that is closed, and the text that begins the next one.          *)
LEMMA CloseSized ==
  ASSUME ChunkerInv, ck.pc = "paragraphs",
         NEW B \in Nat, ChunkSize <= B + Overlap, Sized(B),
         NEW separator \in String, Len(separator) <= 2,
         NEW more \in String, Len(more) <= B
  PROVE  /\ Small(Close(separator, more).chunks, Most(B))
         /\ Len(Close(separator, more).current) <= Most(B)
<1> DEFINE chunk == [index |-> ck.idx, text |-> ck.current]
           part == LastPart(ck.current)
<1>1. /\ ck \in ChunkerStates /\ ck.current \in String
      /\ ck.chunks \in Chunks /\ ck.idx \in Nat
      /\ Small(ck.chunks, Most(B)) /\ Len(ck.current) <= Most(B)
  BY DEF ChunkerInv, ChunkerStates, Sized
<1>2. chunk \in ChunkOf /\ chunk.text = ck.current
  BY <1>1 DEF ChunkOf
<1>3. part \in String /\ Len(part) \in 0 .. Overlap
  BY <1>1, LastPartIs, LastPartLength
<1>4. /\ Close(separator, more).chunks = Append(ck.chunks, chunk)
      /\ Close(separator, more).current = (part \o separator) \o more
  BY <1>1 DEF Close, ChunkerStates
<1> HIDE DEF chunk, part
<1>5. Small(Append(ck.chunks, chunk), Most(B))
  BY <1>1, <1>2, SmallAppend, MostIs DEF Chunks
<1>6. /\ part \o separator \in String
      /\ Len(part \o separator) = Len(part) + Len(separator)
  BY <1>3, LengthOfText
<1>7. Len((part \o separator) \o more) = Len(part \o separator) + Len(more)
  BY <1>6, LengthOfText
<1>8. Len(separator) \in Nat /\ Len(more) \in Nat
  BY DEF String
<1>9. Len(part) + Len(separator) + Len(more) <= Most(B)
  BY <1>3, <1>8, ChunkingAssumption DEF Most
<1> QED
  BY <1>4, <1>5, <1>6, <1>7, <1>9

(* A text that fits keeps the chunk below the size and a separator.        *)
LEMMA FitsSized ==
  ASSUME NEW B \in Nat, ChunkSize <= B + Overlap, ck.current \in String,
         NEW separator \in String, Len(separator) <= 2,
         NEW more \in String, Fits(more)
  PROVE  /\ Len((ck.current \o separator) \o more) <= Most(B)
         /\ Len(more) <= Most(B)
<1> DEFINE current == ck.current
<1>1. current \in String /\ Len(current) + Len(more) <= ChunkSize
  BY DEF Fits
<1> HIDE DEF current
<1>2. /\ current \o separator \in String
      /\ Len(current \o separator) = Len(current) + Len(separator)
  BY <1>1, LengthOfText
<1>3. /\ Len((current \o separator) \o more)
             = Len(current) + Len(separator) + Len(more)
  BY <1>2, LengthOfText
<1>4. Len(current) \in Nat /\ Len(separator) \in Nat /\ Len(more) \in Nat
  BY <1>1 DEF String
<1>5. /\ Most(B) \in Nat /\ ChunkSize \in Nat /\ ChunkSize + 2 <= Most(B)
  BY MostIs
<1>6. /\ Len((current \o separator) \o more) <= Most(B)
      /\ Len(more) <= Most(B)
  BY <1>1, <1>3, <1>4, <1>5
<1> QED
  BY <1>6 DEF current

(* The first of a sequence and the rest of it.                             *)
LEMMA FirstOf ==
  ASSUME NEW S, NEW s \in Seq(S), s # <<>>
  PROVE  /\ Head(s) \in Range(s) /\ Head(s) \in S
         /\ Tail(s) \in Seq(S) /\ Range(Tail(s)) \subseteq Range(s)
  BY HeadAndTail

LEMMA ParagraphSized ==
  ASSUME ChunkerInv, ChunkParagraph,
         NEW B \in Nat, ChunkSize <= B + Overlap, Sized(B)
  PROVE  Sized(B)'
<1> DEFINE first == Head(ck.paras)
           para == TextOf(first)
           rest == Tail(ck.paras)
           blanks == <<Blank, Blank>>
           closed == Close(blanks, para)
           longer == IF ck.current = <<>> THEN para
                     ELSE (ck.current \o blanks) \o para
<1>1. ck.pc = "paragraphs" /\ ck.todo = <<>> /\ ck.paras # <<>>
  BY DEF ChunkParagraph
<1>2. /\ ck \in ChunkerStates /\ ck.paras \in Groups /\ ck.current \in String
      /\ Small(ck.chunks, Most(B)) /\ Short(ck.paras, B)
      /\ \A sent \in Range(ck.todo) : Len(sent) <= B
      /\ Len(ck.current) <= Most(B)
  BY <1>1 DEF ChunkerInv, ChunkerStates, Sized
<1>3. /\ first \in Texts /\ first \in Range(ck.paras)
      /\ Range(rest) \subseteq Range(ck.paras)
  BY <1>1, <1>2, FirstOf DEF Groups
<1>4. para \in String /\ Len(para) <= B /\ Short(rest, B)
  <2>1. para \in String
    BY <1>3, TextOfLetters DEF Texts
  <2> QED
    BY <1>2, <1>3, <2>1 DEF Short
<1>5. blanks \in String /\ Len(blanks) <= 2
  BY BlankIs
<1>6. ck' = IF Fits(para) THEN [ck EXCEPT !.paras = rest, !.current = longer]
            ELSE IF ck.current # <<>> THEN [closed EXCEPT !.paras = rest]
            ELSE [ck EXCEPT !.paras = rest, !.todo = first]
  <2>1. closed.paras = ck.paras
    BY DEF Close
  <2> QED
    BY <2>1 DEF ChunkParagraph
<1>7. CASE Fits(para)
  <2>1. Len(longer) <= Most(B)
    <3> HIDE DEF para, blanks
    <3> QED
      BY <1>2, <1>4, <1>5, <1>7, FitsSized
  <2> HIDE DEF para, rest, longer, first
  <2>2. ck' = [ck EXCEPT !.paras = rest, !.current = longer]
    BY <1>6, <1>7
  <2>3. /\ ck'.pc = "paragraphs" /\ ck'.paras = rest /\ ck'.todo = ck.todo
        /\ ck'.current = longer /\ ck'.chunks = ck.chunks
    BY <1>1, <1>2, <2>2 DEF ChunkerStates
  <2> QED
    BY <1>2, <1>4, <2>1, <2>3 DEF Sized, Small, Short
<1>8. CASE ~ Fits(para) /\ ck.current # <<>>
  <2> HIDE DEF para, rest, longer, first, blanks
  <2>1. /\ Small(closed.chunks, Most(B)) /\ Len(closed.current) <= Most(B)
    BY <1>1, <1>4, <1>5, CloseSized
  <2>2. closed \in ChunkerStates /\ closed.pc = ck.pc /\ closed.todo = ck.todo
    <3>1. Letters(blanks) = {}
      BY BlankIs DEF Letters, blanks
    <3> QED
      BY <1>1, <1>4, <1>5, <3>1, CloseIs
  <2> HIDE DEF closed
  <2>3. ck' = [closed EXCEPT !.paras = rest]
    BY <1>6, <1>8
  <2>4. /\ ck'.pc = "paragraphs" /\ ck'.paras = rest /\ ck'.todo = ck.todo
        /\ ck'.current = closed.current /\ ck'.chunks = closed.chunks
    BY <1>1, <2>2, <2>3 DEF ChunkerStates
  <2> QED
    BY <1>2, <1>4, <2>1, <2>4 DEF Sized, Small, Short
<1>9. CASE ~ Fits(para) /\ ck.current = <<>>
  <2>1. \A sent \in Range(first) : Len(sent) <= B
    <3> SUFFICES ASSUME NEW sent \in Range(first) PROVE Len(sent) <= B
      OBVIOUS
    <3>1. PICK i \in 1 .. Len(first) : sent = first[i]
      <4> HIDE DEF first
      <4> QED
        BY <1>3, RangeEquality DEF Texts
    <3> HIDE DEF first
    <3>2. first \in Seq(Seq(Char)) /\ <<Blank>> \in Seq(Char)
      BY <1>3, BlankIs DEF Texts, String
    <3>3. Len(first[i]) <= Len(para)
      BY <3>1, <3>2, JoinedLength DEF TextOf
    <3>4. Len(first[i]) \in Nat /\ Len(para) \in Nat
      <4>1. first[i] \in String
        <5> HIDE DEF para
        <5> QED
          BY <1>3, <3>1 DEF Texts
      <4> QED
        BY <1>4, <4>1 DEF String
    <3> HIDE DEF para
    <3> QED
      BY <1>4, <3>1, <3>3, <3>4
  <2> HIDE DEF para, rest, longer, first
  <2>2. ck' = [ck EXCEPT !.paras = rest, !.todo = first]
    BY <1>6, <1>9
  <2>3. /\ ck'.pc = "paragraphs" /\ ck'.paras = rest /\ ck'.todo = first
        /\ ck'.current = ck.current /\ ck'.chunks = ck.chunks
    BY <1>1, <1>2, <2>2 DEF ChunkerStates
  <2> QED
    BY <1>2, <1>4, <2>1, <2>3 DEF Sized, Small, Short
<1> QED
  BY <1>7, <1>8, <1>9

LEMMA SentenceSized ==
  ASSUME ChunkerInv, ChunkSentence,
         NEW B \in Nat, ChunkSize <= B + Overlap, Sized(B)
  PROVE  Sized(B)'
<1> DEFINE sent == Head(ck.todo)
           rest == Tail(ck.todo)
           blank == <<Blank>>
           closed == Close(blank, sent)
           longer == (ck.current \o blank) \o sent
           made == Windows(sent, ck.idx)
           next == NextIndex(made)
<1>1. ck.pc = "paragraphs" /\ ck.todo # <<>>
  BY DEF ChunkSentence
<1>2. /\ ck \in ChunkerStates /\ ck.todo \in Texts /\ ck.current \in String
      /\ ck.chunks \in Chunks /\ ck.idx \in Nat
      /\ Small(ck.chunks, Most(B)) /\ Short(ck.paras, B)
      /\ \A text \in Range(ck.todo) : Len(text) <= B
      /\ Len(ck.current) <= Most(B)
  BY <1>1 DEF ChunkerInv, ChunkerStates, Sized
<1>3. /\ sent \in String /\ sent \in Range(ck.todo) /\ Len(sent) <= B
      /\ \A text \in Range(rest) : Len(text) <= B
  BY <1>1, <1>2, FirstOf DEF Texts
<1>4. blank \in String /\ Len(blank) <= 2 /\ Letters(blank) = {}
  BY BlankIs DEF Letters
<1>5. ck' = IF Fits(sent) THEN [ck EXCEPT !.todo = rest, !.current = longer]
            ELSE IF ck.current # <<>> THEN [closed EXCEPT !.todo = rest]
            ELSE [ck EXCEPT !.todo = rest, !.chunks = ck.chunks \o made,
                            !.idx = next]
  <2>1. closed.todo = ck.todo
    BY DEF Close
  <2> QED
    BY <2>1 DEF ChunkSentence
<1> HIDE DEF sent, rest, blank, next
<1>6. CASE Fits(sent)
  <2>1. Len(longer) <= Most(B)
    BY <1>2, <1>3, <1>4, <1>6, FitsSized
  <2> HIDE DEF longer
  <2>2. ck' = [ck EXCEPT !.todo = rest, !.current = longer]
    BY <1>5, <1>6
  <2>3. /\ ck'.pc = "paragraphs" /\ ck'.paras = ck.paras /\ ck'.todo = rest
        /\ ck'.current = longer /\ ck'.chunks = ck.chunks
    BY <1>1, <1>2, <2>2 DEF ChunkerStates
  <2> QED
    BY <1>2, <1>3, <2>1, <2>3 DEF Sized, Small, Short
<1>7. CASE ~ Fits(sent) /\ ck.current # <<>>
  <2>1. /\ Small(closed.chunks, Most(B)) /\ Len(closed.current) <= Most(B)
    BY <1>1, <1>3, <1>4, CloseSized
  <2>2. closed \in ChunkerStates /\ closed.pc = ck.pc /\ closed.paras = ck.paras
    BY <1>1, <1>3, <1>4, CloseIs
  <2> HIDE DEF closed
  <2>3. ck' = [closed EXCEPT !.todo = rest]
    BY <1>5, <1>7
  <2>4. /\ ck'.pc = "paragraphs" /\ ck'.paras = ck.paras /\ ck'.todo = rest
        /\ ck'.current = closed.current /\ ck'.chunks = closed.chunks
    BY <1>1, <2>2, <2>3 DEF ChunkerStates
  <2> QED
    BY <1>2, <1>3, <2>1, <2>4 DEF Sized, Small, Short
<1>8. CASE ~ Fits(sent) /\ ck.current = <<>>
  <2>1. made \in Seq(ChunkOf) /\ Small(made, Most(B))
    BY <1>2, <1>3, WindowsHold, WindowsSmall, SmallMore, MostIs
  <2> HIDE DEF made
  <2>2. Small(ck.chunks \o made, Most(B))
    BY <1>2, <2>1, SmallConcat, MostIs DEF Chunks
  <2>3. ck' = [ck EXCEPT !.todo = rest, !.chunks = ck.chunks \o made,
                         !.idx = next]
    BY <1>5, <1>8
  <2>4. /\ ck'.pc = "paragraphs" /\ ck'.paras = ck.paras /\ ck'.todo = rest
        /\ ck'.current = ck.current /\ ck'.chunks = ck.chunks \o made
    BY <1>1, <1>2, <2>3 DEF ChunkerStates
  <2> QED
    BY <1>2, <1>3, <2>2, <2>4 DEF Sized, Small, Short
<1> QED
  BY <1>6, <1>7, <1>8

(* The document stays, except where a new one comes and where the chunks   *)
(* of the last one are given back.                                         *)
LEMMA DocumentStays ==
  ASSUME ChunkerInv,
         \/ ChunkFixed \/ ChunkPage \/ ChunkParagraph \/ ChunkSentence
         \/ ChunkRest \/ FilterEmpty
  PROVE  ck'.document = ck.document
<1>1. ck \in ChunkerStates
  BY DEF ChunkerInv
<1>2. \A separator, more : Close(separator, more).document = ck.document
  BY <1>1 DEF Close, ChunkerStates
<1> QED
  BY <1>1, <1>2 DEF ChunkFixed, ChunkPage, ChunkParagraph, ChunkSentence,
                    ChunkRest, FilterEmpty, Close, ChunkerStates

(* How long a chunk can be.  chunk_size_chars is no bound: a paragraph     *)
(* that is too large for the chunk being filled begins the next one, whole *)
(* and behind the overlap, and is split only where the chunk is empty      *)
(* (_chunk_semantic).  The longest paragraph and the overlap are one.      *)
THEOREM ChunkSizesBounded == ChunkingSpec => []ChunksBounded
<1> DEFINE Hyp(B, document) ==
               ChunkSize <= B + Overlap /\ Short(Paragraphs(document), B)
           Sizes == \A B \in Nat : Hyp(B, ck.document) => Sized(B)
<1>1. ck = IdleChunker => Sizes
  <2> SUFFICES ASSUME ck = IdleChunker, NEW B \in Nat PROVE Sized(B)
    OBVIOUS
  <2> QED
    BY DEF Sized, Small, IdleChunker, Range
<1>2. ChunkerInv /\ Sizes /\ [ChunkingNext]_ck => Sizes'
  <2> SUFFICES ASSUME ChunkerInv, Sizes, [ChunkingNext]_ck,
                      NEW B \in Nat, Hyp(B, ck'.document)
               PROVE  Sized(B)'
    OBVIOUS
  <2>1. CASE \E strategy \in Strategy, document \in Document :
                 ChunkDocument(strategy, document)
    <3>1. PICK document \in Document, pc \in Stages :
              ck' = [IdleChunker EXCEPT !.document = document, !.pc = pc,
                        !.pages = PageTexts(document),
                        !.paras = Paragraphs(document)]
      BY <2>1 DEF ChunkDocument, Stages
    <3>2. /\ ck'.document = document /\ ck'.paras = Paragraphs(document)
          /\ ck'.chunks = <<>> /\ ck'.todo = <<>> /\ ck'.current = <<>>
      BY <3>1 DEF IdleChunker
    <3>3. Range(<<>>) = {} /\ Len(<<>>) = 0 /\ Most(B) \in Nat
      BY MostIs DEF Range
    <3> QED
      BY <3>2, <3>3 DEF Sized, Small
  <2>2. CASE ChunkReturn
    <3>1. Range(<<>>) = {} /\ ck'.chunks = <<>> /\ ck'.pc = "idle"
      BY <2>2 DEF ChunkReturn, IdleChunker, Range
    <3> QED
      BY <3>1 DEF Sized, Small
  <2>3. CASE \/ ChunkFixed \/ ChunkPage \/ ChunkParagraph \/ ChunkSentence
             \/ ChunkRest \/ FilterEmpty
    <3>1. ck'.document = ck.document
      BY <2>3, DocumentStays
    <3>2. ChunkSize <= B + Overlap /\ Sized(B)
      BY <3>1
    <3> HIDE DEF Sizes, Hyp
    <3> QED
      BY <2>3, <3>2, FixedSized, PageSized, ParagraphSized, SentenceSized,
         RestSized, FilterSized
  <2>4. CASE UNCHANGED ck
    <3>1. Sized(B)
      BY <2>4
    <3> QED
      BY <2>4, <3>1 DEF Sized, Small, Short
  <2> QED
    BY <2>1, <2>2, <2>3, <2>4 DEF ChunkingNext
<1>3. Sizes => ChunksBounded
  BY DEF ChunksBounded, Sized, Small, Most
<1> HIDE DEF Sizes
<1> QED
  BY <1>1, <1>2, <1>3, ChunkerInductive, PTL DEF ChunkingSpec, ChunkingInit

=============================================================================

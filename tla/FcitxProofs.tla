---------------------------- MODULE FcitxProofs ----------------------------
(* Proofs about FcitxAddon and, under it, ImeEngine and Composition, for     *)
(* every alphabet, dictionary, set of commands, page size, number of         *)
(* contexts and length of the channel.                                       *)
(*                                                                           *)
(* A composition is Coherent: it holds what its state says, and what it      *)
(* shows fits what is typed.  Every handler takes a coherent composition to  *)
(* a coherent one and gives away what was typed (Handles: Outcome, Gives and *)
(* Lettered); this is shown handler by handler, up to the routing table      *)
(* (RouteIs).  Over it lie the invariant of the engine (EngineInv: what is   *)
(* typed and what is picked add up), that of the addon (AddonInv: the panel  *)
(* is the last view painted from scratch) and that of the redraws            *)
(* (RefreshInv).  The handshake between the threads is proved apart, last.   *)
EXTENDS FcitxAddon, FiniteSetTheorems, SequenceTheorems, WellFoundedInduction, TLAPS

-----------------------------------------------------------------------------
(* What a composition is.                                                    *)
Candidate ==
    [kind : {"full", "char", "text", "prompt", "hint", "rollback"}, of : Seq(Keys),
     family : {"pinyin", "english", None}]

Member ==
    [name : Commands \cup {"snippet", None}, arg : Seq(Keys),
     status : {"idle", "flight", "done", "failed"}, body : Seq(Keys), asked : BOOLEAN]

Machine ==
    [st : {"Idle", "Pinyin", "Snippet"}, buf : Seq(Keys), com : Seq(Syllables),
     cpy : Seq(Keys), cand : Seq(Candidate), fresh : BOOLEAN, hl : Nat, page : Nat,
     cmd : Member, sel : BOOLEAN]

(* The live command whose name is in the buffer.                             *)
NameTyped(m) ==
    LET match == match_command(m.buf)
    IN  IF m.st = "Snippet" /\ Live(match) THEN match.cmd ELSE None

(* The candidates a composition may show: of pinyin, one that stands for the *)
(* whole buffer or for its first syllable, when more than that is typed; a   *)
(* command shows no such candidate.                                          *)
Fitting(st, buf) ==
    {c \in Candidate :
        /\ st = "Pinyin" <=> c.kind \in {"full", "char"}
        /\ c.kind = "full" => c.of = buf
        /\ c.kind = "char" => /\ c.of = FirstSyllable(buf) /\ c.of \in Syllables
                              /\ Len(c.of) < Len(buf)
        /\ c.family # None => st = "Pinyin"
        /\ c.kind = "hint" => c.of # <<>>}

(* What its state says, a composition holds (HoldsWhatIsTyped), and what it  *)
(* shows fits.                                                               *)
Coherent(m) ==
    /\ m \in Machine
    /\ m.st = "Idle" => m.buf = <<>> /\ m.com = <<>> /\ m.cand = <<>>
    /\ m.st # "Idle" => m.buf # <<>>
    /\ m.st # "Pinyin" => m.com = <<>>
    /\ m.cmd.name = NameTyped(m)
    /\ m.fresh => m.cand # <<>>
    /\ m.cand \in Seq(Fitting(m.st, m.buf))

(* The letters and the pinyin of what is picked add up to what was typed.    *)
AddsUp(m, letters, clean) ==
    /\ letters \in Seq(Keys)
    /\ m.st # "Pinyin" => letters = <<>>
    /\ clean => m.cpy = Spelled(m.com)
    /\ clean /\ m.st = "Pinyin" => Spelled(m.com) \o m.buf = letters

Job == [what : {"req", "clip"}, ctx : Contexts, alive : BOOLEAN, arg : Seq(Keys)]

EngineInv ==
    /\ sm \in [Contexts -> Machine] /\ queue \in Seq(Job)
    /\ typed \in [Contexts -> Seq(Keys)] /\ tidy \in [Contexts -> BOOLEAN]
    /\ \A c \in Contexts : Coherent(sm[c]) /\ AddsUp(sm[c], typed[c], tidy[c])

(* What a view shows tells whether anything is composed.                     *)
WholeView(v) ==
    /\ v.preedit = NoText <=> v.aux = <<>>
    /\ v.preedit = NoText => v.cand = <<>>

AddonInv ==
    /\ panel = [c \in Contexts |-> Painted(last[c])]
    /\ last = [c \in Contexts |-> last[c]]
    /\ \A c \in Contexts :
          /\ WholeView(last[c])
          /\ c \notin active => sm[c].st = "Idle" /\ last[c] = EmptyView
    /\ fired => batch = {}
-----------------------------------------------------------------------------
(* Sequences and numbers.                                                    *)

LEMMA LeastIn ==
    ASSUME NEW S \in SUBSET Nat, S # {}
    PROVE  \E m \in S : \A n \in S : m <= n
<1>1. PICK m \in S : \A n \in S : ~(<<n, m>> \in OpToRel(<, Nat))
  BY NatLessThanWellFounded, WFMin
<1>2. ASSUME NEW n \in S PROVE m <= n
  <2>1. <<n, m>> \in Nat \X Nat /\ <<n, m>> \notin OpToRel(<, Nat)
    BY <1>1
  <2>2. ~(<<n, m>>[1] < <<n, m>>[2])
    BY <2>1, Zenon DEF OpToRel
  <2> QED BY <2>2
<1> QED BY <1>2

LEMMA InductionOnNat ==
    ASSUME NEW S, 0 \in S, \A n \in Nat : n \in S => n + 1 \in S
    PROVE  \A n \in Nat : n \in S
<1> SUFFICES ASSUME Nat \ S # {} PROVE FALSE
  OBVIOUS
<1>1. PICK m \in Nat \ S : \A n \in Nat \ S : m <= n
  BY LeastIn
<1>2. m # 0 /\ m - 1 \in Nat /\ m - 1 \in S
  BY <1>1
<1> QED BY <1>2

(* A bounded set of positions has a last one.                                *)
LEMMA LastIn ==
    ASSUME NEW n \in Nat, NEW S \in SUBSET (1..n), S # {}
    PROVE  \E i \in S : \A j \in S : j <= i
<1> DEFINE T == {n - i : i \in S}
<1>1. T \in SUBSET Nat /\ T # {}
  <2>1. ASSUME NEW i \in S PROVE n - i \in Nat
    OBVIOUS
  <2> QED BY <2>1
<1> HIDE DEF T
<1>2. PICK t \in T : \A u \in T : t <= u
  BY <1>1, LeastIn
<1>3. PICK i \in S : t = n - i
  BY DEF T
<1>4. ASSUME NEW j \in S PROVE j <= i
  <2>1. n - j \in T
    BY DEF T
  <2>2. n - i <= n - j
    BY <1>2, <1>3, <2>1
  <2> QED BY <2>2
<1> QED BY <1>4

(* A part of a sequence, and its pieces put together again.                  *)
LEMMA PartOf ==
    ASSUME NEW T, NEW s \in Seq(T), NEW i \in Nat \ {0}, NEW j \in 0..Len(s)
    PROVE  /\ SubSeq(s, i, j) \in Seq(T)
           /\ Len(SubSeq(s, i, j)) = IF i <= j THEN j - i + 1 ELSE 0
           /\ \A k \in 1..(j - i + 1) : SubSeq(s, i, j)[k] = s[i + k - 1]
<1>1. \A k \in i..j : s[k] \in T
  <2>1. ASSUME NEW k \in i..j PROVE s[k] \in T
    <3>1. k \in 1..Len(s)
      BY LenProperties
    <3> QED BY <3>1, ElementOfSeq
  <2> QED BY <2>1
<1>2. i \in Int /\ j \in Int
  BY LenProperties
<1> QED BY <1>1, <1>2, SubSeqProperties

LEMMA Halves ==
    ASSUME NEW T, NEW s \in Seq(T), NEW i \in 0..Len(s)
    PROVE  /\ SubSeq(s, 1, i) \in Seq(T) /\ SubSeq(s, i + 1, Len(s)) \in Seq(T)
           /\ Len(SubSeq(s, 1, i)) = i /\ Len(SubSeq(s, i + 1, Len(s))) = Len(s) - i
           /\ SubSeq(s, 1, i) \o SubSeq(s, i + 1, Len(s)) = s
<1>1. /\ Len(s) \in Nat /\ 1 \in 1..(Len(s) + 1) /\ i + 1 \in 1..(Len(s) + 1)
      /\ 1 \in Nat \ {0} /\ i + 1 \in Nat \ {0}
      /\ Len(s) \in 0..Len(s) /\ Len(s) \in i..Len(s) /\ i \in (1 - 1)..Len(s)
  BY LenProperties
<1>2. SubSeq(s, 1, i) \in Seq(T) /\ Len(SubSeq(s, 1, i)) = i
  BY <1>1, PartOf
<1>3. SubSeq(s, i + 1, Len(s)) \in Seq(T) /\ Len(SubSeq(s, i + 1, Len(s))) = Len(s) - i
  BY <1>1, PartOf
<1>4. SubSeq(s, 1, i) \o SubSeq(s, i + 1, Len(s)) = SubSeq(s, 1, Len(s))
  BY <1>1, ConcatAdjacentSubSeq, Zenon
<1> QED BY <1>2, <1>3, <1>4, SubSeqFull

(* Front takes the last element away.                                        *)
LEMMA FrontOf ==
    ASSUME NEW T, NEW s \in Seq(T), s # <<>>
    PROVE  /\ Front(s) \in Seq(T) /\ Len(Front(s)) = Len(s) - 1
           /\ s = Append(Front(s), s[Len(s)])
<1>1. Len(s) \in Nat \ {0} /\ Len(s) - 1 \in 0..Len(s)
  BY EmptySeq, LenProperties
<1>2. Front(s) \in Seq(T) /\ Len(Front(s)) = Len(s) - 1
  BY <1>1, Halves DEF Front
<1>3. \A k \in 1..(Len(s) - 1) : Front(s)[k] = s[k]
  BY <1>1, PartOf DEF Front
<1>4. s[Len(s)] \in T
  BY <1>1, ElementOfSeq
<1>5. Len(Append(Front(s), s[Len(s)])) = Len(s) /\ Append(Front(s), s[Len(s)]) \in Seq(T)
  BY <1>1, <1>2, <1>4, AppendProperties
<1>6. \A k \in 1..Len(s) : s[k] = Append(Front(s), s[Len(s)])[k]
  BY <1>1, <1>2, <1>3, <1>4, AppendProperties
<1> QED BY <1>5, <1>6, SeqEqual

LEMMA FrontOfAppend ==
    ASSUME NEW T, NEW s \in Seq(T), NEW x \in T
    PROVE  Front(Append(s, x)) = s
<1>1. Append(s, x) \in Seq(T) /\ Append(s, x) # <<>>
  BY AppendProperties
<1>2. /\ Front(Append(s, x)) \in Seq(T)
      /\ Append(s, x) = Append(Front(Append(s, x)), Append(s, x)[Len(Append(s, x))])
  BY <1>1, FrontOf
<1>3. Append(s, x)[Len(Append(s, x))] \in T
  BY <1>1, EmptySeq, ElementOfSeq, LenProperties
<1> QED BY <1>2, <1>3, AppendInjective

LEMMA Two ==
    ASSUME NEW T, NEW x \in T, NEW y \in T
    PROVE  <<x, y>> \in Seq(T)
  OBVIOUS

LEMMA One ==
    ASSUME NEW T, NEW x \in T
    PROVE  <<x>> \in Seq(T) /\ <<x>> # <<>> /\ Len(<<x>>) = 1 /\ <<x>>[1] = x
  OBVIOUS

(* What a sequence of syllables spells, piece by piece (FlattenSeq).         *)
Spelling(s, n, f) == f = [i \in 1..n |-> IF i = 1 THEN s[i] ELSE f[i - 1] \o s[i]]

LEMMA SpellingExists ==
    ASSUME NEW s, NEW m \in Nat
    PROVE  \E f : Spelling(s, m, f)
<1> DEFINE S == {n \in Nat : \E f : Spelling(s, n, f)}
<1>1. 0 \in S
  <2> DEFINE f == [i \in 1..0 |-> s[i]]
  <2>1. f = [i \in 1..0 |-> IF i = 1 THEN s[i] ELSE f[i - 1] \o s[i]]
    OBVIOUS
  <2> HIDE DEF f
  <2>2. Spelling(s, 0, f)
    BY <2>1, Zenon DEF Spelling
  <2> QED BY <2>2
<1>2. ASSUME NEW n \in Nat, n \in S PROVE n + 1 \in S
  <2>1. PICK f : Spelling(s, n, f)
    BY <1>2
  <2> DEFINE next == IF n + 1 = 1 THEN s[n + 1] ELSE f[n] \o s[n + 1]
             new == [i \in 1..(n + 1) |-> IF i = n + 1 THEN next ELSE f[i]]
  <2>2. DOMAIN f = 1..n /\ \A i \in 1..n : f[i] = IF i = 1 THEN s[i] ELSE f[i - 1] \o s[i]
    BY <2>1, Zenon DEF Spelling
  <2>3. /\ \A i \in 1..n : new[i] = f[i]
        /\ new[n + 1] = next
    <3> HIDE DEF next
    <3> QED OBVIOUS
  <2>4. DOMAIN new = 1..(n + 1) /\ new = [i \in DOMAIN new |-> new[i]]
    OBVIOUS
  <2> HIDE DEF new
  <2>5. ASSUME NEW i \in 1..(n + 1)
        PROVE  new[i] = IF i = 1 THEN s[i] ELSE new[i - 1] \o s[i]
    <3>1. CASE i \in 1..n /\ i # 1
      <4>1. i - 1 \in 1..n
        BY <3>1
      <4> QED BY <2>2, <2>3, <3>1, <4>1
    <3>2. CASE i = 1 /\ n # 0
      <4>1. i \in 1..n
        BY <3>2
      <4> QED BY <2>2, <2>3, <3>2, <4>1
    <3>3. CASE i = n + 1 /\ i # 1
      <4>1. n \in 1..n /\ i - 1 = n
        BY <3>3
      <4> QED BY <2>3, <3>3, <4>1
    <3>4. CASE i = 1 /\ n = 0
      BY <2>3, <3>4
    <3> QED BY <3>1, <3>2, <3>3, <3>4
  <2>6. Spelling(s, n + 1, new)
    BY <2>4, <2>5 DEF Spelling
  <2> QED BY <2>6
<1> HIDE DEF S
<1>3. m \in S
  BY <1>1, <1>2, InductionOnNat
<1> QED BY <1>3 DEF S

(* What the picked syllables spell before the i-th of them and with it.      *)
LEMMA SpelledIs ==
    ASSUME NEW T, NEW s \in Seq(T), s # <<>>
    PROVE  \E f : /\ Spelled(s) = f[Len(s)] /\ f[1] = s[1]
                  /\ \A i \in 2..Len(s) : f[i] = f[i - 1] \o s[i]
<1> DEFINE f == CHOOSE f : Spelling(s, Len(s), f)
<1>1. Len(s) \in Nat \ {0}
  BY EmptySeq
<1>2. Spelling(s, Len(s), f)
  BY <1>1, SpellingExists
<1>3. Spelled(s) = f[Len(s)]
  BY <1>1 DEF Spelled, FlattenSeq, Spelling
<1> HIDE DEF f
<1>4. \A i \in 1..Len(s) : f[i] = IF i = 1 THEN s[i] ELSE f[i - 1] \o s[i]
  BY <1>2, Zenon DEF Spelling
<1>5. f[1] = s[1]
  <2>1. 1 \in 1..Len(s)
    BY <1>1
  <2> QED BY <1>4, <2>1, Zenon
<1>6. ASSUME NEW i \in 2..Len(s) PROVE f[i] = f[i - 1] \o s[i]
  <2>1. i \in 1..Len(s) /\ i # 1
    BY <1>1
  <2> QED BY <1>4, <2>1, Zenon
<1> QED BY <1>3, <1>5, <1>6

LEMMA SpelledEmpty == Spelled(<<>>) = <<>>
  BY DEF Spelled, FlattenSeq

LEMMA SpelledOne ==
    ASSUME NEW T, NEW x \in T
    PROVE  Spelled(<<x>>) = x
  BY One, SpelledIs

(* A syllable more: what is spelled grows by it.                             *)
LEMMA SpelledAppend ==
    ASSUME NEW T, NEW s \in Seq(T), NEW x \in T
    PROVE  Spelled(Append(s, x)) = IF s = <<>> THEN x ELSE Spelled(s) \o x
<1> DEFINE t == Append(s, x)
<1>1. /\ t \in Seq(T) /\ t # <<>> /\ Len(t) = Len(s) + 1 /\ Len(s) \in Nat
      /\ \A i \in 1..Len(s) : t[i] = s[i]
      /\ t[Len(s) + 1] = x
  BY AppendProperties, LenProperties
<1> HIDE DEF t
<1>2. PICK g : /\ Spelled(t) = g[Len(t)] /\ g[1] = t[1]
               /\ \A i \in 2..Len(t) : g[i] = g[i - 1] \o t[i]
  BY <1>1, SpelledIs
<1>3. CASE s = <<>>
  <2>1. Len(s) = 0
    BY <1>3
  <2> QED BY <1>1, <1>2, <1>3, <2>1 DEF t
<1>4. CASE s # <<>>
  <2>1. PICK f : /\ Spelled(s) = f[Len(s)] /\ f[1] = s[1]
                 /\ \A i \in 2..Len(s) : f[i] = f[i - 1] \o s[i]
    BY <1>4, SpelledIs
  <2>2. Len(s) \in Nat \ {0}
    BY <1>4, EmptySeq
  <2> DEFINE S == {n \in Nat : n \in 1..Len(s) => f[n] = g[n]}
  <2>3. 0 \in S
    OBVIOUS
  <2>4. ASSUME NEW n \in Nat, n \in S PROVE n + 1 \in S
    <3> SUFFICES ASSUME n + 1 \in 1..Len(s) PROVE f[n + 1] = g[n + 1]
      OBVIOUS
    <3>1. CASE n = 0
      BY <1>1, <1>2, <2>1, <2>2, <3>1
    <3>2. CASE n # 0
      <4>1. n \in 1..Len(s) /\ n + 1 \in 2..Len(s) /\ n + 1 \in 2..Len(t) /\ (n + 1) - 1 = n
        BY <1>1, <2>2, <3>2
      <4>2. f[n + 1] = f[n] \o s[n + 1] /\ g[n + 1] = g[n] \o t[n + 1]
        BY <1>2, <2>1, <4>1
      <4>3. f[n] = g[n]
        BY <2>4, <4>1
      <4> QED BY <1>1, <4>1, <4>2, <4>3
    <3> QED BY <3>1, <3>2
  <2> HIDE DEF S
  <2>5. Len(s) \in S
    BY <2>2, <2>3, <2>4, InductionOnNat
  <2>6. f[Len(s)] = g[Len(s)]
    BY <2>2, <2>5 DEF S
  <2>7. Len(t) \in 2..Len(t) /\ Len(t) - 1 = Len(s)
    BY <1>1, <2>2
  <2>8. g[Len(t)] = g[Len(s)] \o t[Len(t)]
    BY <1>2, <2>7
  <2> QED BY <1>1, <1>2, <1>4, <2>1, <2>6, <2>8 DEF t
<1> QED BY <1>3, <1>4

(* What is spelled is text.                                                  *)
LEMMA SpelledText ==
    ASSUME NEW T, NEW s \in Seq(Seq(T))
    PROVE  Spelled(s) \in Seq(T)
<1>1. CASE s = <<>>
  BY <1>1, SpelledEmpty, EmptySeq
<1>2. CASE s # <<>>
  <2>1. PICK f : /\ Spelled(s) = f[Len(s)] /\ f[1] = s[1]
                 /\ \A i \in 2..Len(s) : f[i] = f[i - 1] \o s[i]
    BY <1>2, SpelledIs
  <2>2. Len(s) \in Nat \ {0}
    BY <1>2, EmptySeq
  <2>3. \A i \in 1..Len(s) : s[i] \in Seq(T)
    BY ElementOfSeq
  <2> DEFINE S == {n \in Nat : n \in 1..Len(s) => f[n] \in Seq(T)}
  <2>4. 0 \in S
    OBVIOUS
  <2>5. ASSUME NEW n \in Nat, n \in S PROVE n + 1 \in S
    <3> SUFFICES ASSUME n + 1 \in 1..Len(s) PROVE f[n + 1] \in Seq(T)
      OBVIOUS
    <3>1. CASE n = 0
      BY <2>1, <2>2, <2>3, <3>1
    <3>2. CASE n # 0
      <4>1. n \in 1..Len(s) /\ n + 1 \in 2..Len(s) /\ (n + 1) - 1 = n
        BY <2>2, <3>2
      <4>2. f[n + 1] = f[n] \o s[n + 1] /\ f[n] \in Seq(T) /\ s[n + 1] \in Seq(T)
        BY <2>1, <2>3, <2>5, <4>1
      <4> QED BY <4>2, ConcatProperties
    <3> QED BY <3>1, <3>2
  <2> HIDE DEF S
  <2>6. Len(s) \in S
    BY <2>2, <2>4, <2>5, InductionOnNat
  <2> QED BY <2>1, <2>2, <2>6 DEF S
<1> QED BY <1>1, <1>2

-----------------------------------------------------------------------------
(* Syllables.                                                                *)

LEMMA SyllablesAreText ==
    ASSUME NEW s \in Syllables
    PROVE  s \in Seq(Keys) /\ s # <<>>
  BY SyllableAssumption, SeqMonotonic DEF Keys

(* The first syllable begins the text.                                       *)
LEMMA FirstSyllableOf ==
    ASSUME NEW s \in Seq(Keys)
    PROVE  LET first == FirstSyllable(s)
           IN  /\ first \in Seq(Keys) /\ Len(first) \in 0..Len(s)
               /\ first # <<>> => first \in Syllables
               /\ first \o SubSeq(s, Len(first) + 1, Len(s)) = s
               /\ s \in Syllables => first = s
<1> DEFINE valid == {i \in 1..Len(s) : SubSeq(s, 1, i) \in Syllables}
<1>0. Len(s) \in Nat
  BY LenProperties
<1>1. CASE valid = {}
  <2>1. FirstSyllable(s) = <<>>
    BY <1>1 DEF FirstSyllable
  <2>2. <<>> \o SubSeq(s, 0 + 1, Len(s)) = s
    BY <1>0, Halves, SubSeqFull, SubSeqEmpty
  <2>3. s \notin Syllables
    <3> SUFFICES ASSUME s \in Syllables PROVE FALSE
      OBVIOUS
    <3>1. SubSeq(s, 1, Len(s)) = s /\ Len(s) \in 1..Len(s)
      BY SubSeqFull, SyllablesAreText, EmptySeq
    <3> QED BY <1>1, <3>1
  <2> QED BY <1>0, <2>1, <2>2, <2>3, EmptySeq
<1>2. CASE valid # {}
  <2>1. \E i \in valid : \A j \in valid : j <= i
    BY <1>0, <1>2, LastIn
  <2> DEFINE i == CHOOSE i \in valid : \A j \in valid : j <= i
  <2>2. i \in valid /\ \A j \in valid : j <= i
    BY <2>1
  <2>3. FirstSyllable(s) = SubSeq(s, 1, i)
    BY <1>2 DEF FirstSyllable
  <2> HIDE DEF i
  <2>4. i \in 1..Len(s) /\ i \in 0..Len(s) /\ SubSeq(s, 1, i) \in Syllables
    BY <2>2
  <2>5. /\ SubSeq(s, 1, i) \in Seq(Keys) /\ Len(SubSeq(s, 1, i)) = i
        /\ SubSeq(s, 1, i) \o SubSeq(s, i + 1, Len(s)) = s
    BY <2>4, Halves
  <2>6. ASSUME s \in Syllables PROVE SubSeq(s, 1, i) = s
    <3>1. SubSeq(s, 1, Len(s)) = s
      BY SubSeqFull, Zenon
    <3>4. Len(s) \in 1..Len(s)
      BY <2>6, SyllablesAreText, EmptySeq
    <3>5. Len(s) \in valid
      BY <2>6, <3>1, <3>4, Zenon
    <3>2. Len(s) <= i
      BY <2>2, <3>5
    <3>3. i = Len(s)
      BY <1>0, <2>4, <3>2
    <3> QED BY <3>1, <3>3
  <2> QED BY <2>3, <2>4, <2>5, <2>6
<1> QED BY <1>1, <1>2

-----------------------------------------------------------------------------
(* The pinyin line.                                                          *)

(* The merged list has no other candidates.                                  *)
LEMMA MergedOf ==
    ASSUME NEW S, NEW full \in Seq(S), NEW chars \in Seq(S)
    PROVE  Merged(full, chars) \in Seq(S)
<1> DEFINE n == IF Len(full) < HeadMax THEN Len(full) ELSE HeadMax
<1>1. n \in 0..Len(full)
  BY LenProperties, PageAssumption
<1> HIDE DEF n
<1> DEFINE head == SubSeq(full, 1, n)
<1>2. head \in Seq(S) /\ Len(head) = n
  BY <1>1, Halves
<1>3. SubSeq(full, n + 1, Len(full)) \in Seq(S)
  BY <1>1, Halves
<1>4. (head \o chars) \o SubSeq(full, n + 1, Len(full)) \in Seq(S)
  BY <1>2, <1>3, ConcatProperties
<1>5. Merged(full, chars) = (head \o chars) \o SubSeq(full, n + 1, Len(full))
  BY <1>2 DEF Merged, n
<1> QED BY <1>4, <1>5

(* A composition whose candidates are to be looked up.                       *)
Typing(m) == m \in Machine /\ m.st = "Pinyin" /\ m.buf # <<>> /\ m.cmd.name = None

LEMMA QueryPinyin ==
    ASSUME NEW m, Typing(m), NEW q \in query_pinyin(m)
    PROVE  /\ Coherent(q) /\ q.st = "Pinyin" /\ q.com = m.com /\ q.buf = m.buf /\ q.cpy = m.cpy
           /\ q.cmd = m.cmd
<1> DEFINE S == Fitting("Pinyin", m.buf)
           first == FirstSyllable(m.buf)
<1>1. m.buf \in Seq(Keys) /\ m.cand \in Seq(Candidate)
  BY DEF Typing, Machine
<1>2. PICK full \in Ranked(m.buf), chars \in {<<>>, <<Char(first)>>} :
        /\ q = Shown(m, Merged(full, chars))
        /\ chars # <<>> => first # <<>> /\ Len(first) < Len(m.buf)
  BY DEF query_pinyin
<1>3. \A family \in {"pinyin", "english"} : Full(m.buf, family) \in S
  BY <1>1 DEF Fitting, Full, Candidate
<1> HIDE DEF S
<1>4. full \in Seq(S)
  <2>1. CASE full = <<>>
    BY <2>1, EmptySeq
  <2>2. CASE full = <<Full(m.buf, "pinyin")>>
    BY <1>3, <2>2, One
  <2>3. CASE full = <<Full(m.buf, "english"), Full(m.buf, "pinyin")>>
    BY <1>3, <2>3, Two
  <2> QED BY <2>1, <2>2, <2>3 DEF Ranked
<1>5. chars \in Seq(S)
  <2>1. CASE chars = <<>>
    BY <2>1, EmptySeq
  <2>2. CASE chars # <<>>
    <3>1. first \in Seq(Keys) /\ first \in Syllables /\ Len(first) < Len(m.buf)
      BY <1>1, <1>2, <2>2, FirstSyllableOf
    <3>2. Char(first) \in S
      BY <3>1 DEF S, Fitting, Char, Candidate
    <3> QED BY <1>2, <2>2, <3>2, One
  <2> QED BY <2>1, <2>2
<1> DEFINE cands == Merged(full, chars)
<1>6. cands \in Seq(S) /\ cands \in Seq(Candidate)
  <2>1. S \subseteq Candidate
    BY DEF S, Fitting
  <2> QED BY <1>4, <1>5, <2>1, MergedOf, SeqMonotonic
<1>7. q = Shown(m, cands)
  BY <1>2
<1> HIDE DEF cands
<1>8. /\ q \in Machine /\ q.st = "Pinyin" /\ q.com = m.com /\ q.buf = m.buf /\ q.cpy = m.cpy
      /\ q.cmd = m.cmd /\ q.cand = cands /\ (q.fresh => cands # <<>>)
  BY <1>6, <1>7 DEF Shown, Typing, Machine
<1>9. q.cand \in Seq(Fitting(q.st, q.buf))
  BY <1>6, <1>8 DEF S
<1> QED BY <1>8, <1>9 DEF Coherent, Typing, NameTyped

-----------------------------------------------------------------------------
(* Commands.                                                                 *)

(* A finite set can be listed.                                               *)
LEMMA Listed ==
    ASSUME NEW S, IsFiniteSet(S)
    PROVE  SetToSeq(S) \in Seq(S)
<1>1. Cardinality(S) \in Nat /\ ExistsBijection(1..Cardinality(S), S)
  BY FS_CardinalityType
<1>2. PICK f \in [1..Cardinality(S) -> S] : IsInjective(f)
  BY <1>1 DEF ExistsBijection, Bijection, Injection, IsInjective
<1>3. SetToSeq(S) \in [1..Cardinality(S) -> S]
  BY <1>2 DEF SetToSeq
<1> QED BY <1>1, <1>3, IsASeq

LEMMA MatchType ==
    ASSUME NEW buf
    PROVE  match_command(buf).cmd \in Commands \cup {"snippet", None}
<1> DEFINE exact == {n \in Commands :
                        /\ Triggers[n] = NameOf(buf)
                        /\ NameEnd(buf) = Len(buf) \/ buf[NameEnd(buf) + 1] = "/"}
           chosen == CHOOSE n \in exact : TRUE
<1>1. exact # {} => chosen \in Commands
  BY Zenon
<1>2. \/ match_command(buf).cmd \in {"snippet", None}
      \/ exact # {} /\ match_command(buf).cmd = chosen
  BY DEF match_command
<1> QED BY <1>1, <1>2

LEMMA MemberForType ==
    ASSUME NEW m \in Machine
    PROVE  LET match == match_command(m.buf)
           IN  /\ MemberFor(m, match) \in Member
               /\ MemberFor(m, match).name = IF Live(match) THEN match.cmd ELSE None
               /\ MemberFor(m, match) \in {m.cmd, NoMember, Fresh(match.cmd)}
<1>1. m.cmd \in Member /\ NoMember \in Member /\ NoMember.name = None
  BY EmptySeq DEF Machine, Member, NoMember
<1>2. Fresh(match_command(m.buf).cmd) \in Member
      /\ Fresh(match_command(m.buf).cmd).name = match_command(m.buf).cmd
  BY <1>1, MatchType DEF Fresh, NoMember, Member
<1> QED BY <1>1, <1>2 DEF MemberFor, ensure_command

LEMMA SeesType ==
    ASSUME NEW x \in Member, NEW buf \in Seq(Keys), NEW w
    PROVE  /\ Sees(x, buf, w) \in Member /\ Sees(x, buf, w).name = x.name
<1>1. CASE x.name = "req"
  <2>1. x.name \in Commands
    BY <1>1 DEF Member, None
  <2>2. Len(Triggers["req"]) \in Nat
    BY <1>1, <2>1, TriggerAssumption, LenProperties
  <2>3. SubSeq(buf, 2 + Len(Triggers["req"]), Len(buf)) \in Seq(Keys)
    BY <2>2, PartOf, LenProperties
  <2> DEFINE arg == SubSeq(buf, 2 + Len(Triggers["req"]), Len(buf))
  <2>4. Sees(x, buf, w) = ReqSees(x, buf)
    BY <1>1 DEF Sees
  <2> DEFINE status == IF x.status = "done" THEN "idle" ELSE x.status
  <2>5. ReqSees(x, buf) \in {x, [x EXCEPT !.arg = arg, !.status = status]}
    BY DEF ReqSees
  <2>6. arg \in Seq(Keys) /\ status \in {"idle", "flight", "done", "failed"}
    BY <2>3 DEF Member
  <2> HIDE DEF arg, status
  <2> DEFINE new == [x EXCEPT !.arg = arg, !.status = status]
  <2>7. new \in Member /\ new.name = x.name
    BY <2>6 DEF Member
  <2>8. Sees(x, buf, w) = x \/ Sees(x, buf, w) = new
    BY <2>4, <2>5
  <2> HIDE DEF new
  <2> QED BY <2>7, <2>8
<1>2. CASE x.name # "req"
  <2>1. Sees(x, buf, w) \in {x, [x EXCEPT !.asked = TRUE], [x EXCEPT !.asked = @ \/ ~w.clips]}
    BY <1>2 DEF Sees
  <2>2. (x.asked \/ ~w.clips) \in BOOLEAN
    OBVIOUS
  <2> QED BY <2>1, <2>2 DEF Member
<1> QED BY <1>1, <1>2

(* What the members predict is shown for a command only.                     *)
LEMMA PredictType ==
    ASSUME NEW x \in Member, NEW buf \in Seq(Keys), NEW w
    PROVE  predict(x, buf, w) \in Seq(Fitting("Snippet", buf))
<1> DEFINE S == Fitting("Snippet", buf)
<1>1. Text(buf) \in S /\ Prompt \in S
  BY EmptySeq DEF Fitting, Text, Prompt, Candidate
<1>2. Text(x.body) \in S
  BY DEF Fitting, Text, Candidate, Member
<1> HIDE DEF S
<1>3. <<Text(buf)>> \in Seq(S) /\ <<Prompt>> \in Seq(S) /\ <<Text(x.body)>> \in Seq(S)
      /\ <<>> \in Seq(S)
  BY <1>1, <1>2, One, EmptySeq
<1>4. predict(x, buf, w) \in {<<Text(buf)>>, <<Prompt>>, <<Text(x.body)>>, <<>>}
  BY DEF predict
<1> QED BY <1>3, <1>4 DEF S

(* A command that is looked up again; nothing is given to the application.   *)
MagicLine(m) == m \in Machine /\ m.st = "Snippet" /\ m.buf # <<>> /\ m.com = <<>>

(* What #req shows is what it would predict now.                             *)
ShowsRequest(m) ==
    m.cmd.name = "req" /\ m.cand # <<>> =>
        Front(m.cand) = IF m.cmd.status = "done" THEN <<Text(m.cmd.body)>> ELSE <<Prompt>>

Looked(r) ==
    /\ Coherent(r.m) /\ r.m.st = "Snippet" /\ ShowsRequest(r.m)
    /\ r.kind = None /\ r.taught = {} /\ ~r.through /\ r.send \in Seq({"clip", "req"})

LEMMA RebuildIsCoherent ==
    ASSUME NEW m, MagicLine(m), m.cmd.name = NameTyped(m),
           NEW options \in Seq(Fitting("Snippet", m.buf))
    PROVE  LET new == rebuild_magic_view(m, options)
           IN  /\ Coherent(new) /\ new.st = "Snippet" /\ new.cmd = m.cmd /\ new.buf = m.buf
               /\ new.cpy = m.cpy /\ Front(new.cand) = options
<1> DEFINE S == Fitting("Snippet", m.buf)
           cands == Append(options, Rollback(m.buf))
<1>1. Rollback(m.buf) \in S
  BY DEF Fitting, Rollback, Candidate, MagicLine, Machine
<1>2. S \subseteq Candidate
  BY DEF Fitting
<1> HIDE DEF S
<1>3. options \in Seq(S)
  BY DEF S
<1>4. cands \in Seq(S) /\ cands # <<>> /\ cands \in Seq(Candidate) /\ Front(cands) = options
  BY <1>1, <1>2, <1>3, AppendProperties, FrontOfAppend, SeqMonotonic
<1> DEFINE new == [m EXCEPT !.cand = cands, !.fresh = TRUE, !.hl = 0, !.page = 0]
<1>5. rebuild_magic_view(m, options) = new
  BY DEF rebuild_magic_view
<1> HIDE DEF cands
<1>6. /\ new \in Machine /\ new.st = "Snippet" /\ new.buf = m.buf /\ new.com = <<>>
      /\ new.cmd = m.cmd /\ new.cand = cands /\ new.cpy = m.cpy
  BY <1>4 DEF MagicLine, Machine
<1> HIDE DEF new
<1>7. NameTyped(new) = NameTyped(m)
  BY <1>6 DEF NameTyped, MagicLine
<1>8. Coherent(new)
  BY <1>4, <1>6, <1>7 DEF Coherent, MagicLine, S
<1> QED BY <1>4, <1>5, <1>6, <1>8

LEMMA HintsListed ==
    ASSUME NEW buf \in Seq(Keys)
    PROVE  SetToSeq({Hint(n) : n \in Hints(buf)}) \in Seq(Fitting("Snippet", buf))
<1> DEFINE S == {Hint(n) : n \in Hints(buf)}
           f == [n \in Hints(buf) |-> Hint(n)]
<1>1. Hints(buf) \subseteq Commands
  BY DEF Hints
<1>2. IsFiniteSet(Hints(buf))
  BY <1>1, TriggerAssumption, FS_Subset
<1>3. f \in Surjection(Hints(buf), S)
  BY DEF Surjection
<1>4. IsFiniteSet(S)
  BY <1>2, <1>3, FS_Surjection
<1>5. ASSUME NEW n \in Hints(buf) PROVE Hint(n) \in Fitting("Snippet", buf)
  <2>1. Triggers[n] \in Seq(Keys)
    BY <1>1, TriggerAssumption, SeqMonotonic DEF Keys
  <2>2. "#" \in Keys
    BY DEF Keys, OtherKeys
  <2>3. <<"#">> \in Seq(Keys) /\ Len(<<"#">>) = 1
    BY <2>2, One
  <2> DEFINE of == <<"#">> \o Triggers[n]
  <2>4. of \in Seq(Keys) /\ of # <<>>
    <3>1. of \in Seq(Keys) /\ Len(of) = Len(<<"#">>) + Len(Triggers[n])
      BY <2>1, <2>3, ConcatProperties
    <3>2. Len(of) # 0
      BY <2>1, <2>3, <3>1, LenProperties
    <3> QED BY <3>1, <3>2, EmptySeq
  <2>5. Hint(n) = [kind |-> "hint", of |-> of, family |-> None]
    BY DEF Hint
  <2> HIDE DEF of
  <2> QED BY <2>4, <2>5 DEF Fitting, Candidate
<1>6. S \subseteq Fitting("Snippet", buf)
  BY <1>5
<1> HIDE DEF S
<1>7. SetToSeq(S) \in Seq(Fitting("Snippet", buf))
  BY <1>4, <1>6, Listed, SeqMonotonic
<1> QED BY <1>7 DEF S

LEMMA QueryMagic ==
    ASSUME NEW m, MagicLine(m), NEW w
    PROVE  /\ Looked(query_magic(m, w))
           /\ query_magic(m, w).m.buf = m.buf /\ query_magic(m, w).m.cpy = m.cpy
<1> DEFINE match == match_command(m.buf)
           old   == MemberFor(m, match)
           new   == Sees(old, m.buf, w)
           options ==
            CASE Live(match) -> predict(new, m.buf, w)
              [] match.is = "static" -> <<Text(m.buf)>>
              [] match.is = "prefix" -> SetToSeq({Hint(n) : n \in Hints(m.buf)})
              [] OTHER -> <<>>
           sel == \/ match.is = "prefix"
                  \/ match.is \in {"live", "static"} /\ NameEnd(m.buf) = Len(m.buf)
           line == [m EXCEPT !.cmd = new, !.sel = sel]
           shown == rebuild_magic_view(line, options)
           send == IF new.asked /\ ~old.asked THEN <<"clip">> ELSE <<>>
<1>1. m \in Machine /\ m.buf \in Seq(Keys) /\ m.st = "Snippet"
  BY DEF MagicLine, Machine
<1>2. new \in Member /\ new.name = IF Live(match) THEN match.cmd ELSE None
  BY <1>1, MemberForType, SeesType
<1>3. sel \in BOOLEAN
  OBVIOUS
<1>4. query_magic(m, w) = [Handled(shown) EXCEPT !.send = send]
  BY DEF query_magic
<1>5. options \in Seq(Fitting("Snippet", m.buf))
  <2>1. Text(m.buf) \in Fitting("Snippet", m.buf)
    BY <1>1, EmptySeq DEF Fitting, Text, Candidate
  <2>2. <<Text(m.buf)>> \in Seq(Fitting("Snippet", m.buf))
    BY <2>1, One
  <2>3. predict(new, m.buf, w) \in Seq(Fitting("Snippet", m.buf))
    BY <1>1, <1>2, PredictType
  <2>4. SetToSeq({Hint(n) : n \in Hints(m.buf)}) \in Seq(Fitting("Snippet", m.buf))
    BY <1>1, HintsListed
  <2>5. <<>> \in Seq(Fitting("Snippet", m.buf))
    BY EmptySeq
  <2> HIDE DEF match, new
  <2> QED BY <2>2, <2>3, <2>4, <2>5
<1>6. new.name = "req" => options = predict(new, m.buf, w)
  <2>1. new.name # None => Live(match)
    BY <1>2
  <2> HIDE DEF match, new
  <2>2. Live(match) => match.is # "static" /\ match.is # "prefix"
    BY DEF Live
  <2>3. Live(match) => options = predict(new, m.buf, w)
    BY <2>2
  <2> QED BY <2>1, <2>3 DEF None
<1>7. send \in Seq({"clip", "req"})
  BY EmptySeq, One
<1>8. NameTyped(m) = new.name
  BY <1>1, <1>2 DEF NameTyped
<1> HIDE DEF match, old, new, options, sel, send
<1>9. /\ MagicLine(line) /\ line.buf = m.buf /\ line.st = m.st /\ line.cmd = new
      /\ line.cpy = m.cpy
  BY <1>2, <1>3 DEF MagicLine, Machine
<1>10. NameTyped(line) = NameTyped(m)
  BY <1>9 DEF NameTyped
<1> HIDE DEF line
<1>11. /\ Coherent(shown) /\ shown.st = "Snippet" /\ shown.cmd = new /\ shown.buf = m.buf
       /\ shown.cpy = m.cpy /\ Front(shown.cand) = options
  BY <1>5, <1>8, <1>9, <1>10, RebuildIsCoherent
<1>12. ShowsRequest(shown)
  BY <1>6, <1>11 DEF ShowsRequest, predict
<1> HIDE DEF shown
<1> QED BY <1>4, <1>7, <1>11, <1>12 DEF Looked, Handled

-----------------------------------------------------------------------------
(* What a handler does to a composition.                                     *)

(* The letters that what is picked and what is left to write stand for, and  *)
(* whether the pinyin copy still is that of what was picked.                 *)
Spelt(m) == Spelled(m.com) \o m.buf
Clean(m) == m.cpy = Spelled(m.com)

(* The composition after it is coherent, ended when text was committed, the  *)
(* same when the key was passed on, and a request's result is shown anew     *)
(* unless nothing of it changed.                                             *)
Outcome(m, r) ==
    /\ Coherent(r.m)
    /\ r.kind # None => r.m.st = "Idle"
    /\ r.through => r.m = m
    /\ ShowsRequest(r.m) \/ (r.m.cand = m.cand /\ r.m.cmd = m.cmd)
    /\ r.send \in Seq({"clip", "req"})

(* The text that is committed is what was typed, and the phrase book is      *)
(* taught what was composed.                                                 *)
Gives(m, r) ==
    /\ r.kind \in {"pick", "raw", "ended"} => m.st = "Pinyin" /\ r.text = Spelt(m)
    /\ Clean(m) => \A pair \in r.taught : pair[1] = pair[2]

(* A composition that goes on stands for the same letters, and no picked     *)
(* character is left behind.                                                 *)
Stays(m, n) ==
    /\ n.st = "Pinyin" => m.st = "Pinyin" /\ Spelt(n) = Spelt(m)
    /\ Clean(m) /\ (m.com # <<>> => n.st # "Idle") => Clean(n) \/ n = Idle
    /\ n = Idle => Clean(n)

LEMMA IdleIsCoherent == Coherent(Idle) /\ ShowsRequest(Idle) /\ Clean(Idle) /\ Idle.st = "Idle"
<1>1. NoMember \in Member /\ NoMember.name = None
  BY EmptySeq DEF Member, NoMember
<1>2. Idle \in Machine
  BY <1>1, EmptySeq DEF Idle, Machine
<1> QED BY <1>1, <1>2, EmptySeq, SpelledEmpty DEF Coherent, Idle, ShowsRequest, Clean, NameTyped

(* Text that is committed ends the composition.                              *)
LEMMA CommitEnds ==
    ASSUME NEW m, NEW kind, NEW text
    PROVE  /\ Outcome(m, Commit(Idle, kind, text)) /\ Stays(m, Idle)
           /\ Commit(Idle, kind, text).kind = kind /\ Commit(Idle, kind, text).text = text
           /\ Commit(Idle, kind, text).taught = {} /\ Commit(Idle, kind, text).m = Idle
  BY IdleIsCoherent, EmptySeq DEF Outcome, Commit, Handled, Stays

LEMMA HandledIs ==
    ASSUME NEW m, Coherent(m), NEW was, (m.cand = was.cand /\ m.cmd = was.cmd) \/ ShowsRequest(m)
    PROVE  Outcome(was, Handled(m)) /\ Gives(was, Handled(m)) /\ Handled(m).m = m
           /\ Handled(m).kind = None /\ ~Handled(m).through
  BY EmptySeq DEF Outcome, Handled, Gives, None

LEMMA ThroughIs ==
    ASSUME NEW m, Coherent(m)
    PROVE  Outcome(m, Through(m)) /\ Gives(m, Through(m)) /\ Through(m).m = m
  BY EmptySeq DEF Outcome, Handled, Through, Gives, None

(* What a coherent composition's texts are.                                  *)
LEMMA TextsOf ==
    ASSUME NEW m \in Machine
    PROVE  /\ m.com \in Seq(Seq(Keys)) /\ Spelled(m.com) \in Seq(Keys) /\ m.buf \in Seq(Keys)
           /\ m.cpy \in Seq(Keys) /\ Spelt(m) \in Seq(Keys)
<1>1. Syllables \subseteq Seq(Keys)
  BY SyllablesAreText
<1>2. m.com \in Seq(Seq(Keys)) /\ m.buf \in Seq(Keys) /\ m.cpy \in Seq(Keys)
  BY <1>1, SeqMonotonic DEF Machine
<1>3. Spelled(m.com) \in Seq(Keys)
  BY <1>2, SpelledText
<1> QED BY <1>2, <1>3, ConcatProperties DEF Spelt

LEMMA Regroup ==
    ASSUME NEW T, NEW a \in Seq(T), NEW b \in Seq(T), NEW c \in Seq(T)
    PROVE  (a \o b) \o c = a \o (b \o c)
  BY ConcatAssociative

LEMMA SpelledMore ==
    ASSUME NEW com \in Seq(Seq(Keys)), NEW x \in Seq(Keys)
    PROVE  Spelled(Append(com, x)) = Spelled(com) \o x
<1>1. <<>> \o x = x
  BY ConcatEmptySeq
<1> QED BY <1>1, SpelledAppend, SpelledEmpty

(* select(), of any candidate.                                               *)
LEMMA SelectIs ==
    ASSUME NEW m, Coherent(m), NEW i \in Nat, NEW r \in select(m, i)
    PROVE  Outcome(m, r) /\ Gives(m, r) /\ Stays(m, r.m) /\ ~r.through
<1> DEFINE c == m.cand[i + 1]
           pinyin == IF m.com = <<>> THEN m.buf ELSE m.cpy \o m.buf
           text == Append(m.com, c.of)
           first == FirstSyllable(m.buf)
<1>0. m \in Machine
  BY DEF Coherent
<1>1. CASE i >= Len(m.cand)
  <2>1. r = Handled(m)
    BY <1>1 DEF select
  <2>2. Outcome(m, r) /\ Gives(m, r) /\ r.m = m /\ ~r.through
    BY <2>1, HandledIs
  <2> QED BY <2>2, IdleIsCoherent DEF Stays
<1>2. CASE ~(i >= Len(m.cand))
  <2>1. c \in Fitting(m.st, m.buf)
    <3>1. i + 1 \in 1..Len(m.cand)
      BY <1>0, <1>2, LenProperties DEF Machine
    <3> QED BY <3>1, ElementOfSeq DEF Coherent
  <2>2. c \in Candidate /\ c.of \in Seq(Keys)
    BY <2>1 DEF Fitting, Candidate
  <2>3. CASE c.kind = "char"
    <3> DEFINE picked == [m EXCEPT !.com = text,
                                   !.buf = SubSeq(@, Len(first) + 1, Len(@)),
                                   !.cpy = @ \o first, !.fresh = FALSE, !.hl = 0]
    <3>1. PICK q \in query_pinyin(picked) :
             r = [Handled(q) EXCEPT !.taught = {<<first, c.of>>}]
      BY <1>2, <2>3 DEF select
    <3>2. c.of = first /\ first \in Syllables /\ Len(first) < Len(m.buf) /\ m.st = "Pinyin"
      BY <2>1, <2>3 DEF Fitting
    <3> DEFINE rest == SubSeq(m.buf, Len(first) + 1, Len(m.buf))
               copy == m.cpy \o first
    <3>3. /\ first \in Seq(Keys) /\ Len(first) \in 0..Len(m.buf) /\ first \o rest = m.buf
          /\ rest \in Seq(Keys) /\ rest # <<>>
      <4>1. first \in Seq(Keys) /\ Len(first) \in 0..Len(m.buf) /\ first \o rest = m.buf
        BY <1>0, TextsOf, FirstSyllableOf
      <4>2. rest \in Seq(Keys) /\ Len(rest) = Len(m.buf) - Len(first)
        BY <1>0, <4>1, TextsOf, Halves, ZenonT(60)
      <4>3. Len(rest) # 0
        BY <1>0, <3>2, <4>1, <4>2, TextsOf, LenProperties
      <4> QED BY <4>1, <4>2, <4>3, EmptySeq
    <3>4. text \in Seq(Syllables)
      BY <1>0, <3>2, AppendProperties DEF Machine
    <3>5. copy \in Seq(Keys)
      BY <1>0, <3>3, TextsOf, ConcatProperties
    <3>6. picked = [m EXCEPT !.com = text, !.buf = rest, !.cpy = copy, !.fresh = FALSE, !.hl = 0]
      BY <1>0 DEF Machine
    <3>7. Spelled(text) = Spelled(m.com) \o first
      BY <1>0, <3>2, <3>3, TextsOf, SpelledMore
    <3> HIDE DEF rest, copy, text, picked, first
    <3>8. /\ picked \in Machine /\ picked.st = "Pinyin" /\ picked.buf = rest /\ picked.com = text
          /\ picked.cpy = copy /\ picked.cmd = m.cmd
      BY <1>0, <3>2, <3>3, <3>4, <3>5, <3>6 DEF Machine
    <3>9. m.cmd.name = None
      BY <3>2 DEF Coherent, NameTyped
    <3>10. Typing(picked)
      BY <3>3, <3>8, <3>9 DEF Typing
    <3>11. /\ Coherent(q) /\ q.st = "Pinyin" /\ q.com = text /\ q.buf = rest /\ q.cpy = copy
           /\ q.cmd = m.cmd
      BY <3>8, <3>10, QueryPinyin
    <3>12. /\ r.m = q /\ r.kind = None /\ r.taught = {<<first, c.of>>} /\ ~r.through
           /\ r.send = <<>>
      BY <3>1 DEF Handled
    <3>13. Spelt(q) = Spelt(m)
      <4>1. Spelt(q) = (Spelled(m.com) \o first) \o rest
        BY <3>7, <3>11 DEF Spelt
      <4>2. (Spelled(m.com) \o first) \o rest = Spelled(m.com) \o (first \o rest)
        <5>1. Spelled(m.com) \in Seq(Keys)
          BY <1>0, TextsOf
        <5>2. first \in Seq(Keys) /\ rest \in Seq(Keys)
          BY <3>3
        <5> QED BY <5>1, <5>2, Regroup
      <4> QED BY <3>3, <4>1, <4>2 DEF Spelt
    <3>14. Clean(m) => Clean(q)
      BY <3>7, <3>11 DEF Clean, copy
    <3> QED BY <3>2, <3>9, <3>11, <3>12, <3>13, <3>14, EmptySeq, IdleIsCoherent
            DEF Outcome, Gives, Stays, ShowsRequest, None
  <2>4. CASE c.kind # "char"
    <3> DEFINE kind == CASE c.kind = "full" -> "pick" [] c.kind = "prompt" -> "prompt"
                         [] OTHER -> "magic"
               taught == IF c.family = "pinyin" \/ m.com # <<>>
                         THEN {<<pinyin, Spelled(text)>>} ELSE {}
               done == Commit(Idle, kind, Spelled(text))
    <3>1. r = [done EXCEPT !.family = c.family, !.taught = taught]
      BY <1>2, <2>4 DEF select, reset
    <3>2. Spelled(text) = Spelled(m.com) \o c.of
      BY <1>0, <2>2, TextsOf, SpelledMore
    <3>3. taught # {} => m.st = "Pinyin" /\ c.of = m.buf
      BY <2>1, <2>4 DEF Fitting, Coherent, None
    <3>4. Clean(m) => pinyin = Spelt(m)
      <4>1. m.com = <<>> => Spelt(m) = m.buf
        BY <1>0, TextsOf, SpelledEmpty, ConcatEmptySeq DEF Spelt
      <4> QED BY <4>1 DEF Clean, Spelt
    <3>5. /\ r.m = Idle /\ r.kind = kind /\ r.text = Spelled(text) /\ r.taught = taught
          /\ ~r.through /\ r.send = <<>>
      BY <3>1 DEF Commit, Handled
    <3>6. kind = "pick" => c.kind = "full"
      OBVIOUS
    <3>7. kind \in {"pick", "prompt", "magic"}
      OBVIOUS
    <3>8. c.kind = "full" => c.of = m.buf /\ m.st = "Pinyin"
      BY <2>1 DEF Fitting
    <3>9. ASSUME Clean(m), NEW pair \in taught PROVE pair[1] = pair[2]
      <4>1. pair = <<pinyin, Spelled(text)>> /\ c.of = m.buf
        BY <3>3, <3>9
      <4> QED BY <3>2, <3>4, <3>9, <4>1 DEF Spelt
    <3> HIDE DEF kind, taught, pinyin, text
    <3>10. Gives(m, r)
      BY <3>2, <3>5, <3>6, <3>7, <3>8, <3>9 DEF Gives, Spelt
    <3> QED BY <3>5, <3>10, IdleIsCoherent, EmptySeq DEF Outcome, Stays
  <2> QED BY <2>3, <2>4
<1> QED BY <1>1, <1>2

-----------------------------------------------------------------------------
(* The keys.                                                                 *)

(* A letter more, a letter less.                                             *)
LEMMA SpeltMore ==
    ASSUME NEW m \in Machine, NEW n, n.com = m.com, NEW key \in Keys, n.buf = Append(m.buf, key)
    PROVE  Spelt(n) = Append(Spelt(m), key)
<1>1. /\ Spelled(m.com) \in Seq(Keys) /\ m.buf \in Seq(Keys) /\ <<key>> \in Seq(Keys)
      /\ Spelt(m) \in Seq(Keys)
  BY TextsOf, One
<1>2. n.buf = m.buf \o <<key>> /\ Append(Spelt(m), key) = Spelt(m) \o <<key>>
  BY <1>1, AppendIsConcat
<1>3. (Spelled(m.com) \o m.buf) \o <<key>> = Spelled(m.com) \o (m.buf \o <<key>>)
  <2>1. Spelled(m.com) \in Seq(Keys) /\ m.buf \in Seq(Keys)
    BY <1>1
  <2>2. <<key>> \in Seq(Keys)
    BY <1>1
  <2> DEFINE a == Spelled(m.com)
             b == m.buf
             c == <<key>>
  <2>3. a \in Seq(Keys) /\ b \in Seq(Keys) /\ c \in Seq(Keys)
    BY <2>1, <2>2
  <2> HIDE DEF a, b, c
  <2>4. (a \o b) \o c = a \o (b \o c)
    BY <2>3, Regroup, SMTT(30)
  <2> QED BY <2>4 DEF a, b, c
<1> QED BY <1>2, <1>3 DEF Spelt

LEMMA SpeltAlone ==
    ASSUME NEW m \in Machine, m.com = <<>>
    PROVE  Spelt(m) = m.buf
  BY TextsOf, SpelledEmpty, ConcatEmptySeq DEF Spelt

(* What the letters of a composition become with a key (Track).              *)
Lettered(m, key, n) ==
    /\ n.st = "Pinyin" =>
          /\ key \in Letters => m.st # "Snippet" /\ Spelt(n) = Append(Spelt(m), key)
          /\ key \notin Letters => m.st = "Pinyin"
          /\ key = "Backspace" /\ m.com = <<>> => Spelt(n) = Front(Spelt(m))
          /\ key = "Backspace" /\ Len(m.com) = 1 /\ Clean(m) => Spelt(n) = Spelt(m)
          /\ key \notin Letters \cup {"Backspace"} => Spelt(n) = Spelt(m)
    /\ Clean(m) /\ ~(key = "Backspace" /\ Len(m.com) > 1)
              /\ (m.com # <<>> => n.st # "Idle") => Clean(n) \/ n = Idle
    /\ n = Idle => Clean(n)

Handles(m, key, r) == Outcome(m, r) /\ Gives(m, r) /\ Lettered(m, key, r.m)

LEMMA StaysIsLettered ==
    ASSUME NEW m, NEW n, Stays(m, n), NEW key, key \notin Letters, key # "Backspace"
    PROVE  Lettered(m, key, n)
  BY DEF Stays, Lettered

(* Ending or passing on with any key.                                        *)
LEMMA EndsHandled ==
    ASSUME NEW m, NEW kind, NEW text, NEW key,
           kind \in {"pick", "raw", "ended"} => m.st = "Pinyin" /\ text = Spelt(m)
    PROVE  Handles(m, key, Commit(Idle, kind, text))
<1>1. Outcome(m, Commit(Idle, kind, text))
  BY CommitEnds
<1>2. Gives(m, Commit(Idle, kind, text))
  <2> DEFINE r == Commit(Idle, kind, text)
  <2>1. r.kind = kind /\ r.text = text /\ r.taught = {}
    BY CommitEnds
  <2> HIDE DEF r
  <2>2. Gives(m, r)
    BY <2>1 DEF Gives
  <2> QED BY <2>2 DEF r
<1>3. Lettered(m, key, Idle)
  BY IdleIsCoherent DEF Lettered
<1> QED BY <1>1, <1>2, <1>3, CommitEnds DEF Handles

LEMMA ResetHandled ==
    ASSUME NEW m, NEW key
    PROVE  Handles(m, key, Handled(reset(m)))
<1>1. Outcome(m, Handled(Idle)) /\ Gives(m, Handled(Idle)) /\ Handled(Idle).m = Idle
  BY IdleIsCoherent, HandledIs
<1>2. Lettered(m, key, Idle)
  BY IdleIsCoherent DEF Lettered
<1> QED BY <1>1, <1>2 DEF Handles, reset

LEMMA ThroughHandled ==
    ASSUME NEW m, Coherent(m), NEW key, key \notin Letters,
           key = "Backspace" => m.st # "Pinyin"
    PROVE  Handles(m, key, Through(m))
<1>1. Lettered(m, key, m)
  <2>1. m = Idle => Clean(m)
    BY IdleIsCoherent
  <2> QED BY <2>1 DEF Lettered
<1> QED BY <1>1, ThroughIs DEF Handles

(* Only the highlight, the page or the freshness of the list differs.        *)
LEMMA SameLine ==
    ASSUME NEW m, Coherent(m), NEW hl \in Nat, NEW page \in Nat, NEW fresh \in {m.fresh, FALSE}
    PROVE  LET n == [m EXCEPT !.hl = hl, !.page = page, !.fresh = fresh]
           IN  /\ Coherent(n) /\ n.cand = m.cand /\ n.cmd = m.cmd /\ n.st = m.st /\ n.buf = m.buf
               /\ n.com = m.com /\ n.cpy = m.cpy
<1> DEFINE n == [m EXCEPT !.hl = hl, !.page = page, !.fresh = fresh]
<1>1. m \in Machine /\ (fresh => m.fresh) /\ fresh \in BOOLEAN
  BY DEF Coherent, Machine
<1>2. /\ n \in Machine /\ n.cand = m.cand /\ n.cmd = m.cmd /\ n.st = m.st /\ n.buf = m.buf
      /\ n.com = m.com /\ n.cpy = m.cpy /\ n.fresh = fresh
  BY <1>1 DEF Machine
<1> HIDE DEF n
<1>3. Coherent(n)
  BY <1>1, <1>2 DEF Coherent, NameTyped
<1> QED BY <1>2, <1>3 DEF n

(* Backspace in pinyin.                                                      *)
LEMMA PinyinBackspaceIs ==
    ASSUME NEW m, Coherent(m), m.st = "Pinyin", NEW r \in pinyin_backspace(m)
    PROVE  Handles(m, "Backspace", r)
<1>0. m \in Machine /\ m.buf # <<>> /\ m.buf \in Seq(Keys) /\ m.cpy \in Seq(Keys)
      /\ m.cmd.name = None /\ "Backspace" \notin Letters
  <2>1. m \in Machine /\ m.buf # <<>>
    BY DEF Coherent
  <2>2. m.cmd.name = None
    BY DEF Coherent, NameTyped
  <2>3. "Backspace" \notin Letters
    BY LetterAssumption DEF OtherKeys
  <2> QED BY <2>1, <2>2, <2>3, TextsOf
<1>1. CASE m.com # <<>>
  <2> DEFINE syl == FirstSyllable(m.cpy)
             kept == IF Len(syl) > Len(m.cpy) THEN 0 ELSE Len(m.cpy) - Len(syl)
             com == Front(m.com)
             cpy == SubSeq(m.cpy, 1, kept)
             buf == syl \o m.buf
             line == [m EXCEPT !.com = com, !.cpy = cpy, !.buf = buf, !.fresh = FALSE]
  <2>1. PICK q \in query_pinyin(line) : r = Handled(q)
    <3>1. line = [m EXCEPT !.com = Front(@), !.cpy = SubSeq(@, 1, kept),
                           !.buf = syl \o @, !.fresh = FALSE]
      BY <1>0 DEF Machine
    <3> QED BY <1>1, <3>1 DEF pinyin_backspace
  <2>2. syl \in Seq(Keys) /\ Len(syl) \in 0..Len(m.cpy) /\ Len(m.cpy) \in Nat
    BY <1>0, FirstSyllableOf, LenProperties
  <2>3. com \in Seq(Syllables) /\ Len(com) = Len(m.com) - 1 /\ Len(m.com) \in Nat
    BY <1>0, <1>1, FrontOf, LenProperties DEF Machine
  <2>4. cpy \in Seq(Keys) /\ (kept = 0 => cpy = <<>>)
    <3> HIDE DEF syl
    <3>1. kept \in 0..Len(m.cpy)
      BY <2>2
    <3> HIDE DEF kept
    <3>2. kept = 0 => cpy = <<>>
      BY SubSeqEmpty
    <3> QED BY <1>0, <3>1, <3>2, Halves
  <2>5. buf \in Seq(Keys) /\ buf # <<>>
    <3> HIDE DEF syl
    <3>1. buf \in Seq(Keys) /\ Len(buf) = Len(syl) + Len(m.buf)
      BY <1>0, <2>2, ConcatProperties
    <3>2. Len(m.buf) \in Nat \ {0} /\ Len(syl) \in Nat
      BY <1>0, <2>2, EmptySeq
    <3>3. Len(buf) # 0
      BY <3>1, <3>2
    <3> QED BY <3>1, <3>3, EmptySeq
  <2>6. ASSUME Len(m.com) = 1, Clean(m)
        PROVE  syl \o m.buf = Spelt(m) /\ com = <<>> /\ cpy = <<>> /\ buf = Spelt(m)
    <3>1. com = <<>>
      BY <2>3, <2>6, EmptySeq
    <3>2. m.com[1] \in Syllables /\ m.com = Append(com, m.com[1])
      BY <1>0, <1>1, <2>6, FrontOf, ElementOfSeq DEF Machine
    <3>3. Spelled(m.com) = m.com[1]
      BY <2>3, <3>1, <3>2, SpelledAppend
    <3>4. syl = m.cpy /\ m.cpy = m.com[1]
      BY <1>0, <2>6, <3>2, <3>3, FirstSyllableOf DEF Clean
    <3>5. kept = 0
      BY <2>2, <3>4
    <3> QED BY <2>4, <3>1, <3>3, <3>4, <3>5 DEF Spelt
  <2> HIDE DEF com, cpy, buf, syl
  <2>7. line \in Machine /\ line.st = "Pinyin" /\ line.com = com /\ line.cpy = cpy /\ line.buf = buf
        /\ line.cmd = m.cmd
    BY <1>0, <2>3, <2>4, <2>5 DEF Machine
  <2> HIDE DEF line
  <2>8. /\ Coherent(q) /\ q.st = "Pinyin" /\ q.com = com /\ q.cpy = cpy /\ q.buf = buf
        /\ q.cmd = m.cmd
    BY <1>0, <2>5, <2>7, QueryPinyin DEF Typing
  <2>9. Outcome(m, r) /\ Gives(m, r) /\ r.m = q
    <3>1. ShowsRequest(q)
      BY <1>0, <2>8 DEF ShowsRequest, None
    <3> QED BY <2>1, <2>8, <3>1, HandledIs
  <2>10. Len(m.com) # 0
    BY <1>0, <1>1, EmptySeq DEF Machine
  <2>11. ASSUME Len(m.com) = 1, Clean(m) PROVE Spelt(q) = Spelt(m) /\ Clean(q)
    <3>1. Spelt(q) = q.buf
      BY <2>6, <2>8, <2>11, SpeltAlone DEF Coherent
    <3> QED BY <2>6, <2>8, <2>11, <3>1, SpelledEmpty DEF Clean
  <2>12. q # Idle
    BY <2>8, IdleIsCoherent
  <2>14. ~(Len(m.com) > 1) => Len(m.com) = 1
    <3>1. PICK n \in Nat : n = Len(m.com)
      BY <2>3
    <3>2. n # 0
      BY <2>10, <3>1
    <3>3. ~(n > 1) => n = 1
      BY <3>2
    <3> QED BY <3>1, <3>3
  <2>13. Lettered(m, "Backspace", q)
    <3>1. q.st = "Pinyin" => m.st = "Pinyin"
      OBVIOUS
    <3>2. Clean(m) /\ ~(Len(m.com) > 1) => Clean(q)
      BY <2>11, <2>14
    <3> QED BY <1>0, <1>1, <2>11, <2>12, <3>1, <3>2, Zenon DEF Lettered
  <2> QED BY <2>9, <2>13 DEF Handles
<1>2. CASE m.com = <<>> /\ Len(m.buf) = 1
  <2>1. r = Handled(reset(m))
    BY <1>2 DEF pinyin_backspace
  <2> QED BY <2>1, ResetHandled
<1>3. CASE m.com = <<>> /\ Len(m.buf) # 1
  <2> DEFINE buf == Front(m.buf)
             line == [m EXCEPT !.buf = buf, !.fresh = FALSE]
  <2>1. PICK q \in query_pinyin(line) : r = Handled(q)
    <3>1. line = [m EXCEPT !.buf = Front(@), !.fresh = FALSE]
      BY <1>0 DEF Machine
    <3> QED BY <1>3, <3>1 DEF pinyin_backspace
  <2>2. buf \in Seq(Keys) /\ buf # <<>>
    <3>1. Len(m.buf) \in Nat \ {0} /\ buf \in Seq(Keys) /\ Len(buf) = Len(m.buf) - 1
      BY <1>0, FrontOf, EmptySeq
    <3>2. Len(buf) # 0
      BY <1>3, <3>1
    <3> QED BY <3>1, <3>2, EmptySeq
  <2>3. Spelt(m) = m.buf
    BY <1>0, <1>3, SpeltAlone
  <2>4. buf = Front(m.buf)
    OBVIOUS
  <2> HIDE DEF buf
  <2>5. line \in Machine /\ line.st = "Pinyin" /\ line.com = <<>> /\ line.cpy = m.cpy
        /\ line.buf = buf /\ line.cmd = m.cmd
    BY <1>0, <1>3, <2>2 DEF Machine
  <2> HIDE DEF line
  <2>6. /\ Coherent(q) /\ q.st = "Pinyin" /\ q.com = <<>> /\ q.cpy = m.cpy /\ q.buf = buf
        /\ q.cmd = m.cmd
    BY <1>0, <2>2, <2>5, QueryPinyin DEF Typing
  <2>7. Outcome(m, r) /\ Gives(m, r) /\ r.m = q
    <3>1. ShowsRequest(q)
      BY <1>0, <2>6 DEF ShowsRequest, None
    <3> QED BY <2>1, <2>6, <3>1, HandledIs
  <2>8. Spelt(q) = Front(Spelt(m)) /\ (Clean(m) => Clean(q))
    BY <1>3, <2>3, <2>4, <2>6, SpeltAlone DEF Coherent, Clean
  <2>9. q # Idle /\ Len(m.com) = 0
    BY <1>3, <2>6, IdleIsCoherent
  <2>10. Lettered(m, "Backspace", q)
    BY <1>0, <1>3, <2>6, <2>8, <2>9 DEF Lettered
  <2> QED BY <2>7, <2>10 DEF Handles
<1> QED BY <1>1, <1>2, <1>3

(* Leaving a word: the composition ends, with the copy it had.               *)
LEMMA LeaveIs ==
    ASSUME NEW m, Coherent(m), m.st = "Pinyin", NEW kind, NEW text, NEW key,
           kind \in {"pick", "raw", "ended"} => text = Spelt(m)
    PROVE  Handles(m, key, Commit(Leave(m), kind, text))
<1> DEFINE n == Leave(m)
           r == Commit(n, kind, text)
<1>1. m \in Machine /\ m.cmd.name = None
  BY DEF Coherent, NameTyped
<1>2. /\ n \in Machine /\ n.st = "Idle" /\ n.buf = <<>> /\ n.com = <<>> /\ n.cand = <<>>
      /\ ~n.fresh /\ n.cmd = m.cmd /\ n.cpy = m.cpy
  BY <1>1, EmptySeq DEF Leave, Machine
<1>3. /\ r.m = n /\ r.kind = kind /\ r.text = text /\ r.taught = {} /\ ~r.through
      /\ r.send = <<>>
  BY DEF Commit, Handled
<1> HIDE DEF n, r
<1>4. n.cand \in Seq(Fitting(n.st, n.buf))
  BY <1>2, EmptySeq
<1>5. Coherent(n)
  BY <1>1, <1>2, <1>4 DEF Coherent, NameTyped
<1>6. ShowsRequest(n) /\ <<>> \in Seq({"clip", "req"})
  BY <1>2, EmptySeq DEF ShowsRequest
<1>7. Outcome(m, r)
  BY <1>2, <1>3, <1>5, <1>6 DEF Outcome
<1>8. Gives(m, r)
  BY <1>3 DEF Gives
<1>9. Lettered(m, key, n)
  <2>1. m.com = <<>> /\ Clean(m) => Clean(n)
    BY <1>2 DEF Clean
  <2> QED BY <1>2, <2>1, IdleIsCoherent DEF Lettered
<1>10. Handles(m, key, r)
  BY <1>3, <1>7, <1>8, <1>9 DEF Handles
<1> QED BY <1>10 DEF r, n

(* Selecting with a key, or with none.                                       *)
LEMMA SelectHandled ==
    ASSUME NEW m, Coherent(m), NEW i \in Nat, NEW r \in select(m, i), NEW key, key \notin Letters,
           key # "Backspace"
    PROVE  Handles(m, key, r)
  BY SelectIs, StaysIsLettered DEF Handles

LEMMA PinyinSpaceIs ==
    ASSUME NEW m, Coherent(m), m.st = "Pinyin", NEW r \in pinyin_space(m), NEW key,
           key \notin Letters, key # "Backspace"
    PROVE  Handles(m, key, r)
<1>0. m \in Machine /\ Len(m.cand) \in Nat /\ m.hl \in Nat
  BY LenProperties DEF Coherent, Machine
<1>1. CASE ~m.fresh
  <2>1. r = Commit(Leave(m), "raw", Spelled(m.com) \o m.buf)
    BY <1>1 DEF pinyin_space
  <2> QED BY <2>1, LeaveIs DEF Spelt
<1>2. CASE m.fresh
  <2> DEFINE n == [m EXCEPT !.fresh = FALSE]
             i == IF m.hl < Len(m.cand) THEN m.hl ELSE Len(m.cand) - 1
  <2>1. r \in select(n, i)
    BY <1>2 DEF pinyin_space
  <2>2. i \in Nat
    BY <1>0, <1>2, EmptySeq DEF Coherent, Machine
  <2> HIDE DEF i
  <2>3. n = [m EXCEPT !.hl = m.hl, !.page = m.page, !.fresh = FALSE]
    BY <1>0 DEF Machine
  <2> HIDE DEF n
  <2>4. /\ Coherent(n) /\ n.cand = m.cand /\ n.cmd = m.cmd /\ n.st = m.st /\ n.buf = m.buf
        /\ n.com = m.com /\ n.cpy = m.cpy
    BY <1>0, <2>3, SameLine DEF Machine
  <2>5. Outcome(n, r) /\ Gives(n, r) /\ Stays(n, r.m) /\ ~r.through
    BY <2>1, <2>2, <2>4, SelectIs
  <2>6. Spelt(n) = Spelt(m) /\ (Clean(n) <=> Clean(m))
    BY <2>4 DEF Spelt, Clean
  <2>7. Outcome(m, r) /\ Gives(m, r) /\ Stays(m, r.m)
    BY <2>4, <2>5, <2>6 DEF Outcome, Gives, Stays
  <2> QED BY <2>7, StaysIsLettered DEF Handles
<1> QED BY <1>1, <1>2

LEMMA PinyinTerminatorIs ==
    ASSUME NEW m, Coherent(m), m.st = "Pinyin", NEW key
    PROVE  Handles(m, key, pinyin_terminator(m))
<1> DEFINE cut == m.fresh /\ m.cand[1].kind = "char"
           text == Spelled(m.com) \o (IF m.fresh THEN m.cand[1].of ELSE m.buf)
           kind == IF cut THEN "cut" ELSE "ended"
<1>1. pinyin_terminator(m) = Commit(Leave(m), kind, text)
  BY DEF pinyin_terminator
<1>2. m.fresh /\ ~cut => m.cand[1].of = m.buf
  <2> SUFFICES ASSUME m.fresh, ~cut PROVE m.cand[1].of = m.buf
    OBVIOUS
  <2>1. 1 \in 1..Len(m.cand)
    BY EmptySeq DEF Coherent, Machine
  <2>2. m.cand[1] \in Fitting(m.st, m.buf)
    BY <2>1, ElementOfSeq DEF Coherent
  <2> QED BY <2>2 DEF Fitting
<1>3. kind \in {"pick", "raw", "ended"} => text = Spelt(m)
  <2>1. kind = "cut" \/ ~cut
    OBVIOUS
  <2>2. ~cut => text = Spelt(m)
    BY <1>2 DEF Spelt
  <2> QED BY <2>1, <2>2
<1> HIDE DEF kind, text
<1> QED BY <1>1, <1>3, LeaveIs

LEMMA HandlePinyinIs ==
    ASSUME NEW m, Coherent(m), m.st = "Pinyin", NEW key \in Keys, NEW r \in handle_pinyin(m, key)
    PROVE  Handles(m, key, r)
<1>0. m \in Machine /\ m.cmd.name = None
  BY DEF Coherent, NameTyped
<1>1. CASE key = "Backspace"
  <2>1. key \notin Letters
    BY <1>1, LetterAssumption DEF OtherKeys
  <2>2. r \in pinyin_backspace(m)
    BY <1>1, <2>1 DEF handle_pinyin
  <2> QED BY <1>1, <2>2, PinyinBackspaceIs
<1>2. CASE key = "Enter"
  <2>2. key \notin Letters
    BY <1>2, LetterAssumption DEF OtherKeys
  <2>3. r = pinyin_enter(m)
    BY <1>2, <2>2 DEF handle_pinyin
  <2>1. r = Commit(Idle, "raw", Spelt(m))
    BY <2>3 DEF pinyin_enter, reset, Spelt
  <2> QED BY <2>1, EndsHandled
<1>3. CASE key = "Space"
  <2>2. key \notin Letters
    BY <1>3, LetterAssumption DEF OtherKeys
  <2>1. key \notin Letters /\ r \in pinyin_space(m)
    BY <1>3, <2>2 DEF handle_pinyin
  <2> QED BY <1>3, <2>1, PinyinSpaceIs
<1>4. CASE key \in Letters
  <2> DEFINE buf == Append(m.buf, key)
             line == [m EXCEPT !.buf = buf, !.fresh = FALSE]
  <2>1. key \notin {"Backspace", "Enter", "Space"}
    BY <1>4, LetterAssumption DEF OtherKeys
  <2>2. PICK q \in query_pinyin(line) : r = Handled(q)
    <3>1. line = [m EXCEPT !.buf = Append(@, key), !.fresh = FALSE]
      BY <1>0 DEF Machine
    <3> QED BY <1>4, <2>1, <3>1 DEF handle_pinyin
  <2>3. buf \in Seq(Keys) /\ buf # <<>>
    BY <1>0, TextsOf, AppendProperties
  <2>4. buf = Append(m.buf, key)
    OBVIOUS
  <2> HIDE DEF buf
  <2>5. line \in Machine /\ line.st = "Pinyin" /\ line.com = m.com /\ line.cpy = m.cpy
        /\ line.buf = buf /\ line.cmd = m.cmd
    BY <1>0, <2>3 DEF Machine
  <2> HIDE DEF line
  <2>6. /\ Coherent(q) /\ q.st = "Pinyin" /\ q.com = m.com /\ q.cpy = m.cpy /\ q.buf = buf
        /\ q.cmd = m.cmd
    BY <1>0, <2>3, <2>5, QueryPinyin DEF Typing
  <2>7. Outcome(m, r) /\ Gives(m, r) /\ r.m = q
    <3>1. ShowsRequest(q)
      BY <1>0, <2>6 DEF ShowsRequest, None
    <3> QED BY <2>2, <2>6, <3>1, HandledIs
  <2>8. Spelt(q) = Append(Spelt(m), key) /\ (Clean(m) => Clean(q))
    BY <1>0, <2>4, <2>6, SpeltMore DEF Clean
  <2>9. q # Idle
    BY <2>6, IdleIsCoherent
  <2>10. Lettered(m, key, q)
    BY <1>4, <2>1, <2>6, <2>8, <2>9 DEF Lettered
  <2> QED BY <2>7, <2>10 DEF Handles
<1>5. CASE key \notin Letters \cup {"Backspace", "Enter", "Space"}
  BY <1>5, PinyinTerminatorIs DEF handle_pinyin
<1> QED BY <1>1, <1>2, <1>3, <1>4, <1>5

LEMMA LookedHandled ==
    ASSUME NEW m, Coherent(m), m.st = "Snippet", NEW r, Looked(r), r.m.cpy = m.cpy, NEW key
    PROVE  Handles(m, key, r)
<1>1. Outcome(m, r)
  BY DEF Outcome, Looked
<1>2. Gives(m, r)
  BY DEF Gives, Looked, None
<1>3. r.m.com = m.com /\ r.m.st = "Snippet" /\ r.m # Idle
  BY IdleIsCoherent DEF Looked, Coherent
<1>4. Clean(m) => Clean(r.m)
  BY <1>3 DEF Clean
<1>5. Lettered(m, key, r.m)
  BY <1>3, <1>4 DEF Lettered
<1> QED BY <1>1, <1>2, <1>5 DEF Handles

(* The command in the buffer is looked up.                                   *)
LEMMA LookUp ==
    ASSUME NEW m, Coherent(m), m.st = "Snippet", NEW n, MagicLine(n), n.cpy = m.cpy, NEW w, NEW key
    PROVE  /\ Looked(query_magic(n, w)) /\ query_magic(n, w).m.cpy = m.cpy
           /\ Handles(m, key, query_magic(n, w))
<1>1. Looked(query_magic(n, w)) /\ query_magic(n, w).m.cpy = m.cpy
  BY QueryMagic
<1> QED BY <1>1, LookedHandled

(* A prompt fires a request; a hint becomes the command; anything else is    *)
(* committed.                                                                *)
LEMMA SelectMagicIs ==
    ASSUME NEW m, Coherent(m), m.st = "Snippet", NEW i \in Nat, i < Len(m.cand), NEW w, NEW key
    PROVE  Handles(m, key, select_magic(m, i, w))
<1> DEFINE c == m.cand[i + 1]
<1>0. m \in Machine /\ m.buf # <<>> /\ m.com = <<>> /\ m.cmd \in Member
  BY DEF Coherent, Machine
<1>1. c \in Fitting(m.st, m.buf)
  <2>1. i + 1 \in 1..Len(m.cand)
    BY <1>0, LenProperties DEF Machine
  <2> QED BY <2>1, ElementOfSeq DEF Coherent
<1>2. CASE c.kind = "prompt"
  <2> DEFINE picked == pick(m.cmd)
             n == [m EXCEPT !.cmd = picked]
             asked == query_magic(n, w)
  <2>1. picked \in Member
    BY <1>0 DEF pick, Member
  <2>2. Looked(asked) /\ asked.m.cpy = m.cpy /\ Handles(m, key, asked)
    <3> HIDE DEF picked
    <3>1. MagicLine(n) /\ n.cpy = m.cpy
      BY <1>0, <2>1 DEF Machine, MagicLine
    <3> HIDE DEF n
    <3> QED BY <3>1, LookUp
  <2>3. select_magic(m, i, w) \in {asked, [asked EXCEPT !.send = Append(@, "req")]}
    BY <1>2 DEF select_magic
  <2>4. asked = [Handled(asked.m) EXCEPT !.send = asked.send]
    <3> HIDE DEF n
    <3> QED BY DEF query_magic, Handled
  <2> DEFINE sent == Append(asked.send, "req")
             other == [asked EXCEPT !.send = Append(@, "req")]
  <2>5. sent \in Seq({"clip", "req"})
    <3> HIDE DEF asked
    <3> QED BY <2>2, AppendProperties DEF Looked
  <2> HIDE DEF asked
  <2>6. /\ other.m = asked.m /\ other.kind = asked.kind /\ other.taught = asked.taught
        /\ other.through = asked.through /\ other.send = sent
    BY <2>4 DEF Handled
  <2> HIDE DEF sent, other
  <2>7. Looked(other) /\ other.m.cpy = m.cpy
    BY <2>2, <2>5, <2>6 DEF Looked
  <2>8. Handles(m, key, other)
    BY <2>7, LookedHandled
  <2> QED BY <2>2, <2>3, <2>8 DEF other
<1>3. CASE c.kind = "hint"
  <2>1. c.of \in Seq(Keys) /\ c.of # <<>>
    BY <1>1, <1>3 DEF Fitting, Candidate
  <2> DEFINE n == [m EXCEPT !.buf = c.of]
  <2>2. select_magic(m, i, w) = query_magic(n, w)
    BY <1>3 DEF select_magic
  <2> HIDE DEF c
  <2>3. MagicLine(n) /\ n.cpy = m.cpy
    BY <1>0, <1>3, <2>1 DEF Machine, MagicLine
  <2> HIDE DEF n
  <2> QED BY <2>2, <2>3, LookUp
<1>4. CASE c.kind \notin {"prompt", "hint"}
  <2>1. select_magic(m, i, w) = Commit(Idle, "magic", c.of)
    BY <1>4 DEF select_magic, reset
  <2> QED BY <2>1, EndsHandled
<1> QED BY <1>2, <1>3, <1>4

LEMMA DigitKeys == DOMAIN Digit = {"1", "2"} /\ \A d \in DOMAIN Digit : Digit[d] \in {1, 2}
  BY DEF Digit

LEMMA HandleSnippetIs ==
    ASSUME NEW m, Coherent(m), m.st = "Snippet", NEW key \in Keys, NEW w
    PROVE  Handles(m, key, handle_snippet(m, key, w))
<1>0. /\ m \in Machine /\ m.buf # <<>> /\ m.buf \in Seq(Keys) /\ m.com = <<>> /\ m.hl \in Nat
      /\ Len(m.cand) \in Nat
  BY LenProperties DEF Coherent, Machine
<1>1. CASE key = "Backspace" /\ Len(m.buf) = 1
  <2>1. handle_snippet(m, key, w) = Handled(reset(m))
    BY <1>1, DigitKeys DEF handle_snippet
  <2> QED BY <2>1, ResetHandled
<1>2. CASE key = "Backspace" /\ Len(m.buf) # 1
  <2> DEFINE buf == Front(m.buf)
  <2>1. buf \in Seq(Keys) /\ buf # <<>>
    <3>1. Len(m.buf) \in Nat \ {0} /\ buf \in Seq(Keys) /\ Len(buf) = Len(m.buf) - 1
      BY <1>0, FrontOf, EmptySeq
    <3>2. Len(buf) # 0
      BY <1>2, <3>1
    <3> QED BY <3>1, <3>2, EmptySeq
  <2> DEFINE n == [m EXCEPT !.buf = buf]
  <2>2. handle_snippet(m, key, w) = query_magic(n, w)
    <3>1. [m EXCEPT !.buf = Front(@)] = n
      BY <1>0 DEF Machine
    <3> QED BY <1>2, <3>1, DigitKeys DEF handle_snippet
  <2> HIDE DEF buf
  <2>3. MagicLine(n) /\ n.cpy = m.cpy
    BY <1>0, <2>1 DEF Machine, MagicLine
  <2> HIDE DEF n
  <2> QED BY <2>2, <2>3, LookUp
<1>3. CASE key = "Enter" \/ (key = "Space" /\ m.cand = <<>>)
  <2>1. handle_snippet(m, key, w) = Commit(Idle, "magic", m.buf)
    BY <1>3, DigitKeys DEF handle_snippet, reset
  <2> QED BY <2>1, EndsHandled
<1>4. CASE key = "Space" /\ m.cand # <<>>
  <2> DEFINE i == IF m.hl < Len(m.cand) THEN m.hl ELSE Len(m.cand) - 1
  <2>1. handle_snippet(m, key, w) = select_magic(m, i, w)
    BY <1>4, DigitKeys DEF handle_snippet
  <2>2. i \in Nat /\ i < Len(m.cand)
    BY <1>0, <1>4, EmptySeq DEF Machine
  <2> HIDE DEF i
  <2> QED BY <2>1, <2>2, SelectMagicIs
<1>5. CASE key \in DOMAIN Digit /\ m.sel /\ Digit[key] <= Len(m.cand)
  <2>1. key \in {"1", "2"} /\ Digit[key] \in {1, 2} /\ key \notin {"Backspace", "Enter", "Space"}
    BY <1>5, DigitKeys
  <2>2. handle_snippet(m, key, w) = select_magic(m, Digit[key] - 1, w)
    BY <1>5, <2>1, DigitKeys DEF handle_snippet
  <2>3. Digit[key] - 1 \in Nat /\ Digit[key] - 1 < Len(m.cand)
    BY <1>0, <1>5, <2>1
  <2> QED BY <2>2, <2>3, SelectMagicIs
<1>6. CASE /\ key \notin {"Backspace", "Enter", "Space"}
           /\ ~(key \in DOMAIN Digit /\ m.sel /\ Digit[key] <= Len(m.cand))
  <2> DEFINE buf == Append(m.buf, key)
  <2>1. buf \in Seq(Keys) /\ buf # <<>>
    BY <1>0, AppendProperties
  <2> DEFINE n == [m EXCEPT !.buf = buf]
  <2>2. handle_snippet(m, key, w) = query_magic(n, w)
    <3>1. [m EXCEPT !.buf = Append(@, key)] = n
      BY <1>0 DEF Machine
    <3> QED BY <1>6, <3>1, DigitKeys DEF handle_snippet
  <2> HIDE DEF buf
  <2>3. MagicLine(n) /\ n.cpy = m.cpy
    BY <1>0, <2>1 DEF Machine, MagicLine
  <2> HIDE DEF n
  <2> QED BY <2>2, <2>3, LookUp
<1> QED BY <1>1, <1>2, <1>3, <1>4, <1>5, <1>6

LEMMA HandleIdleIs ==
    ASSUME NEW m, Coherent(m), m.st = "Idle", NEW key \in Keys \ {"Backspace"},
           NEW r \in handle_idle(m, key)
    PROVE  Handles(m, key, r)
<1>0. /\ m \in Machine /\ m.cmd.name = None /\ m.buf = <<>> /\ m.com = <<>> /\ m.cand = <<>>
      /\ <<key>> \in Seq(Keys) /\ <<key>> # <<>> /\ Len(<<key>>) = 1
  BY One DEF Coherent, NameTyped
<1>1. CASE key = "#"
  <2> DEFINE buf == <<key>>
             n == [m EXCEPT !.st = "Snippet", !.buf = buf]
  <2>0. key \notin Letters
    BY <1>1, LetterAssumption DEF OtherKeys
  <2>1. r = Handled(n)
    BY <1>1, <2>0 DEF handle_idle
  <2>2. ~Live(match_command(buf))
    BY <1>0 DEF Live, match_command
  <2>3. buf \in Seq(Keys) /\ buf # <<>>
    BY <1>0
  <2> HIDE DEF buf
  <2>4. /\ n \in Machine /\ n.st = "Snippet" /\ n.buf = buf /\ n.com = <<>> /\ n.cand = <<>>
        /\ n.cmd = m.cmd /\ n.cpy = m.cpy /\ n.fresh = m.fresh
    BY <1>0, <2>3 DEF Machine
  <2> HIDE DEF n
  <2>5. n.cand \in Seq(Fitting(n.st, n.buf))
    BY <2>4, EmptySeq
  <2>6. NameTyped(n) = None
    BY <2>2, <2>4 DEF NameTyped
  <2>7. Coherent(n)
    BY <1>0, <2>3, <2>4, <2>5, <2>6 DEF Coherent
  <2>8. Outcome(m, r) /\ Gives(m, r) /\ r.m = n
    BY <1>0, <2>1, <2>4, <2>7, HandledIs
  <2>9. Lettered(m, key, n)
    BY <1>0, <2>4, IdleIsCoherent DEF Lettered, Clean
  <2> QED BY <2>8, <2>9 DEF Handles
<1>2. CASE key \in Letters
  <2> DEFINE buf == <<key>>
             line == [m EXCEPT !.st = "Pinyin", !.buf = buf, !.fresh = FALSE]
  <2>1. key # "#" /\ key # "Backspace"
    BY <1>2, LetterAssumption DEF OtherKeys
  <2>2. PICK q \in query_pinyin(line) : r = Handled(q)
    <3>1. handle_idle(m, key) = {Handled(q) : q \in query_pinyin(line)}
      BY <1>2, <2>1 DEF handle_idle
    <3> HIDE DEF line
    <3> QED BY <3>1
  <2>3. buf \in Seq(Keys) /\ buf # <<>>
    BY <1>0
  <2>4. Append(<<>>, key) = buf
    OBVIOUS
  <2> HIDE DEF buf
  <2>5. line \in Machine /\ line.st = "Pinyin" /\ line.com = <<>> /\ line.cpy = m.cpy
        /\ line.buf = buf /\ line.cmd = m.cmd
    BY <1>0, <2>3 DEF Machine
  <2> HIDE DEF line
  <2>6. /\ Coherent(q) /\ q.st = "Pinyin" /\ q.com = <<>> /\ q.cpy = m.cpy /\ q.buf = buf
        /\ q.cmd = m.cmd
    BY <1>0, <2>3, <2>5, QueryPinyin DEF Typing
  <2>7. Outcome(m, r) /\ Gives(m, r) /\ r.m = q
    <3>1. ShowsRequest(q)
      BY <1>0, <2>6 DEF ShowsRequest, None
    <3> QED BY <2>2, <2>6, <3>1, HandledIs
  <2>8. Spelt(q) = Append(Spelt(m), key) /\ (Clean(m) => Clean(q))
    BY <1>0, <2>4, <2>6, SpeltAlone DEF Clean, Coherent
  <2>9. q # Idle
    BY <2>6, IdleIsCoherent
  <2>10. Lettered(m, key, q)
    BY <1>0, <1>2, <2>1, <2>6, <2>8, <2>9 DEF Lettered
  <2> QED BY <2>7, <2>10 DEF Handles
<1>3. CASE key \notin Letters \cup {"#"}
  <2>1. r = Through(m)
    BY <1>3 DEF handle_idle
  <2> QED BY <1>3, <2>1, ThroughHandled
<1> QED BY <1>1, <1>2, <1>3

LEMMA StepIs ==
    ASSUME NEW m, Coherent(m), NEW key \in Keys, m.st = "Idle" => key # "Backspace", NEW w,
           NEW r \in step(m, key, w)
    PROVE  Handles(m, key, r)
<1>1. m.st \in {"Idle", "Pinyin", "Snippet"}
  BY DEF Coherent, Machine
<1>2. CASE m.st = "Idle"
  <2>1. r \in handle_idle(m, key)
    BY <1>2 DEF step
  <2> QED BY <1>2, <2>1, HandleIdleIs
<1>3. CASE m.st = "Pinyin"
  <2>1. r \in handle_pinyin(m, key)
    BY <1>3 DEF step
  <2> QED BY <1>3, <2>1, HandlePinyinIs
<1>4. CASE m.st = "Snippet"
  <2>1. r = handle_snippet(m, key, w)
    BY <1>4 DEF step
  <2> QED BY <1>4, <2>1, HandleSnippetIs
<1> QED BY <1>1, <1>2, <1>3, <1>4

(* Moving the highlight or the page changes what is picked next, and nothing *)
(* else.                                                                     *)
Moved(m, n) ==
    /\ n \in Machine /\ n.st = m.st /\ n.buf = m.buf /\ n.com = m.com /\ n.cpy = m.cpy
    /\ n.cand = m.cand /\ n.cmd = m.cmd /\ n.fresh = m.fresh

LEMMA MovedHandled ==
    ASSUME NEW m, Coherent(m), NEW n, Moved(m, n), NEW key, key \notin Letters,
           key # "Backspace"
    PROVE  Handles(m, key, Handled(n))
<1>2. Coherent(n) /\ n.cand = m.cand /\ n.cmd = m.cmd /\ n.st = m.st
  BY DEF Moved, Coherent, NameTyped
<1>3. Outcome(m, Handled(n)) /\ Gives(m, Handled(n)) /\ Handled(n).m = n
  BY <1>2, HandledIs
<1>4. Spelt(n) = Spelt(m) /\ (Clean(n) <=> Clean(m)) /\ (n = Idle => Clean(n))
  BY IdleIsCoherent DEF Spelt, Clean, Moved
<1>5. Lettered(m, key, n)
  BY <1>2, <1>4 DEF Lettered
<1> QED BY <1>3, <1>5 DEF Handles

LEMMA HighlightIs ==
    ASSUME NEW m, Coherent(m), m.cand # <<>>, NEW d \in {-1, 1}
    PROVE  Moved(m, move_highlight(m, d))
<1>1. PICK n \in Nat : n = Len(m.cand)
  BY LenProperties DEF Coherent, Machine
<1>2. n # 0 /\ m.hl \in Nat /\ m \in Machine
  BY <1>1, EmptySeq DEF Coherent, Machine
<1> DEFINE to == Clamp(m.hl + d, 0, n - 1)
<1>3. to \in Nat
  BY <1>2 DEF Clamp
<1> DEFINE page == to \div PageSize
<1>4. page \in Nat
  <2> HIDE DEF to
  <2> QED BY <1>3, PageAssumption
<1>5. move_highlight(m, d) = [m EXCEPT !.hl = to, !.page = page]
  BY <1>1 DEF move_highlight
<1> HIDE DEF page
<1> HIDE DEF to
<1> QED BY <1>2, <1>3, <1>4, <1>5 DEF Moved, Machine

LEMMA PageIs ==
    ASSUME NEW m, Coherent(m), m.cand # <<>>, NEW d \in {-1, 1}
    PROVE  Moved(m, change_page(m, d))
<1>1. PICK n \in Nat : n = Len(m.cand)
  BY LenProperties DEF Coherent, Machine
<1>2. n # 0 /\ m.hl \in Nat /\ m.page \in Nat /\ m \in Machine
  BY <1>1, EmptySeq DEF Coherent, Machine
<1> DEFINE pages == (n + PageSize - 1) \div PageSize
           to == Clamp(m.page + d, 0, pages - 1)
<1>3. pages \in Nat
  BY PageAssumption
<1>4. CASE pages <= 1 \/ to = m.page
  <2>1. change_page(m, d) = m
    BY <1>1, <1>4 DEF change_page
  <2> QED BY <1>2, <2>1 DEF Moved
<1>5. CASE ~(pages <= 1 \/ to = m.page)
  <2>1. to \in Nat
    <3> HIDE DEF pages
    <3> QED BY <1>2, <1>3, <1>5 DEF Clamp
  <2>2. change_page(m, d) = [m EXCEPT !.page = to, !.hl = to * PageSize]
    BY <1>1, <1>5 DEF change_page
  <2> HIDE DEF to
  <2> DEFINE hl == to * PageSize
  <2>3. hl \in Nat
    BY <2>1, PageAssumption
  <2>4. change_page(m, d) = [m EXCEPT !.page = to, !.hl = hl]
    BY <2>2
  <2> HIDE DEF hl
  <2> QED BY <1>2, <2>1, <2>3, <2>4 DEF Moved, Machine
<1> QED BY <1>4, <1>5

(* Whatever key: the routing table and the handlers.                         *)
LEMMA RouteIs ==
    ASSUME NEW m, Coherent(m), NEW key \in Keys, NEW w, NEW r \in route(m, key, w)
    PROVE  Handles(m, key, r)
<1>0. /\ m \in Machine /\ m.st \in {"Idle", "Pinyin", "Snippet"} /\ m.page \in Nat
      /\ m.st = "Idle" => ~Composing(m)
      /\ m.st # "Idle" => Composing(m)
  BY DEF Coherent, Machine, Composing
<1> DEFINE D == DOMAIN Digit
           Edits == {"Space", "Enter", "Backspace"}
           Moves == {"Up", "Down"}
           Pages == {"PageUp", "PageDown"}
<1>k. /\ D = {"1", "2"} /\ Letters \cap D = {} /\ Letters \cap Edits = {}
      /\ Letters \cap Moves = {} /\ Letters \cap Pages = {}
      /\ "Ctrl" \notin Letters /\ "Escape" \notin Letters
  BY DigitKeys, LetterAssumption DEF OtherKeys
<1>1. CASE key = "Ctrl"
  <2>0. key \notin D /\ key \notin Edits /\ key \notin Moves /\ key \notin Pages
    BY <1>1, <1>k
  <2>1. r = Through(m)
    BY <1>1, <2>0 DEF route
  <2> QED BY <1>1, <1>k, <2>1, ThroughHandled
<1>2. CASE m.st = "Snippet" /\ key \in D
  <2>1. /\ key # "Ctrl" /\ key # "Backspace" /\ key # "Escape" /\ key \notin Edits
        /\ key \notin Moves /\ key \notin Pages
    BY <1>2, <1>k
  <2>2. r \in step(m, key, w)
    BY <1>2, <2>1 DEF route
  <2> QED BY <2>1, <2>2, StepIs
<1>3. CASE key \in Edits
  <2>1. key # "Ctrl" /\ key \notin D
    BY <1>3, <1>k
  <2>2. r \in IF Composing(m) THEN step(m, key, w) ELSE {Through(m)}
    BY <1>3, <2>1 DEF route
  <2>3. CASE Composing(m)
    BY <1>0, <2>2, <2>3, StepIs
  <2>4. CASE ~Composing(m)
    BY <1>0, <1>3, <1>k, <2>2, <2>4, ThroughHandled
  <2> QED BY <2>3, <2>4
<1>4. CASE key = "Escape"
  <2>1. key \notin D
    BY <1>4, <1>k
  <2>2. r \in IF Composing(m) THEN {Handled(reset(m))} ELSE {Through(m)}
    BY <1>4, <2>1 DEF route
  <2> QED BY <1>4, <1>k, <2>2, ResetHandled, ThroughHandled
<1>5. CASE m.st # "Snippet" /\ key \in D
  <2>1. key \in {"1", "2"} /\ key \notin Letters /\ Digit[key] \in {1, 2}
    BY <1>5, <1>k, DigitKeys
  <2> DEFINE i == m.page * PageSize + Digit[key] - 1
  <2>2. r \in IF i < Len(m.cand) THEN select(m, i) ELSE {Through(m)}
    BY <1>5, <2>1 DEF route
  <2>3. i \in Nat
    <3>1. m.page * PageSize \in Nat
      BY <1>0, PageAssumption
    <3> QED BY <2>1, <3>1
  <2> HIDE DEF i
  <2>4. key # "Backspace"
    BY <2>1
  <2> QED BY <2>1, <2>2, <2>3, <2>4, SelectHandled, ThroughHandled
<1>6. CASE key \in Moves
  <2>1. key \notin D /\ key \notin Letters /\ key # "Backspace"
    BY <1>6, <1>k
  <2> DEFINE d == IF key = "Up" THEN -1 ELSE 1
  <2>2. r \in IF PanelOpen(m) THEN {Handled(move_highlight(m, d))} ELSE {Through(m)}
    BY <1>6, <2>1 DEF route
  <2>3. d \in {-1, 1}
    OBVIOUS
  <2> HIDE DEF d
  <2>4. CASE PanelOpen(m)
    <3>0. m.cand # <<>> /\ d \in {-1, 1} /\ Coherent(m)
      BY <2>3, <2>4 DEF PanelOpen
    <3>1. Moved(m, move_highlight(m, d)) /\ r = Handled(move_highlight(m, d))
      BY <2>2, <2>4, <3>0, HighlightIs
    <3> QED BY <2>1, <3>1, MovedHandled
  <2>5. CASE ~PanelOpen(m)
    BY <2>1, <2>2, <2>5, ThroughHandled
  <2> QED BY <2>4, <2>5
<1>7. CASE key \in Pages
  <2>1. key \notin D /\ key \notin Letters /\ key # "Backspace"
    BY <1>7, <1>k
  <2> DEFINE d == IF key = "PageUp" THEN -1 ELSE 1
  <2>2. r \in IF PanelOpen(m) THEN {Handled(change_page(m, d))} ELSE {Through(m)}
    BY <1>7, <2>1 DEF route
  <2>3. d \in {-1, 1}
    OBVIOUS
  <2> HIDE DEF d
  <2>4. CASE PanelOpen(m)
    <3>0. m.cand # <<>> /\ d \in {-1, 1} /\ Coherent(m)
      BY <2>3, <2>4 DEF PanelOpen
    <3>1. Moved(m, change_page(m, d)) /\ r = Handled(change_page(m, d))
      BY <2>2, <2>4, <3>0, PageIs
    <3> QED BY <2>1, <3>1, MovedHandled
  <2>5. CASE ~PanelOpen(m)
    BY <2>1, <2>2, <2>5, ThroughHandled
  <2> QED BY <2>4, <2>5
<1>8. CASE /\ key \notin D /\ key \notin Edits /\ key \notin Moves /\ key \notin Pages
           /\ key # "Ctrl" /\ key # "Escape"
  <2>1. r \in step(m, key, w)
    BY <1>8 DEF route
  <2> QED BY <1>8, <2>1, StepIs
<1> QED BY <1>1, <1>2, <1>3, <1>4, <1>5, <1>6, <1>7, <1>8

-----------------------------------------------------------------------------
(* The engine.                                                               *)

LEMMA FrontIsText ==
    ASSUME NEW T, NEW s \in Seq(T)
    PROVE  Front(s) \in Seq(T)
<1>1. CASE s = <<>>
  <2>1. Len(s) = 0
    BY <1>1, EmptySeq
  <2>2. Front(s) = SubSeq(s, 1, -1)
    BY <2>1 DEF Front
  <2>3. Len(SubSeq(s, 1, -1)) = 0 /\ SubSeq(s, 1, -1) \in Seq(T)
    BY SubSeqProperties
  <2> QED BY <2>2, <2>3
<1>2. CASE s # <<>>
  BY <1>2, FrontOf
<1> QED BY <1>1, <1>2

(* The letters typed and the composition still add up.                       *)
Undone(m, key) == m.com # <<>> /\ key = "Backspace"

After(letters, m, key, n) ==
    IF n.st # "Pinyin" THEN <<>>
    ELSE IF key \in Letters THEN Append(letters, key)
    ELSE IF key = "Backspace" /\ ~Undone(m, key) THEN Front(letters)
    ELSE letters

Still(clean, m, key, n) ==
    IF n = Idle THEN TRUE
    ELSE clean /\ ~(Undone(m, key) /\ Len(m.com) > 1) /\ ~(m.com # <<>> /\ n.st = "Idle")

LEMMA StillAddsUp ==
    ASSUME NEW m, Coherent(m), NEW letters, NEW clean \in BOOLEAN, AddsUp(m, letters, clean),
           NEW n, Coherent(n), NEW key \in Keys \cup {"click", "reset", "leave"},
           Lettered(m, key, n)
    PROVE  /\ AddsUp(n, After(letters, m, key, n), Still(clean, m, key, n))
           /\ Still(clean, m, key, n) \in BOOLEAN
<1> DEFINE undone == Undone(m, key)
           after == After(letters, m, key, n)
           still == Still(clean, m, key, n)
<1>0. /\ undone = (m.com # <<>> /\ key = "Backspace")
      /\ after = IF n.st # "Pinyin" THEN <<>>
                 ELSE IF key \in Letters THEN Append(letters, key)
                 ELSE IF key = "Backspace" /\ ~undone THEN Front(letters)
                 ELSE letters
      /\ still = IF n = Idle THEN TRUE
                 ELSE clean /\ ~(undone /\ Len(m.com) > 1) /\ ~(m.com # <<>> /\ n.st = "Idle")
  BY DEF Undone, After, Still
<1> USE <1>0
<1> HIDE DEF undone, after, still
<1>1. m \in Machine /\ letters \in Seq(Keys) /\ Len(m.com) \in Nat
  BY LenProperties DEF Coherent, AddsUp, Machine
<1>2. still \in BOOLEAN
  OBVIOUS
<1>3. after \in Seq(Keys)
  <2>1. <<>> \in Seq(Keys) /\ Front(letters) \in Seq(Keys)
    BY <1>1, EmptySeq, FrontIsText
  <2>2. key \in Letters => Append(letters, key) \in Seq(Keys)
    BY <1>1, AppendProperties DEF Keys
  <2> QED BY <1>1, <2>1, <2>2
<1>4. n.st # "Pinyin" => after = <<>>
  OBVIOUS
<1>5. still => Clean(n)
  <2>1. CASE n = Idle
    BY <2>1 DEF Lettered
  <2>2. CASE n # Idle
    <3>1. still => clean /\ ~(undone /\ Len(m.com) > 1) /\ (m.com # <<>> => n.st # "Idle")
      BY <2>2
    <3>2. ASSUME still PROVE Clean(n)
      <4>1. Clean(m)
        BY <3>1, <3>2 DEF AddsUp, Clean
      <4>2. ~(key = "Backspace" /\ Len(m.com) > 1)
        <5>1. Len(m.com) > 1 => m.com # <<>>
          BY <1>1, EmptySeq DEF Machine
        <5> QED BY <3>1, <3>2, <5>1
      <4> QED BY <2>2, <3>1, <3>2, <4>1, <4>2 DEF Lettered
    <3> QED BY <3>2
  <2> QED BY <2>1, <2>2
<1>6. ASSUME still, n.st = "Pinyin" PROVE Spelt(n) = after
  <2>1. n # Idle
    BY <1>6, IdleIsCoherent
  <2>2. clean /\ ~(undone /\ Len(m.com) > 1)
    BY <1>6, <2>1
  <2>3. Clean(m) /\ (m.st = "Pinyin" => Spelt(m) = letters)
    BY <2>2 DEF AddsUp, Clean, Spelt
  <2>4. CASE key \in Letters
    <3>1. m.st # "Snippet" /\ Spelt(n) = Append(Spelt(m), key)
      BY <1>6, <2>4 DEF Lettered
    <3>2. Spelt(m) = letters
      <4>1. CASE m.st = "Pinyin"
        BY <2>3, <4>1
      <4>2. CASE m.st = "Idle"
        <5>1. Spelt(m) = m.buf
          BY <1>1, <4>2, SpeltAlone DEF Coherent
        <5> QED BY <4>2, <5>1 DEF Coherent, AddsUp
      <4> QED BY <1>1, <3>1, <4>1, <4>2 DEF Machine
    <3> QED BY <1>6, <2>4, <3>1, <3>2
  <2>5. CASE key \notin Letters /\ key # "Backspace"
    <3>1. m.st = "Pinyin" /\ Spelt(n) = Spelt(m)
      BY <1>6, <2>5 DEF Lettered
    <3> QED BY <1>6, <2>3, <2>5, <3>1
  <2>6. CASE key = "Backspace"
    <3>1. key \notin Letters
      BY <2>6, LetterAssumption DEF OtherKeys
    <3>2. m.st = "Pinyin" /\ Spelt(m) = letters
      BY <1>6, <2>3, <3>1 DEF Lettered
    <3>3. CASE m.com = <<>>
      BY <1>6, <2>6, <3>1, <3>2, <3>3 DEF Lettered
    <3>4. CASE m.com # <<>>
      <4>1. Len(m.com) = 1
        <5>1. PICK k \in Nat : k = Len(m.com)
          BY <1>1
        <5>2. k # 0
          BY <3>4, <5>1, EmptySeq DEF Machine
        <5>3. ~(k > 1)
          BY <2>2, <2>6, <3>4, <5>1, Zenon
        <5>4. k = 1
          BY <5>2, <5>3
        <5> QED BY <5>1, <5>4, Zenon
      <4>2. Spelt(n) = Spelt(m)
        BY <1>6, <2>3, <2>6, <4>1 DEF Lettered
      <4> QED BY <1>6, <2>6, <3>1, <3>2, <3>4, <4>2
    <3> QED BY <3>3, <3>4
  <2> QED BY <2>4, <2>5, <2>6
<1>7. AddsUp(n, after, still)
  BY <1>2, <1>3, <1>4, <1>5, <1>6 DEF AddsUp, Clean, Spelt
<1> QED BY <1>2, <1>7 DEF after, still

(* What is in the channel of the I/O thread.                                 *)
LEMMA SentStaysTyped ==
    ASSUME NEW p \in Seq(Job), NEW c \in Contexts, NEW member \in Member,
           NEW work \in Seq({"clip", "req"})
    PROVE  Sent(p, c, work, member) \in Seq(Job)
<1> DEFINE room == QueueBound - Len(p)
           fits == IF Len(work) <= room THEN Len(work) ELSE room
           job(i) == [what |-> work[i], ctx |-> c, alive |-> TRUE,
                      arg |-> IF work[i] = "req" THEN member.arg ELSE <<>>]
           more == [i \in 1..fits |-> job(i)]
<1>2. more \in Seq(Job)
  <2>1. PICK k \in Nat : k = Len(work)
    BY LenProperties
  <2>2. fits \in Int /\ fits <= k
    BY <2>1, LenProperties, EngineAssumption
  <2> HIDE DEF fits
  <2>3. ASSUME NEW i \in 1..fits PROVE job(i) \in Job
    <3>1. i \in 1..k
      BY <2>2, <2>3
    <3>2. work[i] \in {"clip", "req"}
      BY <2>1, <3>1, ElementOfSeq
    <3>3. member.arg \in Seq(Keys) /\ <<>> \in Seq(Keys)
      BY EmptySeq DEF Member
    <3> QED BY <3>2, <3>3 DEF Job
  <2> HIDE DEF job
  <2>4. CASE fits \in Nat
    BY <2>3, <2>4, IsASeq
  <2>5. CASE fits \notin Nat
    <3>1. 1..fits = {} /\ 1..0 = {}
      BY <2>2, <2>5
    <3>2. more = [i \in 1..0 |-> job(i)]
      BY <3>1
    <3>3. \A i \in 1..0 : job(i) \in Job
      BY <3>1
    <3> HIDE DEF more
    <3> QED BY <3>2, <3>3, IsASeq
  <2> QED BY <2>4, <2>5
<1>3. Sent(p, c, work, member) = p \o more
  BY DEF Sent
<1> HIDE DEF more
<1> QED BY <1>2, <1>3, ConcatProperties

LEMMA JobsStayTyped ==
    ASSUME NEW q \in Seq(Job), NEW c \in Contexts, NEW member \in Member,
           NEW work \in Seq({"clip", "req"})
    PROVE  Sent(Orphaned(q, c, member), c, work, member) \in Seq(Job)
<1> DEFINE p == Orphaned(q, c, member)
<1>1. p \in Seq(Job)
  <2>1. PICK n \in Nat : n = Len(q)
    BY LenProperties
  <2>2. DOMAIN q = 1..n
    BY <2>1, LenProperties
  <2>3. ASSUME NEW i \in 1..n PROVE p[i] \in Job
    <3>1. q[i] \in Job
      BY <2>2, <2>3, <2>1, ElementOfSeq
    <3>2. p[i] = q[i] \/ p[i] = [q[i] EXCEPT !.alive = FALSE]
      BY <2>2, <2>3 DEF Orphaned
    <3> QED BY <3>1, <3>2 DEF Job
  <2>4. p = [i \in 1..n |-> p[i]]
    BY <2>2 DEF Orphaned
  <2> HIDE DEF p
  <2> QED BY <2>1, <2>3, <2>4, IsASeq
<1> HIDE DEF p
<1> QED BY <1>1, SentStaysTyped DEF p

(* What the engine does with the result of any of its calls.                 *)
Texts ==
    /\ out.tidy /\ out.kind \in {"pick", "raw", "ended"} => out.text = out.want
    /\ out.tidy => \A pair \in out.taught : pair[1] = pair[2]

LEMMA CallKeepsEngine ==
    ASSUME EngineInv, NEW c \in Contexts, NEW r, NEW key \in Keys \cup {"click", "reset", "leave"},
           Outcome(sm[c], r), Lettered(sm[c], key, r.m), Apply(c, r), Track(c, key, r)
    PROVE  EngineInv'
<1> DEFINE m == sm[c]
           n == r.m
           after == After(typed[c], m, key, n)
           still == Still(tidy[c], m, key, n)
<1>1. /\ Coherent(m) /\ AddsUp(m, typed[c], tidy[c]) /\ tidy[c] \in BOOLEAN /\ Coherent(n)
      /\ Lettered(m, key, n) /\ r.send \in Seq({"clip", "req"})
  BY DEF EngineInv, Outcome
<1>2. typed' = [typed EXCEPT ![c] = after] /\ tidy' = [tidy EXCEPT ![c] = still]
  BY DEF Track, After, Still, Undone
<1>3. AddsUp(n, after, still) /\ still \in BOOLEAN
  <2> HIDE DEF m, n
  <2> QED BY <1>1, StillAddsUp
<1>4. sm' = [sm EXCEPT ![c] = n] /\ queue' = Sent(Orphaned(queue, c, n.cmd), c, r.send, n.cmd)
  BY DEF Apply
<1>5. n \in Machine /\ n.cmd \in Member /\ after \in Seq(Keys)
  BY <1>1, <1>3 DEF Coherent, Machine, AddsUp
<1> HIDE DEF m, n, after, still
<1>6. queue' \in Seq(Job)
  BY <1>1, <1>4, <1>5, JobsStayTyped DEF EngineInv
<1>7. /\ sm' \in [Contexts -> Machine] /\ typed' \in [Contexts -> Seq(Keys)]
      /\ tidy' \in [Contexts -> BOOLEAN]
  BY <1>2, <1>3, <1>4, <1>5 DEF EngineInv
<1>8. ASSUME NEW d \in Contexts PROVE Coherent(sm'[d]) /\ AddsUp(sm'[d], typed'[d], tidy'[d])
  <2>1. CASE d = c
    BY <1>1, <1>2, <1>3, <1>4, <2>1 DEF EngineInv
  <2>2. CASE d # c
    BY <1>2, <1>4, <2>2 DEF EngineInv
  <2> QED BY <2>1, <2>2
<1>9. \A d \in Contexts : Coherent(sm'[d]) /\ AddsUp(sm'[d], typed'[d], tidy'[d])
  BY <1>8
<1> QED BY <1>6, <1>7, <1>9 DEF EngineInv

(* A leaving context ends like a reset one, whatever it gives away.          *)
LEMMA GoneHandled ==
    ASSUME NEW m, NEW key, NEW kind
    PROVE  LET r == [Handled(Idle) EXCEPT !.kind = kind]
           IN  /\ Outcome(m, r) /\ Lettered(m, key, r.m) /\ r.m = Idle
               /\ r.taught = {} /\ r.kind = kind /\ ~r.through
<1> DEFINE r == [Handled(Idle) EXCEPT !.kind = kind]
<1>1. Lettered(m, key, Idle)
  BY IdleIsCoherent DEF Lettered
<1>2. /\ r.m = Idle /\ r.taught = {} /\ r.kind = kind /\ r.through = FALSE /\ r.send = <<>>
      /\ Idle.st = "Idle"
  BY IdleIsCoherent DEF Handled
<1> HIDE DEF r
<1>3. <<>> \in Seq({"clip", "req"})
  BY EmptySeq
<1>4. Outcome(m, r)
  BY <1>2, <1>3, IdleIsCoherent DEF Outcome
<1> QED BY <1>1, <1>2, <1>4 DEF r

LEMMA ReportedText ==
    ASSUME EngineInv, NEW c \in Contexts, NEW r, Gives(sm[c], r), Report(c, r)
    PROVE  Texts'
<1>1. CASE r.kind = None /\ r.taught = {}
  BY <1>1 DEF Report, Silent, Texts, None
<1>2. CASE ~(r.kind = None /\ r.taught = {})
  <2>1. /\ out'.kind = r.kind /\ out'.text = r.text /\ out'.want = typed[c]
        /\ out'.taught = r.taught /\ out'.tidy = tidy[c]
    BY <1>2 DEF Report
  <2>2. AddsUp(sm[c], typed[c], tidy[c])
    BY DEF EngineInv
  <2>3. tidy[c] /\ sm[c].st = "Pinyin" => Spelt(sm[c]) = typed[c]
    BY <2>2 DEF AddsUp, Spelt
  <2>4. tidy[c] => Clean(sm[c])
    BY <2>2 DEF AddsUp, Clean
  <2>5. /\ r.kind \in {"pick", "raw", "ended"} => sm[c].st = "Pinyin" /\ r.text = Spelt(sm[c])
        /\ Clean(sm[c]) => \A pair \in r.taught : pair[1] = pair[2]
    BY DEF Gives
  <2> QED BY <2>1, <2>3, <2>4, <2>5 DEF Texts
<1> QED BY <1>1, <1>2

(* Drawing again.                                                            *)
LEMMA TickIs ==
    ASSUME NEW m, Coherent(m), m.st = "Snippet", NEW w
    PROVE  LET member == Sees(m.cmd, m.buf, w)
               again == rebuild_magic_view([m EXCEPT !.cmd = member], predict(member, m.buf, w))
           IN  /\ member \in Member /\ Coherent(again) /\ again.st = "Snippet"
               /\ again.com = m.com /\ again.cpy = m.cpy /\ ShowsRequest(again)
<1> DEFINE member == Sees(m.cmd, m.buf, w)
           options == predict(member, m.buf, w)
           n == [m EXCEPT !.cmd = member]
           again == rebuild_magic_view(n, options)
<1>1. m \in Machine /\ m.buf \in Seq(Keys) /\ m.buf # <<>> /\ m.com = <<>> /\ m.cmd \in Member
  BY DEF Coherent, Machine
<1>2. member \in Member /\ member.name = m.cmd.name
  BY <1>1, SeesType
<1>3. options \in Seq(Fitting("Snippet", m.buf))
  <2> HIDE DEF member
  <2> QED BY <1>1, <1>2, PredictType
<1>4. member.name = "req" =>
          options = IF member.status = "done" THEN <<Text(member.body)>> ELSE <<Prompt>>
  <2> HIDE DEF member
  <2> QED BY DEF predict
<1> HIDE DEF member, options
<1>5. /\ n \in Machine /\ n.st = "Snippet" /\ n.buf = m.buf /\ n.com = m.com /\ n.cpy = m.cpy
      /\ n.cmd = member
  BY <1>1, <1>2 DEF Machine
<1> HIDE DEF n
<1>6. n.cmd.name = NameTyped(n)
  BY <1>2, <1>5 DEF Coherent, NameTyped
<1>7. MagicLine(n)
  BY <1>1, <1>5 DEF MagicLine
<1>8. /\ Coherent(again) /\ again.st = "Snippet" /\ again.cmd = member /\ again.buf = m.buf
      /\ again.cpy = m.cpy /\ Front(again.cand) = options
  BY <1>3, <1>5, <1>6, <1>7, RebuildIsCoherent
<1> HIDE DEF again
<1>9. again.com = m.com
  BY <1>1, <1>8 DEF Coherent
<1>10. ShowsRequest(again)
  BY <1>4, <1>8 DEF ShowsRequest
<1> QED BY <1>2, <1>8, <1>9, <1>10 DEF member, options, n, again

LEMMA TickKeepsEngine ==
    ASSUME EngineInv, NEW c \in Contexts, Tick(c)
    PROVE  /\ EngineInv' /\ Texts'
           /\ \/ sm' = sm /\ ~Ticks(sm[c])
              \/ /\ sm' = [sm EXCEPT ![c] = sm'[c]] /\ Ticks(sm[c])
                 /\ Coherent(sm'[c]) /\ ShowsRequest(sm'[c])
<1> DEFINE m == sm[c]
           member == Sees(m.cmd, m.buf, World)
           again == rebuild_magic_view([m EXCEPT !.cmd = member], predict(member, m.buf, World))
<1>0. Coherent(m) /\ sm \in [Contexts -> Machine] /\ queue \in Seq(Job)
  BY DEF EngineInv
<1>1. out' = Silent /\ UNCHANGED <<typed, tidy>>
  BY DEF Tick
<1>2. Texts'
  BY <1>1 DEF Texts, Silent, None
<1>3. CASE ~Ticks(m)
  <2>1. UNCHANGED <<sm, queue>>
    BY <1>3 DEF Tick
  <2> QED BY <1>1, <1>2, <1>3, <2>1 DEF EngineInv
<1>4. CASE Ticks(m)
  <2>1. m.st = "Snippet"
    BY <1>4 DEF Ticks
  <2>2. sm' = [sm EXCEPT ![c] = again]
    BY <1>4 DEF Tick
  <2>3. queue' \in {queue, Sent(queue, c, <<"clip">>, member)}
    BY <1>4 DEF Tick
  <2>4. /\ member \in Member /\ Coherent(again) /\ again.st = "Snippet"
        /\ again.com = m.com /\ again.cpy = m.cpy /\ ShowsRequest(again)
    <3> HIDE DEF m
    <3> QED BY <1>0, <2>1, TickIs
  <2> HIDE DEF again, member
  <2>5. queue' \in Seq(Job)
    <3>1. <<"clip">> \in Seq({"clip", "req"})
      BY One
    <3>2. Sent(queue, c, <<"clip">>, member) \in Seq(Job)
      BY <1>0, <2>4, <3>1, SentStaysTyped
    <3> QED BY <1>0, <2>3, <3>2
  <2>6. sm' \in [Contexts -> Machine] /\ sm'[c] = again
    BY <1>0, <2>2, <2>4 DEF Coherent
  <2>7. ASSUME NEW d \in Contexts PROVE Coherent(sm'[d]) /\ AddsUp(sm'[d], typed'[d], tidy'[d])
    <3>1. CASE d = c
      <4>1. AddsUp(m, typed[c], tidy[c])
        BY DEF EngineInv
      <4> HIDE DEF m
      <4>2. AddsUp(again, typed[c], tidy[c])
        BY <2>1, <2>4, <4>1 DEF AddsUp
      <4> QED BY <1>1, <2>4, <2>6, <3>1, <4>2
    <3>2. CASE d # c
      BY <1>0, <1>1, <2>2, <3>2 DEF EngineInv
    <3> QED BY <3>1, <3>2
  <2>8. EngineInv'
    BY <1>1, <2>5, <2>6, <2>7 DEF EngineInv
  <2> QED BY <1>2, <1>4, <2>2, <2>4, <2>6, <2>8
<1> QED BY <1>3, <1>4

(* An answer that lands in a member.                                         *)
LEMMA AnswerKeepsEngine ==
    ASSUME EngineInv, RunRequest
    PROVE  /\ EngineInv' /\ Texts' /\ refresh' = refresh \cup {Head(queue).ctx}
           /\ Head(queue).ctx \in Contexts
           /\ \A d \in Contexts :
                 /\ make_view(sm'[d]) = make_view(sm[d]) /\ sm'[d].st = sm[d].st
                 /\ d = Head(queue).ctx \/ sm'[d] = sm[d]
<1> DEFINE job == Head(queue)
<1>0. /\ sm \in [Contexts -> Machine] /\ queue \in Seq(Job) /\ queue # <<>>
      /\ refresh' = refresh \cup {job.ctx} /\ queue' = Tail(queue)
      /\ out' = Silent /\ UNCHANGED <<typed, tidy>>
  BY DEF EngineInv, RunRequest
<1>1. Texts'
  BY <1>0 DEF Texts, Silent, None
<1>2. job \in Job /\ queue' \in Seq(Job)
  BY <1>0, HeadTailProperties
<1>3. PICK status \in {"done", "failed"} :
          sm' = IF ~job.alive THEN sm
                ELSE [sm EXCEPT ![job.ctx].cmd =
                        [@ EXCEPT !.status = status,
                                  !.body = IF status = "done" THEN job.arg ELSE <<>>]]
  BY DEF RunRequest
<1> DEFINE c == job.ctx
           m == sm[c]
           body == IF status = "done" THEN job.arg ELSE <<>>
           member == [m.cmd EXCEPT !.status = status, !.body = body]
           n == [m EXCEPT !.cmd = member]
<1>4. c \in Contexts /\ body \in Seq(Keys)
  BY <1>2, EmptySeq DEF Job
<1>5. sm' = sm \/ sm' = [sm EXCEPT ![c] = n]
  <2> HIDE DEF job, body
  <2>1. ~job.alive => sm' = sm
    BY <1>3
  <2>2. job.alive => sm' = [sm EXCEPT ![c] = n]
    BY <1>0, <1>3, <1>4 DEF body
  <2> QED BY <2>1, <2>2
<1> HIDE DEF job, body, c
<1>6. Coherent(m) /\ m \in Machine /\ m.cmd \in Member /\ AddsUp(m, typed[c], tidy[c])
  BY <1>4 DEF EngineInv, Coherent, Machine
<1> HIDE DEF m
<1>7. member \in Member /\ member.name = m.cmd.name
  BY <1>4, <1>6 DEF Member
<1> HIDE DEF member
<1>8. /\ n \in Machine /\ n.st = m.st /\ n.buf = m.buf /\ n.com = m.com /\ n.cpy = m.cpy
      /\ n.cand = m.cand /\ n.fresh = m.fresh /\ n.hl = m.hl /\ n.page = m.page
      /\ n.cmd.name = m.cmd.name
  BY <1>6, <1>7 DEF Machine
<1> HIDE DEF n
<1>9. Coherent(n) /\ AddsUp(n, typed[c], tidy[c]) /\ make_view(n) = make_view(m)
  <2>1. Coherent(n)
    BY <1>6, <1>8 DEF Coherent, NameTyped
  <2>2. AddsUp(n, typed[c], tidy[c])
    BY <1>6, <1>8 DEF AddsUp
  <2>3. make_view(n) = make_view(m)
    BY <1>8 DEF make_view, Preedit
  <2> QED BY <2>1, <2>2, <2>3
<1>10. ASSUME NEW d \in Contexts
       PROVE  /\ sm'[d] \in Machine /\ Coherent(sm'[d]) /\ AddsUp(sm'[d], typed'[d], tidy'[d])
              /\ make_view(sm'[d]) = make_view(sm[d]) /\ sm'[d].st = sm[d].st
              /\ d = c \/ sm'[d] = sm[d]
  <2>1. Coherent(sm[d]) /\ AddsUp(sm[d], typed[d], tidy[d]) /\ sm[d] \in Machine
    BY DEF EngineInv, Coherent
  <2>2. CASE sm' = sm
    BY <1>0, <2>1, <2>2
  <2>3. CASE sm' = [sm EXCEPT ![c] = n] /\ d = c
    <3>1. sm'[d] = n /\ sm[d] = m
      BY <1>0, <1>4, <2>3 DEF m
    <3> QED BY <1>0, <1>8, <1>9, <2>3, <3>1
  <2>4. CASE sm' = [sm EXCEPT ![c] = n] /\ d # c
    <3>1. sm'[d] = sm[d]
      BY <1>0, <2>4
    <3> QED BY <1>0, <2>1, <3>1
  <2> QED BY <1>5, <2>2, <2>3, <2>4
<1>11. sm' \in [Contexts -> Machine]
  BY <1>0, <1>5, <1>8
<1>12. EngineInv'
  BY <1>0, <1>2, <1>10, <1>11 DEF EngineInv
<1> QED BY <1>0, <1>1, <1>4, <1>10, <1>12 DEF c, job

(* A view that is painted over another one.                                  *)
LEMMA PaintedOver ==
    ASSUME NEW v, NEW prev, WholeView(v), WholeView(prev)
    PROVE  apply_view(Painted(prev), v, prev) = Painted(v)
<1>1. CASE v.preedit = NoText /\ prev.preedit # NoText
  BY <1>1 DEF apply_view, WithoutPreedit, WithCandidates, WithAux, WithPreedit, Painted,
              WholeView, CandidatesDiffer, BlankPanel
<1>2. CASE v.preedit = NoText /\ prev.preedit = NoText
  BY <1>2 DEF apply_view, WithoutPreedit, WithCandidates, WithAux, WithPreedit, Painted,
              WholeView, CandidatesDiffer, BlankPanel
<1>3. CASE v.preedit # NoText
  BY <1>3 DEF apply_view, WithoutPreedit, WithCandidates, WithAux, WithPreedit, Painted,
              WholeView, CandidatesDiffer, BlankPanel
<1> QED BY <1>1, <1>2, <1>3

LEMMA Blank == WholeView(EmptyView) /\ Painted(EmptyView) = BlankPanel
  BY DEF WholeView, EmptyView, Painted, BlankPanel

(* What a composition shows.                                                 *)
LEMMA ViewIsWhole ==
    ASSUME NEW m, Coherent(m)
    PROVE  /\ WholeView(make_view(m))
           /\ m.st = "Idle" => Painted(make_view(m)) = BlankPanel
<1>1. /\ m \in Machine /\ m.st \in {"Idle", "Pinyin", "Snippet"}
      /\ m.st = "Idle" => m.buf = <<>> /\ m.cand = <<>>
      /\ m.st # "Idle" => m.buf # <<>>
  BY DEF Coherent, Machine
<1>2. /\ make_view(m).preedit = Preedit(m) /\ make_view(m).aux = m.buf
      /\ make_view(m).cand = m.cand
  BY DEF make_view
<1>3. CASE m.st = "Idle"
  <2>1. Preedit(m) = NoText
    BY <1>3 DEF Preedit
  <2> QED BY <1>1, <1>2, <1>3, <2>1 DEF WholeView, Painted, BlankPanel
<1>4. CASE m.st = "Pinyin"
  <2>1. Preedit(m) = [raw |-> FALSE, text |-> Append(m.com, m.buf)]
    BY <1>4 DEF Preedit
  <2>2. Append(m.com, m.buf) # <<>>
    <3>1. m.com \in Seq(Seq(Keys)) /\ m.buf \in Seq(Keys)
      BY <1>1, TextsOf
    <3> QED BY <3>1, AppendProperties
  <2>3. Preedit(m) # NoText
    BY <2>1, <2>2 DEF NoText
  <2> QED BY <1>1, <1>2, <1>4, <2>3 DEF WholeView
<1>5. CASE m.st = "Snippet"
  <2> DEFINE of == IF m.cand = <<>> THEN Rollback(m.buf) ELSE m.cand[m.hl + 1]
  <2>1. \/ Preedit(m) = [raw |-> TRUE, text |-> <<m.buf>>]
        \/ Preedit(m) = [raw |-> FALSE, text |-> <<of.of>>]
    BY <1>5 DEF Preedit
  <2> HIDE DEF of
  <2>2. <<of.of>> # <<>>
    OBVIOUS
  <2>3. Preedit(m) # NoText
    BY <2>1, <2>2 DEF NoText
  <2> QED BY <1>1, <1>2, <1>5, <2>3 DEF WholeView
<1> QED BY <1>1, <1>3, <1>4, <1>5

-----------------------------------------------------------------------------
(* The addon.                                                                *)
RefreshInv == \A c \in Contexts : ShowsRequest(sm[c]) \/ c \in refresh \cup batch

FcitxInv == EngineInv /\ Texts /\ AddonInv /\ RefreshInv

Follows ==
    \A c \in Contexts :
        make_view(sm'[c]) # make_view(sm[c]) => panel'[c] = Painted(make_view(sm'[c]))

(* A view painted for a context, with what its composition has become.       *)
LEMMA PaintKeepsAddon ==
    ASSUME FcitxInv, NEW c \in Contexts, NEW n, Coherent(n), sm' = [sm EXCEPT ![c] = n],
           NEW v, WholeView(v), last' = [last EXCEPT ![c] = v],
           panel' = [panel EXCEPT ![c] = Painted(v)],
           v = make_view(n) \/ n = sm[c] \/ (n.st = "Idle" /\ v = EmptyView),
           c \in active' \/ (n.st = "Idle" /\ v = EmptyView),
           active' \ {c} = active \ {c}, fired' = fired, refresh' = refresh,
           \/ batch' = batch /\ (ShowsRequest(n) \/ (n.cand = sm[c].cand /\ n.cmd = sm[c].cmd))
           \/ batch' = batch \ {c} /\ ShowsRequest(n)
    PROVE  AddonInv' /\ RefreshInv' /\ Follows
<1>1. /\ sm \in [Contexts -> Machine] /\ last = [d \in Contexts |-> last[d]]
      /\ panel = [d \in Contexts |-> Painted(last[d])]
      /\ fired => batch = {}
      /\ \A d \in Contexts : /\ WholeView(last[d])
                             /\ d \notin active => sm[d].st = "Idle" /\ last[d] = EmptyView
      /\ \A d \in Contexts : ShowsRequest(sm[d]) \/ d \in refresh \cup batch
  BY DEF FcitxInv, EngineInv, AddonInv, RefreshInv
<1>2. /\ sm'[c] = n /\ last'[c] = v /\ panel'[c] = Painted(v)
      /\ \A d \in Contexts \ {c} : sm'[d] = sm[d] /\ last'[d] = last[d] /\ panel'[d] = panel[d]
      /\ DOMAIN last' = Contexts /\ DOMAIN panel' = Contexts
  BY <1>1
<1>3. panel' = [d \in Contexts |-> Painted(last'[d])]
  <2>1. \A d \in Contexts : panel'[d] = Painted(last'[d])
    BY <1>1, <1>2
  <2>2. panel' = [d \in Contexts |-> panel'[d]]
    BY <1>1
  <2> QED BY <2>1, <2>2
<1>4. ASSUME NEW d \in Contexts
      PROVE  WholeView(last'[d]) /\ (d \notin active' => sm'[d].st = "Idle" /\ last'[d] = EmptyView)
  <2>1. CASE d = c
    BY <1>2, <2>1
  <2>2. CASE d # c
    BY <1>1, <1>2, <2>2
  <2> QED BY <2>1, <2>2
<1>5. AddonInv'
  <2>1. last' = [d \in Contexts |-> last'[d]]
    BY <1>1
  <2> QED BY <1>1, <1>2, <1>3, <1>4, <2>1 DEF AddonInv
<1>6. ASSUME NEW d \in Contexts PROVE ShowsRequest(sm'[d]) \/ d \in refresh' \cup batch'
  <2>1. CASE d = c
    <3>1. n.cand = sm[c].cand /\ n.cmd = sm[c].cmd => (ShowsRequest(n) <=> ShowsRequest(sm[c]))
      BY DEF ShowsRequest
    <3> QED BY <1>1, <1>2, <2>1, <3>1
  <2>2. CASE d # c
    BY <1>1, <1>2, <2>2
  <2> QED BY <2>1, <2>2
<1>7. RefreshInv'
  BY <1>6 DEF RefreshInv
<1>8. ASSUME NEW d \in Contexts, make_view(sm'[d]) # make_view(sm[d])
      PROVE  panel'[d] = Painted(make_view(sm'[d]))
  <2>1. d = c
    BY <1>2, <1>8
  <2>2. n # sm[c]
    BY <1>2, <1>8, <2>1
  <2>3. n.st = "Idle" /\ v = EmptyView => Painted(v) = Painted(make_view(n))
    BY Blank, ViewIsWhole
  <2> QED BY <1>2, <2>1, <2>2, <2>3
<1> QED BY <1>5, <1>7, <1>8 DEF Follows

(* A result shown: only the differences to what was shown before.            *)
LEMMA ShowPaints ==
    ASSUME FcitxInv, NEW c \in Contexts, NEW r, Coherent(r.m), r.through => r.m = sm[c],
           r.kind # None => r.m.st = "Idle", Show(c, r)
    PROVE  /\ WholeView(ViewOf(r)) /\ last' = [last EXCEPT ![c] = ViewOf(r)]
           /\ panel' = [panel EXCEPT ![c] = Painted(ViewOf(r))]
           /\ \/ ViewOf(r) = make_view(r.m) \/ r.m = sm[c]
              \/ r.m.st = "Idle" /\ ViewOf(r) = EmptyView
<1>1. /\ panel = [d \in Contexts |-> Painted(last[d])] /\ WholeView(last[c])
  BY DEF FcitxInv, AddonInv
<1>2. panel[c] = Painted(last[c])
  BY <1>1
<1>3. WholeView(ViewOf(r))
  BY Blank, ViewIsWhole DEF ViewOf
<1>4. apply_view(panel[c], ViewOf(r), last[c]) = Painted(ViewOf(r))
  BY <1>1, <1>2, <1>3, PaintedOver
<1>5. panel' = [panel EXCEPT ![c] = IF r.kind # None THEN BlankPanel
                                    ELSE apply_view(panel[c], ViewOf(r), last[c])]
      /\ last' = [last EXCEPT ![c] = ViewOf(r)]
  BY <1>1 DEF Show
<1>6. r.kind # None => Painted(ViewOf(r)) = BlankPanel
  BY Blank DEF ViewOf
<1>7. (IF r.kind # None THEN BlankPanel ELSE apply_view(panel[c], ViewOf(r), last[c]))
        = Painted(ViewOf(r))
  BY <1>4, <1>6
<1>8. \/ ViewOf(r) = make_view(r.m) \/ r.m = sm[c]
      \/ r.m.st = "Idle" /\ ViewOf(r) = EmptyView
  BY DEF ViewOf
<1> QED BY <1>3, <1>5, <1>7, <1>8

(* A key or a click, with its result.                                        *)
LEMMA CallKeepsAll ==
    ASSUME FcitxInv, NEW c \in active, c \in Contexts, NEW r,
           NEW key \in Keys \cup {"click", "reset", "leave"}, Handles(sm[c], key, r),
           Apply(c, r), Report(c, r), Track(c, key, r), Show(c, r),
           UNCHANGED <<active, fired, batch, refresh>>
    PROVE  FcitxInv' /\ Follows
<1>1. Outcome(sm[c], r) /\ Gives(sm[c], r) /\ Lettered(sm[c], key, r.m)
  BY DEF Handles
<1>2. EngineInv'
  BY <1>1, CallKeepsEngine DEF FcitxInv
<1>3. Texts'
  BY <1>1, ReportedText DEF FcitxInv
<1>4. /\ Coherent(r.m) /\ r.through => r.m = sm[c]
      /\ r.kind # None => r.m.st = "Idle"
      /\ ShowsRequest(r.m) \/ (r.m.cand = sm[c].cand /\ r.m.cmd = sm[c].cmd)
      /\ Coherent(r.m)
  BY <1>1 DEF Outcome
<1> DEFINE v == ViewOf(r)
           n == r.m
<1>5. /\ WholeView(v) /\ last' = [last EXCEPT ![c] = v] /\ panel' = [panel EXCEPT ![c] = Painted(v)]
      /\ v = make_view(n) \/ n = sm[c] \/ (n.st = "Idle" /\ v = EmptyView)
  BY <1>4, ShowPaints
<1>6. sm' = [sm EXCEPT ![c] = n]
  BY DEF Apply
<1> HIDE DEF v, n
<1>7. Coherent(n) /\ (ShowsRequest(n) \/ (n.cand = sm[c].cand /\ n.cmd = sm[c].cmd))
  BY <1>4 DEF n
<1>8. /\ c \in active' /\ active' \ {c} = active \ {c} /\ fired' = fired /\ refresh' = refresh
      /\ batch' = batch
  OBVIOUS
<1>9. AddonInv' /\ RefreshInv' /\ Follows
  BY <1>5, <1>6, <1>7, <1>8, PaintKeepsAddon
<1> QED BY <1>2, <1>3, <1>9 DEF FcitxInv

(* A composition that is ended and forgotten.                                *)
LEMMA GoneKeepsAll ==
    ASSUME FcitxInv, NEW c \in Contexts, NEW r,
           NEW key \in Keys \cup {"click", "reset", "leave"},
           Outcome(sm[c], r), Lettered(sm[c], key, r.m), r.m = Idle,
           Apply(c, r), Track(c, key, r), Forget(c), Texts',
           active' \ {c} = active \ {c}, UNCHANGED <<fired, batch, refresh>>
    PROVE  FcitxInv' /\ Follows
<1>2. EngineInv'
  BY CallKeepsEngine DEF FcitxInv
<1>3. sm' = [sm EXCEPT ![c] = Idle]
  BY DEF Apply
<1>4. last' = [last EXCEPT ![c] = EmptyView] /\ panel' = [panel EXCEPT ![c] = Painted(EmptyView)]
  BY Blank DEF Forget
<1>5. Coherent(Idle) /\ ShowsRequest(Idle) /\ Idle.st = "Idle" /\ WholeView(EmptyView)
  BY IdleIsCoherent, Blank
<1>6. fired' = fired /\ batch' = batch /\ refresh' = refresh
  OBVIOUS
<1>7. AddonInv' /\ RefreshInv' /\ Follows
  BY <1>3, <1>4, <1>5, <1>6, PaintKeepsAddon
<1> QED BY <1>2, <1>7 DEF FcitxInv

(* What shows and what waits to be drawn stay as they are.                   *)
LEMMA NothingShown ==
    ASSUME FcitxInv, EngineInv', Texts',
           \A d \in Contexts : make_view(sm'[d]) = make_view(sm[d]) /\ sm'[d].st = sm[d].st,
           \A d \in Contexts :
              sm'[d] = sm[d] \/ d \in refresh' \cup batch',
           refresh \cup batch \subseteq refresh' \cup batch', fired' => batch' = {},
           UNCHANGED <<panel, last>>,
           active \subseteq active'
    PROVE  FcitxInv' /\ Follows
<1>1. AddonInv'
  BY DEF FcitxInv, AddonInv
<1>2. RefreshInv'
  BY DEF FcitxInv, RefreshInv
<1> QED BY <1>1, <1>2 DEF FcitxInv, Follows

LEMMA InitFcitx == AddonInit => FcitxInv
<1> SUFFICES ASSUME AddonInit PROVE FcitxInv
  OBVIOUS
<1>1. /\ sm = [c \in Contexts |-> Idle] /\ queue = <<>> /\ typed = [c \in Contexts |-> <<>>]
      /\ tidy = [c \in Contexts |-> TRUE] /\ out = Silent /\ refresh = {} /\ batch = {}
      /\ panel = [c \in Contexts |-> BlankPanel] /\ last = [c \in Contexts |-> EmptyView]
      /\ fired = FALSE
  BY DEF AddonInit, Init
<1>2. Coherent(Idle) /\ Idle \in Machine /\ Idle.st = "Idle" /\ ShowsRequest(Idle) /\ Clean(Idle)
  BY IdleIsCoherent DEF Coherent
<1>3. AddsUp(Idle, <<>>, TRUE)
  BY <1>2, EmptySeq DEF AddsUp, Clean
<1>4. EngineInv
  BY <1>1, <1>2, <1>3, EmptySeq DEF EngineInv
<1>5. Texts
  BY <1>1 DEF Texts, Silent, None
<1>6. AddonInv
  BY <1>1, <1>2, Blank DEF AddonInv
<1>7. RefreshInv
  BY <1>1, <1>2 DEF RefreshInv
<1> QED BY <1>4, <1>5, <1>6, <1>7 DEF FcitxInv

LEMMA WorkKeepsAll ==
    ASSUME FcitxInv, Work
    PROVE  FcitxInv' /\ Follows
<1>0. /\ UNCHANGED <<panel, last, active, armed, timer, fired, batch>>
      /\ EngineInv /\ (fired => batch = {})
  BY DEF Work, Working, FcitxInv, AddonInv
<1>1. CASE RunRequest
  <2>1. /\ EngineInv' /\ Texts' /\ refresh' = refresh \cup {Head(queue).ctx}
        /\ \A d \in Contexts :
                 /\ make_view(sm'[d]) = make_view(sm[d]) /\ sm'[d].st = sm[d].st
                 /\ d = Head(queue).ctx \/ sm'[d] = sm[d]
    BY <1>0, <1>1, AnswerKeepsEngine
  <2> QED BY <1>0, <2>1, NothingShown
<1>2. ASSUME NEW pushed, RequestClipboard(pushed) PROVE FcitxInv' /\ Follows
  <2>1. /\ queue # <<>> /\ queue' = Tail(queue) /\ refresh \subseteq refresh' /\ out' = Silent
        /\ UNCHANGED <<sm, typed, tidy>>
    BY <1>2 DEF RequestClipboard
  <2>2. queue' \in Seq(Job)
    BY <1>0, <2>1, HeadTailProperties DEF EngineInv
  <2>3. EngineInv'
    BY <1>0, <2>1, <2>2 DEF EngineInv
  <2>4. Texts'
    BY <2>1 DEF Texts, Silent, None
  <2> QED BY <1>0, <2>1, <2>3, <2>4, NothingShown
<1>3. ASSUME NEW v, VoiceChanges(v) PROVE FcitxInv' /\ Follows
  <2>1. refresh \subseteq refresh' /\ out' = Silent /\ UNCHANGED <<sm, queue, typed, tidy>>
    BY <1>3 DEF VoiceChanges
  <2>3. EngineInv'
    BY <1>0, <2>1 DEF EngineInv
  <2>4. Texts'
    BY <2>1 DEF Texts, Silent, None
  <2> QED BY <1>0, <2>1, <2>3, <2>4, NothingShown
<1> QED BY <1>1, <1>2, <1>3 DEF Work, Working

(* Steps of the engine that leave every composition as it is.                *)
LEMMA EngineStays ==
    ASSUME FcitxInv, out' \in {out, Silent}, UNCHANGED <<sm, queue, typed, tidy>>
    PROVE  EngineInv' /\ Texts'
<1>1. EngineInv'
  BY DEF FcitxInv, EngineInv
<1>2. Texts'
  BY DEF FcitxInv, Texts, Silent, None
<1> QED BY <1>1, <1>2

LEMMA DrainKeepsAll ==
    ASSUME FcitxInv, Drain
    PROVE  FcitxInv' /\ Follows
<1>0. fired => batch = {}
  BY DEF FcitxInv, AddonInv
<1>1. /\ out' = Silent /\ UNCHANGED <<sm, queue, typed, tidy, panel, last, active>>
      /\ refresh \cup batch \subseteq refresh' \cup batch' /\ (fired' => batch' = {})
  <2>1. CASE /\ timer /\ MainIdle /\ timer' = FALSE /\ armed' = FALSE /\ fired' = TRUE
             /\ KeepsEngine /\ UNCHANGED <<refresh, panel, last, active, io, batch>>
    BY <2>1 DEF KeepsEngine, MainIdle
  <2>2. CASE /\ fired /\ fired' = FALSE /\ batch' = refresh /\ refresh' = {}
             /\ KeepsEngine /\ UNCHANGED <<panel, last, active, armed, timer, io>>
    BY <1>0, <2>2 DEF KeepsEngine
  <2> QED BY <2>1, <2>2 DEF Drain
<1>2. EngineInv' /\ Texts'
  BY <1>1, EngineStays
<1> QED BY <1>1, <1>2, NothingShown

LEMMA DrawKeepsAll ==
    ASSUME FcitxInv, NEW c \in Contexts, Draw(c)
    PROVE  FcitxInv' /\ Follows
<1>1. /\ EngineInv' /\ Texts'
      /\ \/ sm' = sm /\ ~Ticks(sm[c])
         \/ /\ sm' = [sm EXCEPT ![c] = sm'[c]] /\ Ticks(sm[c])
            /\ Coherent(sm'[c]) /\ ShowsRequest(sm'[c])
  BY TickKeepsEngine DEF Draw, FcitxInv
<1>2. /\ c \in batch /\ batch' = batch \ {c} /\ refresh' = refresh
      /\ UNCHANGED <<active, armed, timer, io, fired>>
  BY DEF Draw, Tick
<1>3. Coherent(sm[c]) /\ (c \notin active => sm[c].st = "Idle")
  BY DEF FcitxInv, EngineInv, AddonInv
<1>4. CASE sm' = sm /\ ~Ticks(sm[c])
  <2>1. UNCHANGED <<panel, last>>
    BY <1>4 DEF Draw
  <2>2. sm[c].cmd.name # "req"
    <3>1. sm[c].st # "Snippet" => sm[c].cmd.name = None
      BY <1>3 DEF Coherent, NameTyped
    <3>2. sm[c].cmd = NoMember => sm[c].cmd.name = None
      BY DEF NoMember
    <3> QED BY <1>4, <3>1, <3>2 DEF Ticks, None
  <2>3. AddonInv'
    BY <1>2, <1>4, <2>1 DEF FcitxInv, AddonInv
  <2>4. ASSUME NEW d \in Contexts PROVE ShowsRequest(sm'[d]) \/ d \in refresh' \cup batch'
    <3>1. ShowsRequest(sm[c])
      BY <2>2 DEF ShowsRequest
    <3> QED BY <1>2, <1>4, <3>1 DEF FcitxInv, RefreshInv
  <2>5. RefreshInv'
    BY <2>4 DEF RefreshInv
  <2> QED BY <1>1, <1>4, <2>3, <2>5 DEF FcitxInv, Follows
<1>5. CASE /\ sm' = [sm EXCEPT ![c] = sm'[c]] /\ Ticks(sm[c])
           /\ Coherent(sm'[c]) /\ ShowsRequest(sm'[c])
  <2> DEFINE n == sm'[c]
             r == Handled(n)
             v == ViewOf(r)
  <2>1. Show(c, r)
    BY <1>5 DEF Draw
  <2>2. r.m = n /\ r.kind = None /\ ~r.through
    BY DEF Handled
  <2>3. v = make_view(n)
    BY <2>2 DEF ViewOf
  <2>4. c \in active
    BY <1>3, <1>5 DEF Ticks
  <2> HIDE DEF r
  <2>5. /\ WholeView(v) /\ last' = [last EXCEPT ![c] = v]
        /\ panel' = [panel EXCEPT ![c] = Painted(v)]
    BY <1>5, <2>1, <2>2, ShowPaints
  <2>6. sm' = [sm EXCEPT ![c] = n] /\ Coherent(n) /\ ShowsRequest(n)
    BY <1>5
  <2> HIDE DEF v
  <2>7. c \in active' /\ active' \ {c} = active \ {c} /\ fired' = fired
    BY <1>2, <2>4
  <2> HIDE DEF n
  <2>8. AddonInv' /\ RefreshInv' /\ Follows
    BY <1>2, <2>3, <2>5, <2>6, <2>7, PaintKeepsAddon
  <2> QED BY <1>1, <2>8 DEF FcitxInv
<1> QED BY <1>1, <1>4, <1>5

LEMMA NextFcitx ==
    ASSUME FcitxInv, [AddonNext]_allVars
    PROVE  FcitxInv' /\ Follows
<1>0. /\ \A c \in Contexts : Coherent(sm[c])
      /\ \A c \in Contexts : c \notin active => last[c] = EmptyView /\ sm[c].st = "Idle"
      /\ last = [c \in Contexts |-> last[c]] /\ panel = [c \in Contexts |-> Painted(last[c])]
      /\ (fired => batch = {})
  BY DEF FcitxInv, EngineInv, AddonInv
<1>1. ASSUME NEW c \in Contexts, Activate(c) PROVE FcitxInv' /\ Follows
  <2>1. /\ last' = [last EXCEPT ![c] = EmptyView] /\ c \notin active /\ active' = active \cup {c}
        /\ out' = Silent /\ UNCHANGED <<sm, queue, refresh, typed, tidy, fired, batch, panel>>
    BY <1>1 DEF Activate, KeepsTimer
  <2>2. last' = last
    <3>1. last[c] = EmptyView
      BY <1>0, <2>1
    <3>2. last = [d \in Contexts |-> last[d]]
      BY <1>0
    <3> QED BY <2>1, <3>1, <3>2
  <2>3. EngineInv' /\ Texts'
    BY <2>1, EngineStays
  <2> QED BY <1>0, <2>1, <2>2, <2>3, NothingShown
<1>2. ASSUME NEW c \in Contexts, NEW key \in Keys, KeyEvent(c, key) PROVE FcitxInv' /\ Follows
  <2>1. PICK r \in KeyResults(c, key, [World EXCEPT !.clips = clips']) :
            Key(c, key, r) /\ Show(c, r)
    BY <1>2 DEF KeyEvent
  <2>2. r \in route(sm[c], key, [World EXCEPT !.clips = clips'])
    BY <2>1 DEF KeyResults
  <2>3. Handles(sm[c], key, r)
    BY <1>0, <2>2, RouteIs
  <2>4. /\ c \in active /\ UNCHANGED <<active, fired, batch, refresh>>
        /\ Apply(c, r) /\ Report(c, r) /\ Track(c, key, r) /\ Show(c, r)
        /\ key \in Keys \cup {"click", "reset", "leave"}
    BY <1>2, <2>1 DEF KeyEvent, Key, KeepsTimer
  <2> QED BY <2>3, <2>4, CallKeepsAll
<1>3. ASSUME NEW c \in Contexts, NEW i \in 0..4, Click(c, i) PROVE FcitxInv' /\ Follows
  <2>1. PICK r \in select(sm[c], i) : Select(c, r) /\ Show(c, r)
    BY <1>3 DEF Click
  <2>2. i \in Nat /\ "click" \notin Letters
    BY LetterAssumption
  <2>3. Handles(sm[c], "click", r)
    BY <1>0, <2>1, <2>2, SelectHandled
  <2>4. /\ c \in active /\ UNCHANGED <<active, fired, batch, refresh>>
        /\ Apply(c, r) /\ Report(c, r) /\ Track(c, "click", r) /\ Show(c, r)
    BY <1>3, <2>1 DEF Click, Select, KeepsTimer
  <2> QED BY <2>3, <2>4, CallKeepsAll
<1>4. ASSUME NEW c \in Contexts, Reset(c) PROVE FcitxInv' /\ Follows
  <2> DEFINE r == Handled(reset(sm[c]))
  <2>1. r.m = Idle /\ r.kind = None /\ r.taught = {}
    BY DEF Handled, reset
  <2>2. Outcome(sm[c], r) /\ Lettered(sm[c], "reset", r.m)
    BY ResetHandled DEF Handles
  <2>3. /\ Apply(c, r) /\ Report(c, r) /\ Track(c, "reset", r) /\ Forget(c)
        /\ UNCHANGED <<active, fired, batch, refresh>>
    BY <1>4 DEF Reset, ResetContext, KeepsTimer
  <2> HIDE DEF r
  <2>4. Texts'
    BY <2>1, <2>3 DEF Report, Texts, Silent, None
  <2> QED BY <2>1, <2>2, <2>3, <2>4, GoneKeepsAll
<1>5. ASSUME NEW c \in Contexts, Deactivate(c) PROVE FcitxInv' /\ Follows
  <2> DEFINE kind == Pending(sm[c]).kind
             r == [Handled(Idle) EXCEPT !.kind = kind]
             told == [r EXCEPT !.text = Pending(sm[c]).text]
  <2>1. kind \in {"prompt", "pending", None}
    <3>1. Pending(sm[c]).kind \in {"prompt", "pending", None}
      BY DEF Pending
    <3> QED BY <3>1
  <2>2. /\ Apply(c, r) /\ Report(c, told) /\ Track(c, "leave", r) /\ Forget(c)
        /\ active' = active \ {c} /\ UNCHANGED <<fired, batch, refresh>>
    BY <1>5 DEF Deactivate, LeaveContext, KeepsTimer
  <2> HIDE DEF kind
  <2>3. told.kind = kind /\ told.taught = {}
    BY DEF Handled
  <2> HIDE DEF told
  <2>4. Texts'
    <3>1. out' = Silent \/ (out'.kind = kind /\ out'.taught = {})
      BY <2>2, <2>3 DEF Report
    <3> QED BY <2>1, <3>1 DEF Texts, Silent, None
  <2>5. active' \ {c} = active \ {c}
    BY <2>2
  <2> HIDE DEF r
  <2>6. Outcome(sm[c], r) /\ Lettered(sm[c], "leave", r.m) /\ r.m = Idle
    BY GoneHandled DEF r
  <2> QED BY <2>2, <2>4, <2>5, <2>6, GoneKeepsAll
<1>6. CASE ArmTimer
  <2>1. /\ out' = Silent
        /\ UNCHANGED <<sm, queue, typed, tidy, refresh, panel, last, active, fired, batch>>
    BY <1>6 DEF ArmTimer, KeepsEngine
  <2>2. EngineInv' /\ Texts'
    BY <2>1, EngineStays
  <2> QED BY <1>0, <2>1, <2>2, NothingShown
<1>7. CASE UNCHANGED allVars
  <2>1. UNCHANGED <<sm, queue, typed, tidy, out, refresh, panel, last, active, fired, batch>>
    BY <1>7 DEF allVars, vars, addonVars
  <2>2. EngineInv' /\ Texts'
    BY <2>1, EngineStays
  <2> QED BY <1>0, <2>1, <2>2, NothingShown
<1> QED BY <1>1, <1>2, <1>3, <1>4, <1>5, <1>6, <1>7, WorkKeepsAll, DrainKeepsAll, DrawKeepsAll
        DEF AddonNext

LEMMA FcitxImplies == FcitxInv => HoldsWhatIsTyped /\ Conserved /\ FreshOrRefreshing
<1> SUFFICES ASSUME FcitxInv PROVE HoldsWhatIsTyped /\ Conserved /\ FreshOrRefreshing
  OBVIOUS
<1>1. HoldsWhatIsTyped
  <2> SUFFICES ASSUME NEW c \in Contexts
               PROVE  /\ sm[c].st = "Idle" =>
                            sm[c].buf = <<>> /\ sm[c].com = <<>> /\ sm[c].cand = <<>>
                      /\ sm[c].com # <<>> => sm[c].st = "Pinyin" /\ sm[c].buf # <<>>
                      /\ sm[c].cmd.name = NameTyped(sm[c])
    BY DEF HoldsWhatIsTyped, NameTyped, Live
  <2>1. Coherent(sm[c])
    BY DEF FcitxInv, EngineInv
  <2> QED BY <2>1 DEF Coherent
<1>2. Conserved
  BY DEF FcitxInv, EngineInv, Texts, AddsUp, Conserved
<1>3. FreshOrRefreshing
  <2> SUFFICES ASSUME NEW c \in Contexts, sm[c].cmd.name = "req", sm[c].cand # <<>>,
                      c \notin refresh \cup batch
               PROVE  Current(c)
    BY DEF FreshOrRefreshing
  <2>1. ShowsRequest(sm[c])
    BY DEF FcitxInv, RefreshInv
  <2>2. predict(sm[c].cmd, sm[c].buf, World)
          = IF sm[c].cmd.status = "done" THEN <<Text(sm[c].cmd.body)>> ELSE <<Prompt>>
    BY DEF predict
  <2> QED BY <2>1, <2>2 DEF ShowsRequest, Current
<1> QED BY <1>1, <1>2, <1>3

(* A composition that ended holds nothing of the next one, and the instance  *)
(* of a live command exists exactly while its name is typed - in every       *)
(* context, for every alphabet, dictionary, set of commands and page size.   *)
THEOREM ImeHoldsWhatIsTyped == Spec => []HoldsWhatIsTyped
BY InitFcitx, NextFcitx, FcitxImplies, PTL DEF Spec

(* No letter is lost or doubled between what is typed, what is picked, and   *)
(* what the application and the phrase book are given.                       *)
THEOREM ImeConserves == Spec => []Conserved
BY InitFcitx, NextFcitx, FcitxImplies, PTL DEF Spec

(* What #req shows is what it would predict now, or its context waits to be  *)
(* drawn again, wherever the answer lands between the steps of the addon.    *)
THEOREM ImeIsFreshOrRefreshing == Spec => []FreshOrRefreshing
BY InitFcitx, NextFcitx, FcitxImplies, PTL DEF Spec

(* Painting only the differences shows what painting everything would.       *)
THEOREM ThePanelFollows == Spec => PanelFollows
<1>1. FcitxInv /\ [AddonNext]_allVars => [Follows]_allVars
  BY NextFcitx
<1>2. Spec => [][Follows]_allVars
  BY <1>1, InitFcitx, NextFcitx, PTL DEF Spec
<1> QED BY <1>2 DEF PanelFollows, Follows

-----------------------------------------------------------------------------
(* The timer.                                                                *)

(* While the timer is believed to be set, it is.                             *)
TimerInv == (armed => timer) /\ NoRefreshLost

(* The engine's part of a step of the main loop draws nothing again.         *)
LEMMA EngineKeepsRefresh ==
    ASSUME NEW c, \/ \E key, r : Key(c, key, r)
                  \/ \E r : Select(c, r)
                  \/ ResetContext(c) \/ LeaveContext(c) \/ Tick(c)
    PROVE  refresh' = refresh
BY DEF Key, Select, ResetContext, LeaveContext, Tick

(* A step of the front end leaves the handshake alone.                       *)
LEMMA FrontEndKeeps ==
    ASSUME TimerInv, refresh' = refresh, UNCHANGED <<armed, timer, io, fired>>
    PROVE  TimerInv'
BY DEF TimerInv, NoRefreshLost

LEMMA WorkKeeps == ASSUME TimerInv, Work PROVE TimerInv'
<1>1. io' = "told" /\ UNCHANGED <<armed, timer, fired>>
  BY DEF Work, Working
<1> QED BY <1>1 DEF TimerInv, NoRefreshLost

LEMMA ArmTimerKeeps == ASSUME TimerInv, ArmTimer PROVE TimerInv'
BY DEF ArmTimer, TimerInv, NoRefreshLost

LEMMA DrainKeeps == ASSUME TimerInv, Drain PROVE TimerInv'
<1>1. CASE timer /\ MainIdle /\ timer' = FALSE /\ armed' = FALSE /\ fired' = TRUE
  BY <1>1 DEF TimerInv, NoRefreshLost
<1>2. CASE fired /\ refresh' = {} /\ UNCHANGED <<armed, timer>>
  BY <1>2 DEF TimerInv, NoRefreshLost
<1> QED BY <1>1, <1>2 DEF Drain

LEMMA InitTimer == AddonInit => TimerInv
BY DEF AddonInit, Init, TimerInv, NoRefreshLost

LEMMA NextTimer == ASSUME TimerInv, [AddonNext]_allVars PROVE TimerInv'
<1>1. ASSUME NEW c \in Contexts, Activate(c) PROVE TimerInv'
  BY <1>1, FrontEndKeeps DEF Activate, KeepsTimer
<1>2. ASSUME NEW c \in Contexts, NEW key \in Keys, KeyEvent(c, key) PROVE TimerInv'
  <2>1. PICK r : Key(c, key, r)
    BY <1>2 DEF KeyEvent
  <2>2. refresh' = refresh
    BY <2>1, EngineKeepsRefresh
  <2> QED BY <1>2, <2>2, FrontEndKeeps DEF KeyEvent, KeepsTimer
<1>3. ASSUME NEW c \in Contexts, NEW i \in 0..4, Click(c, i) PROVE TimerInv'
  <2>1. PICK r : Select(c, r)
    BY <1>3 DEF Click
  <2>2. refresh' = refresh
    BY <2>1, EngineKeepsRefresh
  <2> QED BY <1>3, <2>2, FrontEndKeeps DEF Click, KeepsTimer
<1>4. ASSUME NEW c \in Contexts, Reset(c) PROVE TimerInv'
  BY <1>4, EngineKeepsRefresh, FrontEndKeeps DEF Reset, KeepsTimer
<1>5. ASSUME NEW c \in Contexts, Deactivate(c) PROVE TimerInv'
  BY <1>5, EngineKeepsRefresh, FrontEndKeeps DEF Deactivate, KeepsTimer
<1>6. ASSUME NEW c \in Contexts, Draw(c) PROVE TimerInv'
  BY <1>6, EngineKeepsRefresh, FrontEndKeeps DEF Draw
<1>7. CASE UNCHANGED allVars
  BY <1>7, FrontEndKeeps DEF allVars, vars, addonVars
<1> QED BY <1>1, <1>2, <1>3, <1>4, <1>5, <1>6, <1>7, WorkKeeps, ArmTimerKeeps, DrainKeeps
        DEF AddonNext

(* Whatever the I/O thread and the main loop do between each other's steps,  *)
(* a context that waits to be drawn has a timer that is set, or is about to  *)
(* be, or a callback that is about to take it.                               *)
THEOREM RefreshesArrive == Spec => []NoRefreshLost
<1>1. TimerInv => NoRefreshLost
  BY DEF TimerInv
<1> QED BY <1>1, InitTimer, NextTimer, PTL DEF Spec
=============================================================================

---------------------------- MODULE MachineProofs ----------------------------
(***************************************************************************)
(* The loader and the machine.  On a text that is in blocks every label    *)
(* leads to the line that has it, every goroutine executes whole blocks,   *)
(* and calls join whole subtrees.  On a text that is framed as well the    *)
(* symbol tables stay in step with the frames of Frames, so that names are *)
(* bound when they are used, cells in use are those of the names, nothing  *)
(* panics forward but a division by zero or a cell below zero, and a run   *)
(* leaves no name and no lock behind.                                      *)
(***************************************************************************)
EXTENDS Frames, FiniteSetTheorems, WellFoundedInduction, NaturalsInduction, SequenceTheorems, TLAPS

-----------------------------------------------------------------------------
(* Sequences and numbers *)

\* A set of natural numbers has a least element.
LEMMA LeastNat ==
  ASSUME NEW S \in SUBSET Nat, S # {}
  PROVE  \E m \in S : \A k \in S : m <= k
<1>1. PICK R : R = OpToRel(<, Nat) /\ IsWellFoundedOn(R, Nat)
  BY NatLessThanWellFounded, Zenon
<1>2. \A i, j \in Nat : <<i, j>> \in R <=> i < j
  BY <1>1 DEF OpToRel
<1>3. PICK m \in S : \A k \in S : ~(<<k, m>> \in R)
  BY <1>1, WFMin
<1>4. ASSUME NEW k \in S PROVE m <= k
  <2>1. m \in Nat /\ k \in Nat
    OBVIOUS
  <2>2. ~(<<k, m>> \in R)
    BY <1>3
  <2>3. ~(k < m)
    BY <1>2, <2>1, <2>2
  <2> QED BY <2>1, <2>3
<1> QED BY <1>4

-----------------------------------------------------------------------------
(* The loader, line by line *)

\* What the lines of a text are loaded to, one after the other.
Loading(text, f, k) ==
  f = [n \in 0 .. k |-> IF n = 0 THEN EmptyFile ELSE AddLine(f[n - 1], text[n])]

\* There is such a function.
LEMMA LoadingExists ==
  ASSUME NEW text, NEW k \in Nat
  PROVE  \E f : Loading(text, f, k)
<1> DEFINE S == {i \in Nat : \A f : ~Loading(text, f, i)}
<1>1. SUFFICES ASSUME S # {} PROVE FALSE
  OBVIOUS
<1>2. PICK m \in S : \A i \in S : m <= i
  <2>1. S \in SUBSET Nat
    OBVIOUS
  <2> HIDE DEF S
  <2> QED BY <1>1, <2>1, LeastNat
<1>3. CASE m = 0
  <2>1. PICK f : f = [n \in 0 .. 0 |-> EmptyFile]
    OBVIOUS
  <2>2. Loading(text, f, 0)
    BY <2>1 DEF Loading
  <2> QED BY <1>2, <1>3, <2>2
<1>4. CASE m # 0
  <2>1. PICK l \in Nat : m = l + 1
    <3>1. m - 1 \in Nat /\ m = (m - 1) + 1
      BY <1>4
    <3> QED BY <3>1
  <2>2. PICK g : Loading(text, g, l)
    <3>1. ~(m <= l)
      BY <2>1
    <3>2. l \notin S
      BY <1>2, <3>1
    <3> QED BY <3>2
  <2>3. PICK f : f = [n \in 0 .. m |-> IF n = m THEN AddLine(g[l], text[m]) ELSE g[n]]
    OBVIOUS
  <2>4. \A n \in 0 .. l : g[n] = IF n = 0 THEN EmptyFile ELSE AddLine(g[n - 1], text[n])
    BY <2>2 DEF Loading
  <2>5. \A n \in 0 .. m : f[n] = IF n = 0 THEN EmptyFile ELSE AddLine(f[n - 1], text[n])
    <3> SUFFICES ASSUME NEW n \in 0 .. m
                 PROVE  f[n] = IF n = 0 THEN EmptyFile ELSE AddLine(f[n - 1], text[n])
      OBVIOUS
    <3>1. CASE n = m
      <4>1. n # 0 /\ n - 1 = l /\ l \in 0 .. m /\ l # m
        BY <2>1, <3>1
      <4>2. f[l] = g[l] /\ f[n] = AddLine(g[l], text[m])
        BY <2>3, <3>1, <4>1
      <4> QED BY <3>1, <4>1, <4>2
    <3>2. CASE n # m
      <4>1. n \in 0 .. l /\ f[n] = g[n]
        BY <2>1, <2>3, <3>2
      <4>2. CASE n = 0
        BY <2>4, <4>1, <4>2
      <4>3. CASE n # 0
        <5>1. n - 1 \in 0 .. m /\ n - 1 # m
          BY <2>1, <4>1, <4>3
        <5>2. f[n - 1] = g[n - 1]
          BY <2>3, <5>1
        <5> QED BY <2>4, <4>1, <4>3, <5>2
      <4> QED BY <4>2, <4>3
    <3> QED BY <3>1, <3>2
  <2>6. Loading(text, f, m)
    BY <2>3, <2>5 DEF Loading
  <2> QED BY <1>2, <2>6
<1> QED BY <1>3, <1>4

\* What Load makes of a text is the last of what its lines are loaded to.
LEMMA LoadIsLoading ==
  ASSUME NEW text, Len(text) \in Nat
  PROVE  \E f : Loading(text, f, Len(text)) /\ Load(text) = f[Len(text)]
<1>1. PICK k : k = Len(text) /\ k \in Nat
  OBVIOUS
<1>2. \E f : f = [n \in 0 .. k |-> IF n = 0 THEN EmptyFile ELSE AddLine(f[n - 1], text[n])]
  BY <1>1, LoadingExists DEF Loading
<1>3. PICK f : f = CHOOSE h : h = [n \in 0 .. k |->
                                     IF n = 0 THEN EmptyFile ELSE AddLine(h[n - 1], text[n])]
  OBVIOUS
<1>4. f = [n \in 0 .. k |-> IF n = 0 THEN EmptyFile ELSE AddLine(f[n - 1], text[n])]
  BY <1>2, <1>3, Zenon
<1>5. Load(text) = f[Len(text)]
  BY <1>1, <1>3, Zenon DEF Load
<1> QED BY <1>1, <1>4, <1>5 DEF Loading

\* The lines of a text, and those the loader adds to them.
TextLines(text) == {text[n] : n \in DOMAIN text}
AddedLines == {Goto(NewLabel(n)) : n \in Nat} \cup {Come(NewLabel(n)) : n \in Nat}

\* Each label leads to the line op that has it, each name to its begin or end.
Leads(F, labels, op) ==
  \A l \in DOMAIN labels :
    /\ labels[l] \in 0 .. Len(F.lines) - 1
    /\ LineAt(F, labels[l]).op = op
    /\ l \in {LineAt(F, labels[l]).l, LineAt(F, labels[l]).m}
LeadsTo(F, names, op) ==
  \A name \in DOMAIN names :
    /\ names[name] \in 0 .. Len(F.lines) - 1
    /\ LineAt(F, names[name]).op = op
    /\ LineAt(F, names[name]).name = name

\* In a file of threes, entries come first and exits last; in the middle are
\* instructions of the text.
InThrees(text, F) ==
  /\ F.lines \in Seq(TextLines(text) \cup AddedLines)
  /\ \A n \in 0 .. Len(F.lines) - 1 :
       /\ IsEntry(LineAt(F, n)) <=> n % 3 = 0
       /\ IsExit(LineAt(F, n)) <=> n % 3 = 2
       /\ n % 3 = 1 => LineAt(F, n) \in TextLines(text)

LabelsLead(F) ==
  /\ Leads(F, F.goto, "->") /\ Leads(F, F.come, "<-")
  /\ LeadsTo(F, F.begin, "begin") /\ LeadsTo(F, F.end, "end")

\* Where the last of n lines of the text is.
Ends(text, n, len) ==
  len % 3 = (IF n = 0 THEN 0
             ELSE IF IsExit(text[n]) THEN 0
             ELSE IF IsEntry(text[n]) THEN 1 ELSE 2)

\* G is F with one line more, of S, or with three.
OneMore(S, F, G, t) ==
  \E n \in Nat :
    /\ n = Len(F.lines) /\ G.lines \in Seq(S) /\ Len(G.lines) = n + 1
    /\ \A k \in 0 .. n - 1 : LineAt(G, k) = LineAt(F, k)
    /\ LineAt(G, n) = t
ThreeMore(S, F, G, a, b, t) ==
  \E n \in Nat :
    /\ n = Len(F.lines) /\ G.lines \in Seq(S) /\ Len(G.lines) = n + 3
    /\ \A k \in 0 .. n - 1 : LineAt(G, k) = LineAt(F, k)
    /\ LineAt(G, n) = a /\ LineAt(G, n + 1) = b /\ LineAt(G, n + 2) = t

\* A file that goes on with one line has that line behind the others.
LEMMA OneLine ==
  ASSUME NEW S, NEW F, F.lines \in Seq(S), NEW t \in S,
         NEW G, G.lines = F.lines \o << >> \o <<t>>
  PROVE  OneMore(S, F, G, t)
<1>1. PICK l, q : l = F.lines /\ q = G.lines /\ l \in Seq(S)
  OBVIOUS
<1>2. l \o << >> = l
  BY <1>1, ConcatEmptySeq
<1>3. q = l \o <<t>> /\ <<t>> \in Seq(S) /\ Len(<<t>>) = 1 /\ <<t>>[1] = t
  BY <1>1, <1>2
<1>4. PICK n \in Nat : n = Len(l)
  BY <1>1
<1>5. q \in Seq(S) /\ Len(q) = n + 1 /\ (\A k \in 1 .. n : q[k] = l[k]) /\ q[n + 1] = t
  BY <1>1, <1>3, <1>4
<1>6. \A k \in 0 .. n - 1 : k + 1 \in 1 .. n
  OBVIOUS
<1>7. (\A k \in 0 .. n - 1 : LineAt(G, k) = LineAt(F, k)) /\ LineAt(G, n) = t
  BY <1>1, <1>5, <1>6 DEF LineAt
<1> QED BY <1>1, <1>4, <1>5, <1>7 DEF OneMore

\* A file that goes on with two lines and one has the three behind the others.
LEMMA ThreeLines ==
  ASSUME NEW S, NEW F, F.lines \in Seq(S), NEW a \in S, NEW b \in S, NEW t \in S,
         NEW G, G.lines = F.lines \o <<a, b>> \o <<t>>
  PROVE  ThreeMore(S, F, G, a, b, t)
<1>1. PICK l, q : l = F.lines /\ q = G.lines /\ l \in Seq(S)
  OBVIOUS
<1>2. /\ <<a, b>> \in Seq(S) /\ <<t>> \in Seq(S) /\ Len(<<a, b>>) = 2 /\ Len(<<t>>) = 1
      /\ <<a, b>>[1] = a /\ <<a, b>>[2] = b /\ <<t>>[1] = t
  OBVIOUS
<1>3. PICK n \in Nat : n = Len(l)
  BY <1>1
<1>4. PICK r : r = l \o <<a, b>>
  OBVIOUS
<1>5. /\ r \in Seq(S) /\ Len(r) = n + 2
      /\ \A k \in 1 .. n : r[k] = l[k]
      /\ r[n + 1] = a /\ r[n + 2] = b
  BY <1>1, <1>2, <1>3, <1>4
<1>6. q = r \o <<t>>
  BY <1>1, <1>4
<1>7. /\ q \in Seq(S) /\ Len(q) = n + 3
      /\ \A k \in 1 .. n + 2 : q[k] = r[k]
      /\ q[n + 3] = t
  BY <1>2, <1>5, <1>6
<1>8. /\ \A k \in 0 .. n - 1 : k + 1 \in 1 .. n /\ k + 1 \in 1 .. n + 2
      /\ n + 1 \in 1 .. n + 2 /\ n + 2 \in 1 .. n + 2 /\ (n + 1) + 1 = n + 2 /\ (n + 2) + 1 = n + 3
  OBVIOUS
<1>9. \A k \in 0 .. n - 1 : LineAt(G, k) = LineAt(F, k)
  BY <1>1, <1>5, <1>7, <1>8 DEF LineAt
<1>10. LineAt(G, n) = a /\ LineAt(G, n + 1) = b /\ LineAt(G, n + 2) = t
  BY <1>1, <1>5, <1>7, <1>8 DEF LineAt
<1> QED BY <1>1, <1>3, <1>7, <1>9, <1>10 DEF ThreeMore

\* The first n lines of the text, loaded.
Cut(text, F, n) ==
  /\ InThrees(text, F) /\ LabelsLead(F) /\ Ends(text, n, Len(F.lines))
  /\ \A k \in 1 .. n : /\ text[k].op = "begin" => text[k].name \in DOMAIN F.begin
                       /\ text[k].op = "end" => text[k].name \in DOMAIN F.end

\* No line of a text is loaded to the empty file.
LEMMA CutEmpty ==
  ASSUME NEW text
  PROVE  Cut(text, EmptyFile, 0)
<1>1. /\ EmptyFile.lines = << >> /\ EmptyFile.goto = << >> /\ EmptyFile.come = << >>
      /\ EmptyFile.begin = << >> /\ EmptyFile.end = << >>
  BY DEF EmptyFile
<1>2. Len(<< >>) = 0 /\ DOMAIN << >> = {}
  OBVIOUS
<1>3. \A S : << >> \in Seq(S)
  OBVIOUS
<1>4. InThrees(text, EmptyFile)
  BY <1>1, <1>2, <1>3 DEF InThrees
<1>5. LabelsLead(EmptyFile)
  BY <1>1, <1>2 DEF LabelsLead, Leads, LeadsTo
<1>6. Ends(text, 0, 0)
  BY DEF Ends
<1> QED BY <1>1, <1>2, <1>4, <1>5, <1>6 DEF Cut

\* Labels lead where they led when lines are added behind.
Longer(F, G) ==
  /\ Len(F.lines) <= Len(G.lines)
  /\ \A k \in 0 .. Len(F.lines) - 1 : LineAt(G, k) = LineAt(F, k)

\* Labels noted at the line that has them lead there, like the older ones.
LEMMA StillLeads ==
  ASSUME NEW F, NEW G, Len(F.lines) \in Nat, Len(G.lines) \in Nat, Longer(F, G),
         NEW old, NEW op, Leads(F, old, op),
         NEW S, NEW n \in 0 .. Len(G.lines) - 1,
         LineAt(G, n).op = op, S \subseteq {LineAt(G, n).l, LineAt(G, n).m}
  PROVE  Leads(G, Entered(old, S, n), op)
<1> DEFINE new == Entered(old, S, n)
<1> SUFFICES ASSUME NEW l \in DOMAIN new
             PROVE  /\ new[l] \in 0 .. Len(G.lines) - 1
                    /\ LineAt(G, new[l]).op = op
                    /\ l \in {LineAt(G, new[l]).l, LineAt(G, new[l]).m}
  BY DEF Leads
<1>1. CASE l \in S
  <2>1. new[l] = n
    BY <1>1 DEF Entered
  <2> QED BY <1>1, <2>1
<1>2. CASE l \notin S
  <2>1. new[l] = old[l] /\ l \in DOMAIN old
    BY <1>2 DEF Entered
  <2> QED BY <2>1 DEF Leads, Longer
<1> QED BY <1>1, <1>2

\* A name noted at the line that has it leads there, like the older ones.
LEMMA StillLeadsTo ==
  ASSUME NEW F, NEW G, Len(F.lines) \in Nat, Len(G.lines) \in Nat, Longer(F, G),
         NEW old, NEW op, LeadsTo(F, old, op),
         NEW name, NEW n \in 0 .. Len(G.lines) - 1,
         LineAt(G, n).op = op, name = LineAt(G, n).name
  PROVE  LeadsTo(G, Entered(old, {name}, n), op)
<1> DEFINE new == Entered(old, {name}, n)
<1> SUFFICES ASSUME NEW x \in DOMAIN new
             PROVE  /\ new[x] \in 0 .. Len(G.lines) - 1
                    /\ LineAt(G, new[x]).op = op
                    /\ LineAt(G, new[x]).name = x
  BY DEF LeadsTo
<1>1. CASE x = name
  <2>1. new[x] = n
    BY <1>1 DEF Entered
  <2> QED BY <1>1, <2>1
<1>2. CASE x # name
  <2>1. new[x] = old[x] /\ x \in DOMAIN old
    BY <1>2 DEF Entered
  <2> QED BY <2>1 DEF LeadsTo, Longer
<1> QED BY <1>1, <1>2

\* Labels and names lead where they led when nothing is noted.
LEMMA LeadsOn ==
  ASSUME NEW F, NEW G, Len(F.lines) \in Nat, Len(G.lines) \in Nat, Longer(F, G), NEW old, NEW op
  PROVE  (Leads(F, old, op) => Leads(G, old, op)) /\ (LeadsTo(F, old, op) => LeadsTo(G, old, op))
BY DEF Leads, LeadsTo, Longer

\* The padding of a line is none or a pair.
LEMMA EmptyPair == Len(<< >>) # 2 /\ \A a, b : Len(<<a, b>>) = 2 /\ << >> # <<a, b>>
OBVIOUS

\* The tables of G, which is F with line t added.
Tables(F, G, t, n, s) ==
  /\ G.lines = F.lines \o Padding(n, s, t) \o <<t>>
  /\ G.begin = IF t.op = "begin" THEN Entered(F.begin, {t.name}, n) ELSE F.begin
  /\ G.end = IF t.op = "end" THEN Entered(F.end, {t.name}, n) ELSE F.end
  /\ Padding(n, s, t) = << >> =>
       /\ G.goto = IF t.op = "->" THEN Entered(F.goto, {t.l, t.m}, n) ELSE F.goto
       /\ G.come = IF t.op = "<-" THEN Entered(F.come, {t.l, t.m}, n) ELSE F.come
  /\ Padding(n, s, t) = <<Goto(s), Come(s)>> /\ t.op \notin {"->", "<-"} =>
       /\ G.goto = Entered(F.goto, {s}, n)
       /\ G.come = Entered(F.come, {s}, n + 1)

\* AddLine, case by case.
LEMMA TablesAdded ==
  ASSUME NEW F, NEW t
  PROVE  Tables(F, AddLine(F, t), t, Len(F.lines), NewLabel(Len(F.lines)))
<1>0. PICK n, s, G : n = Len(F.lines) /\ s = NewLabel(n) /\ G = AddLine(F, t)
  OBVIOUS
<1>1. PICK pad : pad = Padding(n, s, t)
  OBVIOUS
<1>2. PICK goto, come : /\ goto = IF t.op = "->" THEN Entered(F.goto, {t.l, t.m}, n) ELSE F.goto
                        /\ come = IF t.op = "<-" THEN Entered(F.come, {t.l, t.m}, n) ELSE F.come
  OBVIOUS
<1>3. PICK new : new = IF Len(pad) = 2 THEN RegisterNewLabel([goto |-> goto, come |-> come], s, n)
                       ELSE [goto |-> goto, come |-> come]
  OBVIOUS
<1>4. /\ G.lines = F.lines \o pad \o <<t>>
      /\ G.goto = new.goto /\ G.come = new.come
      /\ G.begin = IF t.op = "begin" THEN Entered(F.begin, {t.name}, n) ELSE F.begin
      /\ G.end = IF t.op = "end" THEN Entered(F.end, {t.name}, n) ELSE F.end
  BY <1>0, <1>1, <1>2, <1>3 DEF AddLine
<1>5. ASSUME pad = << >> PROVE Tables(F, G, t, n, s)
  <2>1. Len(pad) # 2
    BY <1>5, EmptyPair, Zenon
  <2>2. G.goto = goto /\ G.come = come
    BY <1>3, <1>4, <2>1
  <2>3. << >> # <<Goto(s), Come(s)>>
    BY EmptyPair, Zenon
  <2> QED BY <1>1, <1>2, <1>4, <1>5, <2>2, <2>3 DEF Tables
<1>6. ASSUME pad # << >> PROVE Tables(F, G, t, n, s)
  <2>1. ASSUME pad = <<Goto(s), Come(s)>>, t.op \notin {"->", "<-"}
        PROVE  G.goto = Entered(F.goto, {s}, n) /\ G.come = Entered(F.come, {s}, n + 1)
    <3>1. Len(pad) = 2
      BY <2>1, EmptyPair, Zenon
    <3>2. goto = F.goto /\ come = F.come
      BY <1>2, <2>1
    <3> QED BY <1>3, <1>4, <3>1, <3>2 DEF RegisterNewLabel
  <2> QED BY <1>1, <1>4, <1>6, <2>1 DEF Tables
<1>7. Tables(F, G, t, n, s)
  BY <1>5, <1>6
<1> QED BY <1>0, <1>7

\* Counting by threes.
LEMMA Threes ==
  \A n \in Nat :
    /\ n % 3 \in {0, 1, 2}
    /\ n % 3 = 0 => (n + 1) % 3 = 1 /\ (n + 2) % 3 = 2 /\ (n + 3) % 3 = 0
    /\ n % 3 = 1 => (n + 1) % 3 = 2 /\ (n + 2) % 3 = 0 /\ (n + 3) % 3 = 1
    /\ n % 3 = 2 => (n + 1) % 3 = 0 /\ (n + 2) % 3 = 1 /\ (n + 3) % 3 = 2
OBVIOUS

\* The jump that the loader makes up has its label at both ends.
LEMMA AddedLabel ==
  ASSUME NEW s
  PROVE  /\ Goto(s).op = "->" /\ Goto(s).l = s /\ Goto(s).m = s
         /\ Come(s).op = "<-" /\ Come(s).l = s /\ Come(s).m = s
         /\ IsExit(Goto(s)) /\ ~IsEntry(Goto(s)) /\ IsEntry(Come(s)) /\ ~IsExit(Come(s))
BY DEF Goto, Come, Branch, Merge, IsExit, IsEntry

\* No line is both an entry and an exit.
LEMMA EntryOrExit ==
  ASSUME NEW t
  PROVE  /\ ~(IsEntry(t) /\ IsExit(t))
         /\ t.op = "begin" \/ t.op = "<-" <=> IsEntry(t)
         /\ t.op = "end" \/ t.op = "->" <=> IsExit(t)
BY DEF IsEntry, IsExit

\* A line of the text that fits is put behind the others.
LEMMA CutFits ==
  ASSUME NEW text, NEW m \in Nat, NEW F, Cut(text, F, m), m + 1 \in DOMAIN text,
         NEW t, t = text[m + 1], Padding(Len(F.lines), NewLabel(Len(F.lines)), t) = << >>,
         IsEntry(t) <=> Len(F.lines) % 3 = 0, IsExit(t) <=> Len(F.lines) % 3 = 2,
         NEW G, G = AddLine(F, t)
  PROVE  Cut(text, G, m + 1)
<1> DEFINE S == TextLines(text) \cup AddedLines
<1>1. F.lines \in Seq(S) /\ t \in TextLines(text) /\ t \in S
  BY DEF Cut, InThrees, TextLines
<1>2. /\ G.lines = F.lines \o << >> \o <<t>>
      /\ G.begin = IF t.op = "begin" THEN Entered(F.begin, {t.name}, Len(F.lines)) ELSE F.begin
      /\ G.end = IF t.op = "end" THEN Entered(F.end, {t.name}, Len(F.lines)) ELSE F.end
      /\ G.goto = IF t.op = "->" THEN Entered(F.goto, {t.l, t.m}, Len(F.lines)) ELSE F.goto
      /\ G.come = IF t.op = "<-" THEN Entered(F.come, {t.l, t.m}, Len(F.lines)) ELSE F.come
  <2>1. Padding(Len(F.lines), NewLabel(Len(F.lines)), t) = << >>
    OBVIOUS
  <2>2. Tables(F, G, t, Len(F.lines), NewLabel(Len(F.lines)))
    BY TablesAdded
  <2> QED BY <2>1, <2>2 DEF Tables
<1> HIDE DEF S
<1>3. PICK n \in Nat :
        /\ n = Len(F.lines) /\ G.lines \in Seq(S) /\ Len(G.lines) = n + 1
        /\ \A k \in 0 .. n - 1 : LineAt(G, k) = LineAt(F, k)
        /\ LineAt(G, n) = t
  <2>1. G.lines = F.lines \o << >> \o <<t>> /\ F.lines \in Seq(S) /\ t \in S
    BY <1>1, <1>2
  <2>2. OneMore(S, F, G, t)
    BY <2>1, OneLine, Zenon
  <2> QED BY <2>2 DEF OneMore
<1>4. Longer(F, G) /\ n \in 0 .. Len(G.lines) - 1 /\ Len(F.lines) \in Nat /\ Len(G.lines) \in Nat
  BY <1>3 DEF Longer
<1>5. InThrees(text, G)
  <2> SUFFICES ASSUME NEW k \in 0 .. Len(G.lines) - 1
               PROVE  /\ IsEntry(LineAt(G, k)) <=> k % 3 = 0
                      /\ IsExit(LineAt(G, k)) <=> k % 3 = 2
                      /\ k % 3 = 1 => LineAt(G, k) \in TextLines(text)
    BY <1>3 DEF InThrees, S
  <2>1. CASE k = n
    BY <1>1, <1>3, <2>1
  <2>2. CASE k # n
    <3>1. k \in 0 .. Len(F.lines) - 1 /\ LineAt(G, k) = LineAt(F, k)
      BY <1>3, <2>2
    <3> QED BY <3>1 DEF Cut, InThrees
  <2> QED BY <2>1, <2>2
<1>6. Leads(F, F.goto, "->") /\ Leads(F, F.come, "<-")
      /\ LeadsTo(F, F.begin, "begin") /\ LeadsTo(F, F.end, "end")
  BY DEF Cut, LabelsLead
<1>7. Leads(G, G.goto, "->")
  <2>1. CASE t.op = "->"
    <3>1. G.goto = Entered(F.goto, {t.l, t.m}, n)
      BY <1>2, <1>3, <2>1
    <3> QED BY <1>3, <1>4, <1>6, <2>1, <3>1, StillLeads
  <2>2. CASE t.op # "->"
    BY <1>2, <1>4, <1>6, <2>2, LeadsOn
  <2> QED BY <2>1, <2>2
<1>8. Leads(G, G.come, "<-")
  <2>1. CASE t.op = "<-"
    <3>1. G.come = Entered(F.come, {t.l, t.m}, n)
      BY <1>2, <1>3, <2>1
    <3> QED BY <1>3, <1>4, <1>6, <2>1, <3>1, StillLeads
  <2>2. CASE t.op # "<-"
    BY <1>2, <1>4, <1>6, <2>2, LeadsOn
  <2> QED BY <2>1, <2>2
<1>9. LeadsTo(G, G.begin, "begin")
  <2>1. CASE t.op = "begin"
    <3>1. PICK name : name = t.name
      OBVIOUS
    <3>2. G.begin = Entered(F.begin, {name}, n) /\ LineAt(G, n).op = "begin" /\ name = LineAt(G, n).name
      BY <1>2, <1>3, <2>1, <3>1
    <3>3. LeadsTo(G, Entered(F.begin, {name}, n), "begin")
      BY <1>4, <1>6, <3>2, StillLeadsTo
    <3> QED BY <3>2, <3>3
  <2>2. CASE t.op # "begin"
    BY <1>2, <1>4, <1>6, <2>2, LeadsOn
  <2> QED BY <2>1, <2>2
<1>10. LeadsTo(G, G.end, "end")
  <2>1. CASE t.op = "end"
    <3>1. PICK name : name = t.name
      OBVIOUS
    <3>2. G.end = Entered(F.end, {name}, n) /\ LineAt(G, n).op = "end" /\ name = LineAt(G, n).name
      BY <1>2, <1>3, <2>1, <3>1
    <3>3. LeadsTo(G, Entered(F.end, {name}, n), "end")
      BY <1>4, <1>6, <3>2, StillLeadsTo
    <3> QED BY <3>2, <3>3
  <2>2. CASE t.op # "end"
    BY <1>2, <1>4, <1>6, <2>2, LeadsOn
  <2> QED BY <2>1, <2>2
<1>11. Ends(text, m + 1, Len(G.lines))
  <2>1. ~(IsEntry(t) /\ IsExit(t)) /\ m + 1 # 0
    BY EntryOrExit
  <2>2. (n + 1) % 3 = IF IsExit(t) THEN 0 ELSE IF IsEntry(t) THEN 1 ELSE 2
    BY <1>3, <2>1, Threes
  <2> QED BY <1>3, <2>1, <2>2 DEF Ends
<1>12. ASSUME NEW k \in 1 .. m + 1
       PROVE  /\ text[k].op = "begin" => text[k].name \in DOMAIN G.begin
              /\ text[k].op = "end" => text[k].name \in DOMAIN G.end
  <2>1. DOMAIN F.begin \subseteq DOMAIN G.begin /\ DOMAIN F.end \subseteq DOMAIN G.end
    BY <1>2 DEF Entered
  <2>2. CASE k = m + 1
    BY <1>2, <2>2 DEF Entered
  <2>3. CASE k # m + 1
    <3>1. k \in 1 .. m
      BY <2>3
    <3> QED BY <2>1, <3>1 DEF Cut
  <2> QED BY <2>2, <2>3
<1> QED BY <1>5, <1>7, <1>8, <1>9, <1>10, <1>11, <1>12 DEF Cut, LabelsLead

\* An instruction behind an instruction begins a block of its own.
LEMMA CutBetween ==
  ASSUME NEW text, NEW m \in Nat, NEW F, Cut(text, F, m), m + 1 \in DOMAIN text,
         NEW t, t = text[m + 1], ~IsEntry(t), ~IsExit(t), Len(F.lines) % 3 = 2,
         NEW G, G = AddLine(F, t)
  PROVE  Cut(text, G, m + 1)
<1> DEFINE S == TextLines(text) \cup AddedLines
<1>1. F.lines \in Seq(S) /\ t \in TextLines(text) /\ t \in S
  BY DEF Cut, InThrees, TextLines
<1>2. PICK n \in Nat : n = Len(F.lines)
  BY <1>1
<1>3. PICK s : s = NewLabel(n)
  OBVIOUS
<1>4. Padding(n, s, t) = <<Goto(s), Come(s)>>
  BY <1>2 DEF Padding
<1>5. t.op \notin {"->", "<-", "begin", "end"}
  BY DEF IsEntry, IsExit
<1>6. /\ G.lines = F.lines \o <<Goto(s), Come(s)>> \o <<t>>
      /\ G.begin = F.begin /\ G.end = F.end
      /\ G.goto = Entered(F.goto, {s}, n) /\ G.come = Entered(F.come, {s}, n + 1)
  <2>1. Tables(F, G, t, Len(F.lines), NewLabel(Len(F.lines)))
    BY TablesAdded
  <2>2. Tables(F, G, t, n, s)
    BY <1>2, <1>3, <2>1
  <2> QED BY <1>4, <1>5, <2>2 DEF Tables
<1>7. Goto(s) \in S /\ Come(s) \in S
  BY <1>3 DEF AddedLines
<1> HIDE DEF S
<1>8. PICK a, b : a = Goto(s) /\ b = Come(s)
  OBVIOUS
<1>9. /\ a.op = "->" /\ a.l = s /\ a.m = s /\ IsExit(a) /\ ~IsEntry(a)
      /\ b.op = "<-" /\ b.l = s /\ b.m = s /\ IsEntry(b) /\ ~IsExit(b)
  BY <1>8, AddedLabel
<1>10. /\ G.lines \in Seq(S) /\ Len(G.lines) = n + 3
       /\ \A k \in 0 .. n - 1 : LineAt(G, k) = LineAt(F, k)
       /\ LineAt(G, n) = a /\ LineAt(G, n + 1) = b /\ LineAt(G, n + 2) = t
  <2>1. G.lines = F.lines \o <<a, b>> \o <<t>> /\ a \in S /\ b \in S
    BY <1>6, <1>7, <1>8
  <2>2. ThreeMore(S, F, G, a, b, t)
    BY <1>1, <2>1, ThreeLines, Zenon
  <2> QED BY <1>2, <2>2 DEF ThreeMore
<1>11. /\ Longer(F, G) /\ n \in 0 .. Len(G.lines) - 1 /\ n + 1 \in 0 .. Len(G.lines) - 1
       /\ Len(F.lines) \in Nat /\ Len(G.lines) \in Nat
  BY <1>2, <1>10 DEF Longer
<1>12. InThrees(text, G)
  <2> SUFFICES ASSUME NEW k \in 0 .. Len(G.lines) - 1
               PROVE  /\ IsEntry(LineAt(G, k)) <=> k % 3 = 0
                      /\ IsExit(LineAt(G, k)) <=> k % 3 = 2
                      /\ k % 3 = 1 => LineAt(G, k) \in TextLines(text)
    BY <1>10 DEF InThrees, S
  <2>1. n % 3 = 2 /\ (n + 1) % 3 = 0 /\ (n + 2) % 3 = 1
    BY <1>2, Threes
  <2>2. CASE k \in {n, n + 1, n + 2}
    BY <1>1, <1>9, <1>10, <2>1, <2>2
  <2>3. CASE k \notin {n, n + 1, n + 2}
    <3>1. k \in 0 .. n - 1
      BY <1>10, <2>3
    <3>2. k \in 0 .. Len(F.lines) - 1 /\ LineAt(G, k) = LineAt(F, k)
      BY <1>2, <1>10, <3>1
    <3> QED BY <3>2 DEF Cut, InThrees
  <2> QED BY <2>2, <2>3
<1>13. Leads(F, F.goto, "->") /\ Leads(F, F.come, "<-")
       /\ LeadsTo(F, F.begin, "begin") /\ LeadsTo(F, F.end, "end")
  BY DEF Cut, LabelsLead
<1>14. Leads(G, G.goto, "->")
  <2>1. {s} \subseteq {LineAt(G, n).l, LineAt(G, n).m} /\ LineAt(G, n).op = "->"
    BY <1>9, <1>10
  <2>2. Leads(G, Entered(F.goto, {s}, n), "->")
    BY <1>11, <1>13, <2>1, StillLeads
  <2> QED BY <1>6, <2>2
<1>15. Leads(G, G.come, "<-")
  <2>1. {s} \subseteq {LineAt(G, n + 1).l, LineAt(G, n + 1).m} /\ LineAt(G, n + 1).op = "<-"
    BY <1>9, <1>10
  <2>2. Leads(G, Entered(F.come, {s}, n + 1), "<-")
    BY <1>11, <1>13, <2>1, StillLeads
  <2> QED BY <1>6, <2>2
<1>16. LeadsTo(G, G.begin, "begin") /\ LeadsTo(G, G.end, "end")
  BY <1>6, <1>11, <1>13, LeadsOn
<1>17. Ends(text, m + 1, Len(G.lines))
  <2>1. (n + 3) % 3 = 2
    BY <1>2, Threes
  <2>2. m + 1 # 0
    OBVIOUS
  <2> QED BY <1>10, <2>1, <2>2 DEF Ends
<1>18. ASSUME NEW k \in 1 .. m + 1
       PROVE  /\ text[k].op = "begin" => text[k].name \in DOMAIN G.begin
              /\ text[k].op = "end" => text[k].name \in DOMAIN G.end
  <2>1. CASE k = m + 1
    BY <1>5, <2>1
  <2>2. CASE k # m + 1
    <3>1. k \in 1 .. m
      BY <2>2
    <3> QED BY <1>6, <3>1 DEF Cut
  <2> QED BY <2>1, <2>2
<1> QED BY <1>12, <1>14, <1>15, <1>16, <1>17, <1>18 DEF Cut, LabelsLead

-----------------------------------------------------------------------------
(* The loader, on a text that is in blocks *)

\* The text has the procedure called name.
HasProc(text, name) ==
  /\ \E n \in DOMAIN text : text[n].op = "begin" /\ text[n].name = name
  /\ \E n \in DOMAIN text : text[n].op = "end" /\ text[n].name = name

\* What a text in blocks is, for each of its lines.
LEMMA BlocksOfText ==
  ASSUME NEW text, InBlocks(text)
  PROVE  /\ Len(text) \in Nat /\ Len(text) > 0 /\ DOMAIN text = 1 .. Len(text)
         /\ \A n \in DOMAIN text : "op" \in DOMAIN text[n]
         /\ \A n \in DOMAIN text : IsEntry(text[n]) <=> (n = 1 \/ IsExit(text[n - 1]))
         /\ \A n \in DOMAIN text : IsExit(text[n]) => n > 1 /\ ~IsEntry(text[n - 1])
         /\ IsExit(text[Len(text)])
         /\ HasProc(text, "main")
         /\ \A n \in DOMAIN text : text[n].op = "call" =>
              /\ \E S : text[n].procs \in Seq(S)
              /\ \A i \in DOMAIN text[n].procs : HasProc(text, text[n].procs[i])
<1>1. PICK S : S = {text[n] : n \in DOMAIN text} /\ text \in Seq(S) /\ text # << >>
  BY DEF InBlocks
<1>2. Len(text) \in Nat /\ DOMAIN text = 1 .. Len(text) /\ Len(text) > 0
  BY <1>1
<1>3. \A n \in DOMAIN text : text[n] \in S
  BY <1>1
<1>4. /\ \A t \in S : "op" \in DOMAIN t
      /\ \A t \in S : t.op = "call" =>
           /\ \E T : t.procs \in Seq(T)
           /\ \A i \in DOMAIN t.procs : /\ \E b \in S : b.op = "begin" /\ b.name = t.procs[i]
                                        /\ \E b \in S : b.op = "end" /\ b.name = t.procs[i]
      /\ \E b \in S : b.op = "begin" /\ b.name = "main"
      /\ \E b \in S : b.op = "end" /\ b.name = "main"
  <2>1. \A t \in S : "op" \in DOMAIN t
    BY <1>1, Zenon DEF InBlocks
  <2>2. /\ \E b \in S : b.op = "begin" /\ b.name = "main"
        /\ \E b \in S : b.op = "end" /\ b.name = "main"
    BY <1>1, Zenon DEF InBlocks
  <2>3. ASSUME NEW t \in S, t.op = "call"
        PROVE  /\ \E T : t.procs \in Seq(T)
               /\ \A i \in DOMAIN t.procs : /\ \E b \in S : b.op = "begin" /\ b.name = t.procs[i]
                                            /\ \E b \in S : b.op = "end" /\ b.name = t.procs[i]
    <3>1. t.procs \in Seq({t.procs[i] : i \in DOMAIN t.procs})
      BY <1>1, <2>3, Zenon DEF InBlocks
    <3>2. ASSUME NEW i \in DOMAIN t.procs
          PROVE  /\ \E b \in S : b.op = "begin" /\ b.name = t.procs[i]
                 /\ \E b \in S : b.op = "end" /\ b.name = t.procs[i]
      BY <1>1, <2>3, <3>2, Zenon DEF InBlocks
    <3> QED BY <3>1, <3>2
  <2> QED BY <2>1, <2>2, <2>3
<1>5. ASSUME NEW name, \E b \in S : b.op = "begin" /\ b.name = name,
             \E b \in S : b.op = "end" /\ b.name = name
      PROVE  HasProc(text, name)
  BY <1>1, <1>5, Zenon DEF HasProc
<1>6. /\ \A n \in DOMAIN text : IsEntry(text[n]) <=> (n = 1 \/ IsExit(text[n - 1]))
      /\ \A n \in DOMAIN text : IsExit(text[n]) => n > 1 /\ ~IsEntry(text[n - 1])
      /\ IsExit(text[Len(text)])
  BY DEF InBlocks
<1>7. HasProc(text, "main")
  BY <1>4, <1>5
<1>8. ASSUME NEW n \in DOMAIN text, text[n].op = "call"
      PROVE  /\ \E T : text[n].procs \in Seq(T)
             /\ \A i \in DOMAIN text[n].procs : HasProc(text, text[n].procs[i])
  BY <1>3, <1>4, <1>5, <1>8
<1> QED BY <1>2, <1>3, <1>4, <1>6, <1>7, <1>8

\* One line more of a text that is in blocks is loaded to one line more in threes.
LEMMA CutStep ==
  ASSUME NEW text, InBlocks(text), NEW m \in 0 .. Len(text) - 1, NEW F, Cut(text, F, m)
  PROVE  Cut(text, AddLine(F, text[m + 1]), m + 1)
<1>1. PICK t, len : t = text[m + 1] /\ len = Len(F.lines)
  OBVIOUS
<1>2. /\ Len(text) \in Nat /\ m \in Nat /\ m + 1 \in DOMAIN text /\ (m + 1) - 1 = m
      /\ m # 0 => m \in DOMAIN text
      /\ m + 1 > 1 <=> m # 0
  BY BlocksOfText
<1>3. /\ IsEntry(t) <=> (m = 0 \/ IsExit(text[m]))
      /\ IsExit(t) => m # 0 /\ ~IsEntry(text[m])
  <2>1. PICK k : k = m + 1 /\ k \in DOMAIN text /\ k - 1 = m /\ (k = 1 <=> m = 0) /\ (k > 1 <=> m # 0)
    BY <1>2
  <2>2. /\ IsEntry(text[k]) <=> (k = 1 \/ IsExit(text[k - 1]))
        /\ IsExit(text[k]) => k > 1 /\ ~IsEntry(text[k - 1])
    BY <2>1, BlocksOfText
  <2> QED BY <1>1, <2>1, <2>2
<1>4. len \in Nat
  BY <1>1 DEF Cut, InThrees
<1>5. len % 3 = IF m = 0 THEN 0 ELSE IF IsExit(text[m]) THEN 0 ELSE IF IsEntry(text[m]) THEN 1 ELSE 2
  BY <1>1 DEF Cut, Ends
<1>6. ~(IsEntry(t) /\ IsExit(t)) /\ (m # 0 => ~(IsEntry(text[m]) /\ IsExit(text[m])))
  BY EntryOrExit
<1>7. IsEntry(t) <=> len % 3 = 0
  BY <1>3, <1>5
<1>8. IsExit(t) => len % 3 = 2
  BY <1>3, <1>5, <1>6
<1>9. CASE IsExit(t) \/ len % 3 # 2
  <2>1. Padding(len, NewLabel(len), t) = << >>
    BY <1>7, <1>8, <1>9 DEF Padding
  <2>2. IsExit(t) <=> len % 3 = 2
    BY <1>8, <1>9
  <2> QED BY <1>1, <1>2, <1>7, <2>1, <2>2, CutFits
<1>10. CASE ~IsExit(t) /\ len % 3 = 2
  <2>1. ~IsEntry(t)
    BY <1>7, <1>10
  <2> QED BY <1>1, <1>2, <1>10, <2>1, CutBetween
<1> QED BY <1>9, <1>10

\* What the loader makes of a text that is in blocks: a file of threes that has every
\* procedure of the text, and every label leads to the line that bears it.
Loaded(text, F) ==
  /\ InThrees(text, F) /\ LabelsLead(F)
  /\ Len(F.lines) > 0 /\ Len(F.lines) % 3 = 0
  /\ \A name : HasProc(text, name) => name \in DOMAIN F.begin /\ name \in DOMAIN F.end

\* The loader (debug, debugger.go:128) cuts every text that is in blocks into blocks of
\* three lines and notes every label at the line that has it, although it notes labels
\* before it completes the block before them.
THEOREM LoaderCorrect ==
  ASSUME NEW text, InBlocks(text)
  PROVE  Loaded(text, Load(text))
<1>1. PICK len \in Nat : len = Len(text) /\ len > 0
  BY BlocksOfText
<1>2. PICK f : Loading(text, f, len) /\ Load(text) = f[len]
  BY <1>1, LoadIsLoading
<1>3. \A n \in 0 .. len : f[n] = IF n = 0 THEN EmptyFile ELSE AddLine(f[n - 1], text[n])
  BY <1>2 DEF Loading
<1>4. \A n \in 0 .. len : Cut(text, f[n], n)
  <2> DEFINE S == {n \in 0 .. len : ~Cut(text, f[n], n)}
  <2>1. SUFFICES ASSUME S # {} PROVE FALSE
    OBVIOUS
  <2>2. PICK m \in S : \A k \in S : m <= k
    <3>1. S \in SUBSET Nat
      OBVIOUS
    <3> HIDE DEF S
    <3> QED BY <2>1, <3>1, LeastNat
  <2>3. m \in 0 .. len /\ ~Cut(text, f[m], m)
    OBVIOUS
  <2>4. m # 0
    <3>1. f[0] = EmptyFile
      BY <1>3
    <3> QED BY <2>3, <3>1, CutEmpty
  <2>5. PICK l \in 0 .. len - 1 : m = l + 1
    <3>1. m - 1 \in 0 .. len - 1 /\ m = (m - 1) + 1
      BY <2>3, <2>4
    <3> QED BY <3>1
  <2>6. Cut(text, f[l], l)
    <3>1. ~(m <= l) /\ l \in 0 .. len
      BY <2>5
    <3>2. l \notin S
      BY <2>2, <3>1
    <3> QED BY <3>1, <3>2
  <2>7. f[m] = AddLine(f[l], text[l + 1])
    <3>1. m - 1 = l /\ m # 0
      BY <2>5
    <3> QED BY <1>3, <2>3, <2>5, <3>1
  <2> QED BY <1>1, <2>3, <2>5, <2>6, <2>7, CutStep
<1>5. PICK F : F = Load(text) /\ Cut(text, F, len)
  BY <1>2, <1>4
<1>6. IsExit(text[len]) /\ DOMAIN text = 1 .. len
  BY <1>1, BlocksOfText
<1>7. Len(F.lines) \in Nat /\ Len(F.lines) % 3 = 0
  <2>1. Len(F.lines) \in Nat
    BY <1>5 DEF Cut, InThrees
  <2>2. len # 0 /\ Ends(text, len, Len(F.lines))
    BY <1>1, <1>5 DEF Cut
  <2> QED BY <1>6, <2>1, <2>2 DEF Ends
<1>8. \A name : HasProc(text, name) => name \in DOMAIN F.begin /\ name \in DOMAIN F.end
  BY <1>5, <1>6 DEF Cut, HasProc
<1>9. Len(F.lines) > 0
  <2>1. HasProc(text, "main")
    BY BlocksOfText
  <2>2. "main" \in DOMAIN F.begin
    BY <1>8, <2>1
  <2>3. F.begin["main"] \in 0 .. Len(F.lines) - 1
    BY <1>5, <2>2 DEF Cut, LabelsLead, LeadsTo
  <2> QED BY <1>7, <2>3
<1> QED BY <1>5, <1>7, <1>8, <1>9 DEF Loaded, Cut

-----------------------------------------------------------------------------
(* The machine *)

\* The file is what the text in hand is loaded to.
FileOk == InBlocks(Lines(code)) /\ Loaded(Lines(code), file)

\* There is a block where p goes on: behind its head, or before it.
AtBlock(p) ==
  head[p] % 3 = 0 /\ IF rev THEN 3 <= head[p] ELSE head[p] + 3 <= Len(file.lines)

\* Who runs is at a block, and who runs has been called by somebody who waits.
MachInv ==
  /\ FileOk /\ rev \in BOOLEAN
  /\ head \in [Proc -> 0 .. Len(file.lines)]
  /\ running \subseteq Proc /\ waiting \subseteq running
  /\ \A p \in running : AtBlock(p)
  /\ \A p \in running \ {Root} : Front(p) \in waiting /\ p \in Children(Front(p))

\* Three lines behind the border of a block there is another border.
LEMMA ThreesFit ==
  \A k, n \in Nat : n % 3 = 0 /\ k < n =>
    /\ k % 3 = 0 => k + 3 <= n
    /\ k % 3 = 2 => (k + 1) % 3 = 0 /\ 3 <= k + 1 /\ k + 1 <= n
OBVIOUS

\* A file of len lines in threes, where labels and names lead to their lines.
FileIs(len) ==
  /\ len = Len(file.lines) /\ len > 0 /\ len % 3 = 0
  /\ \A n \in 0 .. len - 1 : /\ IsEntry(LineAt(file, n)) <=> n % 3 = 0
                             /\ IsExit(LineAt(file, n)) <=> n % 3 = 2
  /\ \A l \in DOMAIN file.goto : file.goto[l] \in 0 .. len - 1 /\ file.goto[l] % 3 = 2
  /\ \A l \in DOMAIN file.come : file.come[l] \in 0 .. len - 1 /\ file.come[l] % 3 = 0
  /\ \A x \in DOMAIN file.begin : file.begin[x] \in 0 .. len - 1 /\ file.begin[x] % 3 = 0
  /\ \A x \in DOMAIN file.end : file.end[x] \in 0 .. len - 1 /\ file.end[x] % 3 = 2
  /\ "main" \in DOMAIN file.begin /\ "main" \in DOMAIN file.end

\* A file loaded from a text in blocks is in threes, and what it notes is an entry or an exit.
LEMMA FileFacts ==
  ASSUME FileOk
  PROVE  \E len \in Nat : FileIs(len)
<1>1. PICK text : InBlocks(text) /\ Loaded(text, file)
  BY DEF FileOk
<1>2. PICK len \in Nat : len = Len(file.lines) /\ len > 0 /\ len % 3 = 0
  <2>1. PICK S, lines : lines = file.lines /\ lines \in Seq(S)
    BY <1>1 DEF Loaded, InThrees
  <2>2. Len(lines) \in Nat
    BY <2>1
  <2> QED BY <1>1, <2>1, <2>2 DEF Loaded
<1>3. \A n \in 0 .. len - 1 : /\ IsEntry(LineAt(file, n)) <=> n % 3 = 0
                              /\ IsExit(LineAt(file, n)) <=> n % 3 = 2
  BY <1>1, <1>2 DEF Loaded, InThrees
<1>4. ASSUME NEW l \in DOMAIN file.goto
      PROVE  file.goto[l] \in 0 .. len - 1 /\ file.goto[l] % 3 = 2
  <2>1. file.goto[l] \in 0 .. len - 1 /\ LineAt(file, file.goto[l]).op = "->"
    BY <1>1, <1>2 DEF Loaded, LabelsLead, Leads
  <2> QED BY <1>3, <2>1 DEF IsExit
<1>5. ASSUME NEW l \in DOMAIN file.come
      PROVE  file.come[l] \in 0 .. len - 1 /\ file.come[l] % 3 = 0
  <2>1. file.come[l] \in 0 .. len - 1 /\ LineAt(file, file.come[l]).op = "<-"
    BY <1>1, <1>2 DEF Loaded, LabelsLead, Leads
  <2> QED BY <1>3, <2>1 DEF IsEntry
<1>6. ASSUME NEW x \in DOMAIN file.begin
      PROVE  file.begin[x] \in 0 .. len - 1 /\ file.begin[x] % 3 = 0
  <2>1. file.begin[x] \in 0 .. len - 1 /\ LineAt(file, file.begin[x]).op = "begin"
    BY <1>1, <1>2 DEF Loaded, LabelsLead, LeadsTo
  <2> QED BY <1>3, <2>1 DEF IsEntry
<1>7. ASSUME NEW x \in DOMAIN file.end
      PROVE  file.end[x] \in 0 .. len - 1 /\ file.end[x] % 3 = 2
  <2>1. file.end[x] \in 0 .. len - 1 /\ LineAt(file, file.end[x]).op = "end"
    BY <1>1, <1>2 DEF Loaded, LabelsLead, LeadsTo
  <2> QED BY <1>3, <2>1 DEF IsExit
<1>8. "main" \in DOMAIN file.begin /\ "main" \in DOMAIN file.end
  <2>1. HasProc(text, "main")
    BY <1>1, BlocksOfText
  <2> QED BY <1>1, <2>1 DEF Loaded
<1>9. FileIs(len)
  BY <1>2, <1>3, <1>4, <1>5, <1>6, <1>7, <1>8, Zenon DEF FileIs
<1> QED BY <1>9

\* The backward form of a call is the call.
LEMMA BackwardCall ==
  ASSUME NEW i, "op" \in DOMAIN i, Backward(i).op = "call"
  PROVE  i.op = "call" /\ Backward(i) = i
<1>1. ASSUME i.op = "upd" PROVE FALSE
  <2>1. PICK f : f = CASE i.f = "+" -> "-" [] i.f = "-" -> "+" [] i.f = "^" -> "^"
    OBVIOUS
  <2>2. Backward(i) = [i EXCEPT !.f = f]
    BY <1>1, <2>1 DEF Backward
  <2>3. Backward(i).op = i.op
    BY <2>2
  <2> QED BY <1>1, <2>3
<1>2. i.op \notin {"push", "pop", "lock", "unlock", "V", "P", "set", "unset", "setg", "unsetg"}
  BY DEF Backward, Push, Pop, Lock, Unlock, SemV, SemP, Set, Unset, SetGlobal, UnsetGlobal
<1>3. Backward(i) = i
  BY <1>1, <1>2 DEF Backward
<1> QED BY <1>3

\* A call calls procedures that the file has.
LEMMA CallsKnown ==
  ASSUME MachInv, NEW p \in running, Instr(p).op = "call"
  PROVE  /\ \E S : Instr(p).procs \in Seq(S)
         /\ \A i \in DOMAIN Instr(p).procs : /\ Instr(p).procs[i] \in DOMAIN file.begin
                                             /\ Instr(p).procs[i] \in DOMAIN file.end
<1>1. PICK text : InBlocks(text) /\ Loaded(text, file)
  BY DEF MachInv, FileOk
<1>2. PICK len \in Nat : len = Len(file.lines) /\ len % 3 = 0
  BY FileFacts DEF MachInv, FileIs
<1>3. PICK h : h = head[p] /\ h \in 0 .. len /\ AtBlock(p)
  BY <1>2 DEF MachInv
<1>4. PICK n : n = Base(p) + 1 /\ n \in 0 .. len - 1 /\ n % 3 = 1
  <2>1. CASE rev
    <3>1. Base(p) = h - 3 /\ h % 3 = 0 /\ 3 <= h
      BY <1>3, <2>1 DEF Base, AtBlock
    <3>2. (h - 3) + 1 \in 0 .. len - 1 /\ ((h - 3) + 1) % 3 = 1
      BY <1>2, <1>3, <3>1
    <3> QED BY <3>1, <3>2
  <2>2. CASE ~rev
    <3>1. Base(p) = h /\ h % 3 = 0 /\ h + 3 <= len
      BY <1>2, <1>3, <2>2 DEF Base, AtBlock
    <3>2. h + 1 \in 0 .. len - 1 /\ (h + 1) % 3 = 1
      BY <1>2, <1>3, <3>1
    <3> QED BY <3>1, <3>2
  <2> QED BY <2>1, <2>2
<1>5. PICK i : i = LineAt(file, n) /\ i \in TextLines(text)
  BY <1>1, <1>2, <1>4 DEF Loaded, InThrees
<1>6. PICK k \in DOMAIN text : i = text[k]
  BY <1>5 DEF TextLines
<1>7. "op" \in DOMAIN i
  BY <1>1, <1>6, BlocksOfText
<1>8. Instr(p) = i /\ i.op = "call"
  BY <1>4, <1>5, <1>7, BackwardCall DEF Instr
<1>9. /\ \E S : i.procs \in Seq(S)
      /\ \A j \in DOMAIN i.procs : HasProc(text, i.procs[j])
  BY <1>1, <1>6, <1>8, BlocksOfText
<1> QED BY <1>1, <1>8, <1>9 DEF Loaded

\* A child is called by its parent, whose place is the longer by one.
LEMMA ChildOf ==
  ASSUME NEW p \in Seq(Nat), NEW i \in Nat
  PROVE  /\ ChildPC(p, i) \in Seq(Nat) \ {Root}
         /\ Front(ChildPC(p, i)) = p /\ Last(ChildPC(p, i)) = i
         /\ ChildPC(p, i) # p
<1>1. PICK c : c = Append(p, i)
  OBVIOUS
<1>2. PICK n \in Nat : n = Len(p)
  OBVIOUS
<1>3. c \in Seq(Nat) /\ Len(c) = n + 1 /\ (\A k \in 1 .. n : c[k] = p[k]) /\ c[n + 1] = i
  BY <1>1, <1>2
<1>4. Last(c) = i
  BY <1>3 DEF Last
<1>5. PICK f : f = SubSeq(c, 1, n)
  OBVIOUS
<1>6. f = p
  <2>1. f \in Seq(Nat) /\ Len(f) = n /\ \A k \in 1 .. n : f[k] = c[k]
    BY <1>3, <1>5
  <2>2. \A k \in 1 .. n : f[k] = p[k]
    BY <1>3, <2>1
  <2> QED BY <1>2, <2>1, <2>2, SeqEqual
<1>7. Front(c) = p
  BY <1>3, <1>5, <1>6 DEF Front
<1>8. c # << >> /\ c # p
  BY <1>2, <1>3
<1> QED BY <1>1, <1>3, <1>4, <1>7, <1>8 DEF ChildPC, Root

\* A process other than the root is longer than its parent.
LEMMA ParentShorter ==
  ASSUME NEW c \in Seq(Nat), c # Root
  PROVE  Len(c) \in Nat /\ Len(Front(c)) \in Nat /\ Len(Front(c)) < Len(c)
<1>1. PICK n \in Nat : n = Len(c) /\ n # 0
  BY DEF Root
<1>2. PICK f : f = SubSeq(c, 1, n - 1)
  OBVIOUS
<1>3. Len(f) = n - 1
  BY <1>1, <1>2
<1> QED BY <1>1, <1>2, <1>3 DEF Front

\* q has been called by p, by somebody p has called, or further down.
Under(p, q) == Len(p) < Len(q) /\ \A i \in 1 .. Len(p) : q[i] = p[i]

\* Who is under p, but is not its child, has a parent under p.
LEMMA UnderParent ==
  ASSUME NEW p \in Seq(Nat), NEW q \in Seq(Nat), Under(p, q), Front(q) # p
  PROVE  Under(p, Front(q))
<1>1. PICK m, n \in Nat : m = Len(p) /\ n = Len(q) /\ m < n
  BY DEF Under
<1>2. PICK f : f = SubSeq(q, 1, n - 1)
  OBVIOUS
<1>3. f \in Seq(Nat) /\ Len(f) = n - 1 /\ \A i \in 1 .. n - 1 : f[i] = q[i]
  BY <1>1, <1>2
<1>4. f = Front(q)
  BY <1>1, <1>2 DEF Front
<1>5. \A i \in 1 .. m : f[i] = p[i]
  BY <1>1, <1>3 DEF Under
<1>6. m # n - 1
  <2>1. SUFFICES ASSUME m = n - 1 PROVE f = p
    BY <1>4
  <2> QED BY <1>1, <1>3, <1>5, <2>1, SeqEqual
<1>7. m < n - 1
  BY <1>1, <1>6
<1> QED BY <1>1, <1>3, <1>4, <1>5, <1>7 DEF Under

\* Nobody runs under a process that does not wait.
LEMMA NobodyUnder ==
  ASSUME MachInv, NEW p \in Proc, p \notin waiting, NEW q \in running
  PROVE  ~Under(p, q)
<1> DEFINE S == {n \in Nat : \E c \in running : Under(p, c) /\ Len(c) = n}
<1>1. SUFFICES ASSUME Under(p, q) PROVE FALSE
  OBVIOUS
<1>2. p \in Seq(Nat) /\ \A c \in running : c \in Seq(Nat) /\ (c # Root => Front(c) \in waiting)
  BY ProcAssumption DEF MachInv
<1>3. S \in SUBSET Nat /\ S # {}
  <2>1. Len(q) \in Nat
    BY <1>2
  <2> QED BY <1>1, <2>1
<1>4. PICK m \in S : \A k \in S : m <= k
  <2> HIDE DEF S
  <2> QED BY <1>3, LeastNat
<1>5. PICK c \in running : Under(p, c) /\ Len(c) = m
  OBVIOUS
<1>6. c # Root
  <2>1. Len(p) \in Nat /\ Len(p) < Len(c)
    BY <1>2, <1>5 DEF Under
  <2>2. Len(c) # 0
    BY <1>2, <1>5, <2>1
  <2> QED BY <2>2 DEF Root
<1>7. Front(c) \in running /\ Front(c) # p
  BY <1>2, <1>5, <1>6 DEF MachInv
<1>8. Under(p, Front(c))
  BY <1>2, <1>5, <1>7, UnderParent
<1>9. Len(Front(c)) \in Nat /\ Len(Front(c)) < m
  BY <1>2, <1>5, <1>6, ParentShorter
<1>10. Len(Front(c)) \in S
  BY <1>7, <1>8, <1>9
<1>11. m <= Len(Front(c)) /\ m \in Nat
  BY <1>4, <1>10
<1> QED BY <1>9, <1>11

\* Nobody runs when the root does not.
LEMMA NobodyLeft ==
  ASSUME MachInv, Root \notin running
  PROVE  running = {} /\ waiting = {}
<1>1. SUFFICES ASSUME NEW q \in running PROVE FALSE
  BY DEF MachInv
<1>2. q \in Seq(Nat) /\ q # Root /\ Root \in Proc /\ Root \notin waiting
  BY ProcAssumption DEF MachInv
<1>3. Len(Root) = 0
  BY DEF Root
<1>4. Len(q) \in Nat /\ Len(q) > 0
  BY <1>2 DEF Root
<1>5. Under(Root, q)
  BY <1>3, <1>4 DEF Under
<1> QED BY <1>2, <1>5, NobodyUnder

-----------------------------------------------------------------------------
(* Steps *)

\* What a process calls depends on where it is.
LEMMA SameChildren ==
  ASSUME NEW q, head'[q] = head[q], rev' = rev, file' = file
  PROVE  Children(q)' = Children(q)
<1>1. Base(q)' = Base(q)
  BY DEF Base
<1>2. Instr(q)' = Instr(q)
  BY <1>1 DEF Instr
<1> QED BY <1>2 DEF Children

\* The block of a process that runs is in the file.
LEMMA BlockOf ==
  ASSUME MachInv, NEW p \in running, NEW len \in Nat, FileIs(len)
  PROVE  /\ Base(p) \in Nat /\ Base(p) % 3 = 0 /\ Base(p) + 3 <= len
         /\ head[p] = IF rev THEN Base(p) + 3 ELSE Base(p)
<1>1. PICK h : h = head[p] /\ h \in 0 .. len /\ h % 3 = 0 /\ IF rev THEN 3 <= h ELSE h + 3 <= len
  BY DEF MachInv, FileIs, AtBlock
<1>2. len % 3 = 0
  BY DEF FileIs
<1>3. 3 <= h => h - 3 \in Nat /\ (h - 3) % 3 = 0 /\ (h - 3) + 3 <= len /\ (h - 3) + 3 = h
  BY <1>1
<1>4. CASE rev
  <2>1. Base(p) = h - 3
    BY <1>1, <1>4 DEF Base
  <2> QED BY <1>1, <1>3, <1>4, <2>1
<1>5. CASE ~rev
  <2>1. Base(p) = h
    BY <1>1, <1>5 DEF Base
  <2> QED BY <1>1, <1>5, <2>1
<1> QED BY <1>4, <1>5

\* Where a block leaves the head: at the next block, if it jumps.
LEMMA HeadMoves ==
  ASSUME MachInv, NEW p \in running, NEW m, NEW len \in Nat, FileIs(len),
         LabelKnown(FinalLine(p))
  PROVE  \E h \in 0 .. len :
           /\ h = HeadAfter(m, p)
           /\ Jumps(FinalLine(p)) => h % 3 = 0 /\ IF rev THEN 3 <= h ELSE h + 3 <= len
<1>1. PICK b \in Nat : b = Base(p) /\ b + 3 <= len
  BY BlockOf
<1>2. PICK t : t = FinalLine(p)
  OBVIOUS
<1>3. len % 3 = 0
  BY DEF FileIs
<1>4. CASE ~Jumps(t)
  <2>1. HeadAfter(m, p) = IF rev THEN b ELSE b + 3
    BY <1>1, <1>2, <1>4 DEF HeadAfter
  <2>2. b \in 0 .. len /\ b + 3 \in 0 .. len
    BY <1>1
  <2> QED BY <1>2, <1>4, <2>1, <2>2
<1>5. CASE Jumps(t) /\ rev
  <2>1. PICK l \in DOMAIN file.goto : HeadAfter(m, p) = file.goto[l] + 1
    BY <1>2, <1>5 DEF HeadAfter, LabelKnown
  <2>2. PICK k \in 0 .. len - 1 : k = file.goto[l] /\ k % 3 = 2
    BY <2>1 DEF FileIs
  <2>3. k + 1 \in 0 .. len /\ (k + 1) % 3 = 0 /\ 3 <= k + 1
    BY <1>3, <2>2, ThreesFit
  <2> QED BY <1>5, <2>1, <2>2, <2>3
<1>6. CASE Jumps(t) /\ ~rev
  <2>1. PICK l \in DOMAIN file.come : HeadAfter(m, p) = file.come[l]
    BY <1>2, <1>6 DEF HeadAfter, LabelKnown
  <2>2. PICK k \in 0 .. len - 1 : k = file.come[l] /\ k % 3 = 0
    BY <2>1 DEF FileIs
  <2>3. k \in 0 .. len /\ k + 3 <= len
    BY <1>3, <2>2, ThreesFit
  <2> QED BY <1>6, <2>1, <2>2, <2>3
<1> QED BY <1>4, <1>5, <1>6

\* A block that nobody the process has called still runs in keeps the invariant.
LEMMA FinishStep ==
  ASSUME MachInv, NEW p \in running, NEW m, NEW legal, Finish(p, m, legal),
         waiting' = waiting \ {p}, \A c \in running \ {Root} : Front(c) # p
  PROVE  MachInv'
<1>1. PICK len \in Nat : FileIs(len)
  BY FileFacts DEF MachInv
<1>2. len = Len(file.lines) /\ head \in [Proc -> 0 .. len] /\ p \in Proc
  BY <1>1 DEF FileIs, MachInv
<1>3. /\ file' = file /\ rev' = rev /\ code' = code /\ FileOk'
      /\ running' \subseteq running /\ (p \in running' => Jumps(FinalLine(p)))
  BY DEF Finish, MachInv, FileOk
<1>4. PICK h \in 0 .. len :
        /\ head' = [head EXCEPT ![p] = h]
        /\ p \in running' => h % 3 = 0 /\ IF rev THEN 3 <= h ELSE h + 3 <= len
  <2>1. CASE panicked'
    <3>1. head' = [head EXCEPT ![p] = head[p]]
      BY <2>1 DEF Finish
    <3>2. head[p] \in 0 .. len /\ head[p] % 3 = 0 /\ IF rev THEN 3 <= head[p] ELSE head[p] + 3 <= len
      BY <1>2 DEF MachInv, AtBlock
    <3> QED BY <3>1, <3>2
  <2>2. CASE ~panicked'
    <3>1. head' = [head EXCEPT ![p] = HeadAfter(m, p)] /\ LabelKnown(FinalLine(p))
      BY <2>2 DEF Finish, BlockPanics
    <3> QED BY <1>1, <1>3, <3>1, HeadMoves
  <2> QED BY <2>1, <2>2
<1>5. head' \in [Proc -> 0 .. len] /\ head'[p] = h /\ \A q \in Proc \ {p} : head'[q] = head[q]
  BY <1>2, <1>4
<1>6. ASSUME NEW q \in running' PROVE AtBlock(q)'
  <2>1. CASE q = p
    BY <1>2, <1>3, <1>4, <1>5, <1>6, <2>1 DEF AtBlock
  <2>2. CASE q # p
    <3>1. q \in running /\ q \in Proc /\ head'[q] = head[q] /\ AtBlock(q)
      BY <1>3, <1>5, <1>6, <2>2 DEF MachInv
    <3> QED BY <1>3, <3>1 DEF AtBlock
  <2> QED BY <2>1, <2>2
<1>7. ASSUME NEW c \in running' \ {Root}
      PROVE  Front(c) \in waiting' /\ c \in Children(Front(c))'
  <2>1. PICK q : q = Front(c)
    OBVIOUS
  <2>2. q \in waiting /\ c \in Children(q) /\ q # p /\ q \in Proc
    BY <1>3, <1>7, <2>1 DEF MachInv
  <2>3. Children(q)' = Children(q)
    BY <1>3, <1>5, <2>2, SameChildren
  <2> QED BY <2>1, <2>2, <2>3
<1>8. waiting' \subseteq running' /\ running' \subseteq Proc
  BY DEF Finish, MachInv
<1>9. rev' \in BOOLEAN
  BY <1>3 DEF MachInv
<1>10. Len(file'.lines) = len
  BY <1>2, <1>3
<1> QED BY <1>3, <1>5, <1>6, <1>7, <1>8, <1>9, <1>10 DEF MachInv

\* Where a procedure starts.
Start(name) == IF rev THEN file.end[name] + 1 ELSE file.begin[name]

\* A procedure starts at a block.
LEMMA StartAtBlock ==
  ASSUME NEW len \in Nat, FileIs(len), NEW name \in DOMAIN file.begin \cap DOMAIN file.end
  PROVE  /\ Start(name) \in 0 .. len /\ Start(name) % 3 = 0
         /\ IF rev THEN 3 <= Start(name) ELSE Start(name) + 3 <= len
<1>1. PICK b, e \in 0 .. len - 1 :
        b = file.begin[name] /\ b % 3 = 0 /\ e = file.end[name] /\ e % 3 = 2
  BY DEF FileIs
<1>2. len % 3 = 0
  BY DEF FileIs
<1>3. b + 3 <= len /\ (e + 1) % 3 = 0 /\ 3 <= e + 1 /\ e + 1 <= len
  BY <1>1, <1>2, ThreesFit
<1> QED BY <1>1, <1>3 DEF Start

\* The children of a call, and where they start.
LEMMA ChildrenStart ==
  ASSUME MachInv, NEW p \in running, Instr(p).op = "call", Children(p) \subseteq Proc,
         NEW c \in Children(p)
  PROVE  /\ c # Root /\ Front(c) = p /\ c # p
         /\ \E name \in DOMAIN file.begin \cap DOMAIN file.end : name = Instr(p).procs[Last(c) + 1]
<1>1. PICK S, procs : procs = Instr(p).procs /\ procs \in Seq(S)
  BY CallsKnown
<1>2. PICK i \in DOMAIN procs : c = ChildPC(p, i - 1)
  BY <1>1 DEF Children
<1>3. i - 1 \in Nat /\ (i - 1) + 1 = i
  BY <1>1, <1>2
<1>4. p \in Seq(Nat)
  BY ProcAssumption DEF MachInv
<1>5. c # Root /\ Front(c) = p /\ Last(c) = i - 1 /\ c # p
  BY <1>2, <1>3, <1>4, ChildOf
<1>6. procs[i] \in DOMAIN file.begin /\ procs[i] \in DOMAIN file.end
  BY <1>1, <1>2, CallsKnown
<1> QED BY <1>1, <1>3, <1>5, <1>6

\* A call keeps the invariant.
LEMMA ForkStep ==
  ASSUME MachInv, NEW p \in Proc, Fork(p)
  PROVE  MachInv'
<1>1. PICK len \in Nat : FileIs(len)
  BY FileFacts DEF MachInv
<1>2. len = Len(file.lines) /\ head \in [Proc -> 0 .. len]
  BY <1>1 DEF FileIs, MachInv
<1>3. PICK C : C = Children(p)
  OBVIOUS
<1>4. /\ p \in running /\ p \notin waiting /\ Instr(p).op = "call" /\ C \subseteq Proc
      /\ file' = file /\ code' = code /\ rev' = rev
      /\ running' = running \cup C /\ waiting' = waiting \cup {p}
  BY <1>3 DEF Fork, At
<1>5. FileOk' /\ rev' \in BOOLEAN /\ Len(file'.lines) = len
  BY <1>2, <1>4 DEF MachInv, FileOk
<1>6. head' = [c \in Proc |-> IF c \in C THEN Start(Instr(p).procs[Last(c) + 1]) ELSE head[c]]
  BY <1>3 DEF Fork, Start
<1>7. ASSUME NEW c \in C
      PROVE  /\ c # Root /\ Front(c) = p /\ c # p
             /\ head'[c] \in 0 .. len /\ head'[c] % 3 = 0
             /\ IF rev THEN 3 <= head'[c] ELSE head'[c] + 3 <= len
  <2>1. PICK name \in DOMAIN file.begin \cap DOMAIN file.end : name = Instr(p).procs[Last(c) + 1]
    BY <1>3, <1>4, ChildrenStart
  <2>2. head'[c] = Start(name)
    BY <1>4, <1>6, <2>1
  <2>3. c # Root /\ Front(c) = p /\ c # p
    BY <1>3, <1>4, ChildrenStart
  <2> QED BY <1>1, <2>2, <2>3, StartAtBlock
<1>8. \A q \in Proc \ C : head'[q] = head[q]
  BY <1>6
<1>9. head' \in [Proc -> 0 .. len]
  <2>1. \A q \in Proc : head'[q] \in 0 .. len
    BY <1>2, <1>7, <1>8
  <2> QED BY <1>6, <2>1
<1>10. running' \subseteq Proc /\ waiting' \subseteq running'
  BY <1>4 DEF MachInv
<1>11. ASSUME NEW q \in running' PROVE AtBlock(q)'
  <2>1. CASE q \in C
    BY <1>4, <1>5, <1>7, <2>1 DEF AtBlock
  <2>2. CASE q \notin C
    <3>1. AtBlock(q) /\ head'[q] = head[q]
      BY <1>4, <1>8, <1>10, <1>11, <2>2 DEF MachInv
    <3> QED BY <1>4, <3>1 DEF AtBlock
  <2> QED BY <2>1, <2>2
<1>12. ASSUME NEW c \in running' \ {Root}
       PROVE  Front(c) \in waiting' /\ c \in Children(Front(c))'
  <2>1. PICK q : q = Front(c)
    OBVIOUS
  <2>2. q \in waiting \cup {p} /\ q \in Proc /\ c \in Children(q)
    <3>1. CASE c \in C
      BY <1>3, <1>7, <2>1, <3>1
    <3>2. CASE c \notin C
      BY <1>4, <1>12, <2>1, <3>2 DEF MachInv
    <3> QED BY <3>1, <3>2
  <2>3. q \notin C
    <3>1. CASE q = p
      BY <1>7, <3>1
    <3>2. CASE q \in waiting
      <4>1. \A d \in waiting \ {Root} : Front(d) \in waiting
        BY DEF MachInv
      <4> QED BY <1>4, <1>7, <3>2, <4>1
    <3> QED BY <2>2, <3>1, <3>2
  <2>4. Children(q)' = Children(q)
    BY <1>4, <1>8, <2>2, <2>3, SameChildren
  <2> QED BY <1>4, <2>1, <2>2, <2>4
<1> QED BY <1>5, <1>9, <1>10, <1>11, <1>12 DEF MachInv

\* bwd or fwd, and run, keep the invariant.
LEMMA TurnStep ==
  ASSUME MachInv, Turn
  PROVE  MachInv'
<1>1. PICK len \in Nat : FileIs(len)
  BY FileFacts DEF MachInv
<1>2. len = Len(file.lines) /\ head \in [Proc -> 0 .. len] /\ Root \in Proc
  BY <1>1, ProcAssumption DEF FileIs, MachInv
<1>3. running = {} /\ waiting = {}
  BY NobodyLeft DEF Turn, Stopped
<1>4. file' = file /\ code' = code /\ rev' = ~rev /\ running' = {Root} /\ waiting' = {}
  BY <1>3 DEF Turn
<1>5. FileOk' /\ rev \in BOOLEAN /\ rev' \in BOOLEAN /\ Len(file'.lines) = len
  BY <1>2, <1>4 DEF MachInv, FileOk
<1>6. PICK h \in 0 .. len : /\ head' = [head EXCEPT ![Root] = h] /\ h % 3 = 0
                            /\ IF rev' THEN 3 <= h ELSE h + 3 <= len
  <2>1. PICK b, e \in 0 .. len - 1 :
          b = file.begin["main"] /\ b % 3 = 0 /\ e = file.end["main"] /\ e % 3 = 2
    BY <1>1 DEF FileIs
  <2>2. len % 3 = 0
    BY <1>1 DEF FileIs
  <2>3. b + 3 <= len /\ (e + 1) % 3 = 0 /\ 3 <= e + 1 /\ e + 1 <= len
    BY <2>1, <2>2, ThreesFit
  <2>4. head' = [head EXCEPT ![Root] = IF rev THEN b ELSE e + 1]
    BY <2>1 DEF Turn
  <2>5. PICK h : h = IF rev THEN b ELSE e + 1
    OBVIOUS
  <2>6. h \in 0 .. len /\ h % 3 = 0 /\ IF ~rev THEN 3 <= h ELSE h + 3 <= len
    BY <2>1, <2>3, <2>5
  <2>7. head' = [head EXCEPT ![Root] = h]
    BY <2>4, <2>5
  <2> QED BY <1>4, <2>6, <2>7
<1>7. head' \in [Proc -> 0 .. len] /\ head'[Root] = h
  BY <1>2, <1>6
<1>8. AtBlock(Root)'
  BY <1>5, <1>6, <1>7 DEF AtBlock
<1> QED BY <1>2, <1>4, <1>5, <1>7, <1>8 DEF MachInv

-----------------------------------------------------------------------------
(* Theorems *)

\* The texts considered are in blocks.
TextsInBlocks == \A c \in Code : InBlocks(Lines(c))

\* The invariant holds at the start.
LEMMA MachInit ==
  ASSUME TextsInBlocks, Init
  PROVE  MachInv
<1>1. FileOk
  BY LoaderCorrect DEF Init, TextsInBlocks, FileOk
<1>2. PICK len \in Nat : FileIs(len)
  BY <1>1, FileFacts
<1>3. PICK b \in 0 .. len - 1 : b = file.begin["main"] /\ b % 3 = 0
  BY <1>2 DEF FileIs
<1>4. len = Len(file.lines) /\ b + 3 <= len
  <2>1. len % 3 = 0
    BY <1>2 DEF FileIs
  <2>2. b + 3 <= len
    BY <1>3, <2>1, ThreesFit
  <2> QED BY <1>2, <2>2 DEF FileIs
<1>5. head = [p \in Proc |-> IF p = Root THEN b ELSE 0] /\ running = {Root} /\ waiting = {} /\ rev = FALSE
  BY <1>3 DEF Init
<1>6. Root \in Proc /\ head \in [Proc -> 0 .. len] /\ head[Root] = b
  BY <1>5, ProcAssumption
<1>7. AtBlock(Root)
  BY <1>3, <1>4, <1>5, <1>6 DEF AtBlock
<1> QED BY <1>1, <1>4, <1>5, <1>6, <1>7 DEF MachInv

\* Of the steps of a process, all but Fork and Join execute a block and go on, or return.
Executes(p) ==
  /\ p \in running \ waiting /\ waiting' = waiting
  /\ \E m, legal : Finish(p, m, legal)

\* A step of a process is a call, the return from one, or a block.
LEMMA StepExecutes ==
  ASSUME NEW p \in Proc, Step(p)
  PROVE  Executes(p) \/ Fork(p) \/ Join(p)
<1>1. CASE Assign(p)
  BY <1>1 DEF Assign, At, Executes
<1>2. CASE Exchange(p) \/ Nop(p) \/ Nest(p)
  BY <1>2 DEF Exchange, Nop, Nest, At, Executes
<1>3. CASE LockAddr(p) \/ UnlockAddr(p)
  BY <1>3 DEF LockAddr, UnlockAddr, At, Executes
<1>4. CASE SetSym(p) \/ UnsetSym(p)
  BY <1>4 DEF SetSym, UnsetSym, At, Executes
<1>5. CASE SetName(p) \/ UnsetName(p)
  BY <1>5 DEF SetName, UnsetName, At, Executes
<1>6. CASE Semaphore(p)
  BY <1>6 DEF Semaphore, At, Executes
<1> QED BY <1>1, <1>2, <1>3, <1>4, <1>5, <1>6 DEF Step

\* Every step keeps the invariant.
LEMMA MachStep ==
  ASSUME MachInv, [Next]_vars
  PROVE  MachInv'
<1>1. CASE UNCHANGED vars
  <2>1. \A p \in Proc : AtBlock(p)' = AtBlock(p) /\ Children(p)' = Children(p)
    BY <1>1, SameChildren DEF vars, AtBlock
  <2>2. \A c \in running \ {Root} : Front(c) \in Proc
    BY DEF MachInv
  <2>3. FileOk'
    BY <1>1 DEF vars, MachInv, FileOk
  <2> QED BY <1>1, <2>1, <2>2, <2>3 DEF vars, MachInv
<1>2. CASE Turn
  BY <1>2, TurnStep
<1>3. ASSUME NEW p \in Proc, Step(p) PROVE MachInv'
  <2>1. CASE Executes(p)
    <3>1. PICK m, legal : Finish(p, m, legal)
      BY <2>1 DEF Executes
    <3>2. p \in running /\ p \notin waiting /\ waiting' = waiting \ {p}
      BY <2>1 DEF Executes
    <3>3. \A c \in running \ {Root} : Front(c) # p
      BY <3>2 DEF MachInv
    <3> QED BY <3>1, <3>2, <3>3, FinishStep
  <2>2. CASE Fork(p)
    BY <2>2, ForkStep
  <2>3. CASE Join(p)
    <3>1. /\ Finish(p, mem, TRUE) /\ p \in running /\ waiting' = waiting \ {p}
          /\ Children(p) \cap running = {}
      BY <2>3 DEF Join, MachInv
    <3>2. \A c \in running \ {Root} : Front(c) # p
      BY <3>1 DEF MachInv
    <3> QED BY <3>1, <3>2, FinishStep
  <2> QED BY <1>3, <2>1, <2>2, <2>3, StepExecutes
<1> QED BY <1>1, <1>2, <1>3 DEF Next

\* The invariant holds in every behaviour.
LEMMA MachAlways ==
  ASSUME TextsInBlocks
  PROVE  Spec => []MachInv
<1>1. Init => MachInv
  BY MachInit
<1>2. MachInv /\ [Next]_vars => MachInv'
  BY MachStep
<1> QED BY <1>1, <1>2, PTL DEF Spec

\* The head of every process that runs is on the border of two blocks, whatever the
\* text, if it is in blocks: executeBlock finds the three lines that it takes to be a
\* block (pc.go:150) and never comes to the edge of the file.
THEOREM HeadsAligned ==
  ASSUME TextsInBlocks
  PROVE  Spec => []Aligned
<1>1. MachInv => Aligned
  BY DEF MachInv, AtBlock, Aligned
<1> QED BY <1>1, MachAlways, PTL

\* What a process that runs executes next is an entry, an instruction of the text, and an exit.
WholeBlocks ==
  \A p \in running :
    /\ IsEntry(Entry(p)) /\ IsExit(Exit(p))
    /\ LineAt(file, Base(p) + 1) \in TextLines(Lines(code))
    /\ ~IsEntry(LineAt(file, Base(p) + 1)) /\ ~IsExit(LineAt(file, Base(p) + 1))

\* Blocks are whole while the invariant holds.
LEMMA BlocksWhole ==
  ASSUME MachInv
  PROVE  WholeBlocks
<1> SUFFICES ASSUME NEW p \in running
             PROVE  /\ IsEntry(Entry(p)) /\ IsExit(Exit(p))
                    /\ LineAt(file, Base(p) + 1) \in TextLines(Lines(code))
                    /\ ~IsEntry(LineAt(file, Base(p) + 1)) /\ ~IsExit(LineAt(file, Base(p) + 1))
  BY DEF WholeBlocks
<1>1. PICK len \in Nat : FileIs(len)
  BY FileFacts DEF MachInv
<1>2. PICK b \in Nat : b = Base(p) /\ b % 3 = 0 /\ b + 3 <= len
  BY <1>1, BlockOf
<1>3. /\ b \in 0 .. len - 1 /\ b + 1 \in 0 .. len - 1 /\ b + 2 \in 0 .. len - 1
      /\ (b + 1) % 3 = 1 /\ (b + 2) % 3 = 2
  BY <1>2, Threes
<1>4. IsEntry(LineAt(file, b)) /\ IsExit(LineAt(file, b + 2))
      /\ ~IsEntry(LineAt(file, b + 1)) /\ ~IsExit(LineAt(file, b + 1))
  <2>1. ASSUME NEW n \in 0 .. len - 1
        PROVE  /\ IsEntry(LineAt(file, n)) <=> n % 3 = 0
               /\ IsExit(LineAt(file, n)) <=> n % 3 = 2
    BY <1>1 DEF FileIs
  <2>2. IsEntry(LineAt(file, b)) <=> b % 3 = 0
    BY <1>3, <2>1
  <2>3. /\ IsEntry(LineAt(file, b + 1)) <=> (b + 1) % 3 = 0
        /\ IsExit(LineAt(file, b + 1)) <=> (b + 1) % 3 = 2
    BY <1>3, <2>1, Zenon
  <2>4. IsExit(LineAt(file, b + 2)) <=> (b + 2) % 3 = 2
    BY <1>3, <2>1, Zenon
  <2> QED BY <1>2, <1>3, <2>2, <2>3, <2>4
<1>5. LineAt(file, b + 1) \in TextLines(Lines(code))
  <2>1. len = Len(file.lines) /\ InThrees(Lines(code), file)
    BY <1>1 DEF FileIs, MachInv, FileOk, Loaded
  <2> QED BY <1>3, <2>1 DEF InThrees
<1> QED BY <1>2, <1>4, <1>5 DEF Entry, Exit

\* Every goroutine, in both directions, executes blocks from their first line to their
\* last, whatever labels it jumps to and procedures it calls (executeBlock, pc.go:149).
THEOREM BlocksAreWhole ==
  ASSUME TextsInBlocks
  PROVE  Spec => []WholeBlocks
<1> QED BY BlocksWhole, MachAlways, PTL

\* Who does not wait has nobody under it, and when the root is done everybody is.
Structured ==
  /\ \A p \in Proc \ waiting : \A q \in running : ~Under(p, q)
  /\ Root \notin running => running = {} /\ waiting = {}

\* While a process executes, nothing that it or its callees have called runs: the
\* wg.Wait of a call (runtime.go:652) joins the whole tree below it, in both directions.
THEOREM CallsAreStructured ==
  ASSUME TextsInBlocks
  PROVE  Spec => []Structured
<1>1. MachInv => Structured
  BY NobodyUnder, NobodyLeft DEF Structured
<1> QED BY <1>1, MachAlways, PTL

-----------------------------------------------------------------------------
(* Symbol tables *)

\* A table maps names to what they are bound to, sequences over S, innermost last.
Stacks(t, S) == \A v \in DOMAIN t : t[v] \in Seq(S) \ {<< >>}
Tabled(t, S) == t = [v \in DOMAIN t |-> t[v]] /\ Stacks(t, S)

\* u is t with v bound once more, to b; it is bound n times in t.
Grown(t, u, v, b, n) ==
  /\ n \in Nat /\ (n > 0 <=> v \in DOMAIN t)
  /\ DOMAIN u = DOMAIN t \cup {v}
  /\ \A w \in DOMAIN t : w # v => u[w] = t[w]
  /\ n > 0 => Len(t[v]) = n /\ \A i \in 1 .. n : u[v][i] = t[v][i]
  /\ Len(u[v]) = n + 1 /\ u[v][n + 1] = b

\* The table without the last binding of v.
Closed(t, v) ==
  IF Len(t[v]) > 1 THEN [t EXCEPT ![v] = Front(@)] ELSE [w \in DOMAIN t \ {v} |-> t[w]]

\* A name is bound once more.
LEMMA OpenedGrows ==
  ASSUME NEW S, NEW t, Stacks(t, S), NEW v, NEW b \in S
  PROVE  Tabled(Opened(t, v, b), S) /\ \E n : Grown(t, Opened(t, v, b), v, b, n)
<1>1. PICK s, n : /\ s = Stack(t, v) /\ s \in Seq(S) /\ n = Len(s) /\ n \in Nat
                  /\ (n > 0 <=> v \in DOMAIN t)
  <2>1. CASE v \in DOMAIN t
    <3>1. PICK s : s = t[v] /\ s \in Seq(S) /\ s # << >>
      BY <2>1 DEF Stacks
    <3>2. PICK n \in Nat : n = Len(s) /\ n > 0
      BY <3>1
    <3>3. s = Stack(t, v)
      BY <2>1, <3>1 DEF Stack
    <3> QED BY <2>1, <3>1, <3>2, <3>3
  <2>2. CASE v \notin DOMAIN t
    <3>1. Len(<< >>) = 0 /\ << >> \in Seq(S)
      OBVIOUS
    <3>2. Stack(t, v) = << >>
      BY <2>2, Zenon DEF Stack
    <3>3. PICK s, n : s = << >> /\ n = 0
      OBVIOUS
    <3>4. s = Stack(t, v) /\ s \in Seq(S) /\ n = Len(s) /\ n \in Nat /\ ~(n > 0)
      BY <3>1, <3>2, <3>3
    <3> QED BY <2>2, <3>4
  <2> QED BY <2>1, <2>2
<1>2. PICK r : r = Append(s, b)
  OBVIOUS
<1>3. /\ r \in Seq(S) /\ Len(r) = n + 1 /\ r[n + 1] = b /\ r # << >>
      /\ \A i \in 1 .. n : r[i] = s[i]
  BY <1>1, <1>2
<1>4. PICK u : u = Opened(t, v, b)
  OBVIOUS
<1>5. u = [w \in DOMAIN t \cup {v} |-> IF w \in {v} THEN r ELSE t[w]]
  BY <1>1, <1>2, <1>4 DEF Opened, Entered
<1>6. u[v] = r /\ DOMAIN u = DOMAIN t \cup {v} /\ \A w \in DOMAIN t : w # v => u[w] = t[w]
  BY <1>5
<1>7. Tabled(u, S)
  BY <1>3, <1>5, <1>6 DEF Tabled, Stacks
<1>8. n > 0 => s = t[v]
  BY <1>1 DEF Stack
<1>9. Grown(t, u, v, b, n)
  BY <1>1, <1>6, <1>8, <1>3 DEF Grown
<1> QED BY <1>4, <1>7, <1>9

\* The last binding of a name is taken back.
LEMMA ClosedShrinks ==
  ASSUME NEW S, NEW t, Stacks(t, S), NEW v \in DOMAIN t
  PROVE  Tabled(Closed(t, v), S) /\ \E n : Grown(Closed(t, v), t, v, Last(t[v]), n)
<1>1. PICK s, n : s = t[v] /\ s \in Seq(S) /\ s # << >> /\ n \in Nat /\ Len(s) = n + 1
  <2>1. PICK s : s = t[v] /\ s \in Seq(S) /\ s # << >>
    BY DEF Stacks
  <2>2. Len(s) - 1 \in Nat /\ Len(s) = (Len(s) - 1) + 1
    BY <2>1
  <2> QED BY <2>1, <2>2
<1>2. Last(t[v]) = s[n + 1]
  BY <1>1 DEF Last
<1>3. PICK u : u = Closed(t, v)
  OBVIOUS
<1>4. CASE n = 0
  <2>0. ~(Len(t[v]) > 1)
    BY <1>1, <1>4
  <2>1. u = [w \in DOMAIN t \ {v} |-> t[w]]
    BY <1>3, <2>0, Zenon DEF Closed
  <2>2. Tabled(u, S)
    BY <2>1 DEF Tabled, Stacks
  <2>3. DOMAIN u = DOMAIN t \ {v} /\ \A w \in DOMAIN u : t[w] = u[w]
    BY <2>1
  <2>4. Len(t[v]) = 0 + 1 /\ t[v][0 + 1] = Last(t[v])
    BY <1>1, <1>2, <1>4
  <2>5. Grown(u, t, v, Last(t[v]), 0)
    BY <2>3, <2>4 DEF Grown
  <2> QED BY <1>3, <2>2, <2>5
<1>5. CASE n > 0
  <2>1. PICK r : r = SubSeq(s, 1, n)
    OBVIOUS
  <2>2. r \in Seq(S) /\ Len(r) = n /\ r # << >> /\ \A i \in 1 .. n : r[i] = s[i]
    BY <1>1, <1>5, <2>1
  <2>3. Front(s) = r
    BY <1>1, <2>1 DEF Front
  <2>4. u = [t EXCEPT ![v] = r]
    <3>1. Len(t[v]) > 1
      BY <1>1, <1>5
    <3>2. u = [t EXCEPT ![v] = Front(t[v])]
      BY <1>3, <3>1 DEF Closed
    <3> QED BY <1>1, <2>3, <3>2
  <2>6. u[v] = r /\ DOMAIN u = DOMAIN t /\ \A w \in DOMAIN t : w # v => u[w] = t[w]
    BY <2>4
  <2>7. u = [w \in DOMAIN u |-> u[w]]
    BY <2>4
  <2>8. Tabled(u, S)
    BY <2>2, <2>6, <2>7 DEF Tabled, Stacks
  <2>9. Grown(u, t, v, Last(t[v]), n)
    BY <1>1, <1>2, <1>5, <2>2, <2>6 DEF Grown
  <2> QED BY <1>3, <2>8, <2>9
<1> QED BY <1>1, <1>4, <1>5

\* The bindings of a table of the machine, and the table that goes with the names of a frame.
Address == [glob : BOOLEAN, idx : Nat]
Binding == [addr : Address, nest : Nat]
TableFits(t, names) ==
  /\ Tabled(t, Binding) /\ DOMAIN t = DOMAIN names
  /\ \A v \in DOMAIN names :
       /\ Len(t[v]) = Len(names[v])
       /\ \A i \in 1 .. Len(names[v]) :
            /\ t[v][i].nest = names[v][i].nest
            /\ names[v][i].arr => t[v][i].addr.glob
            /\ names[v][i].own => ~t[v][i].addr.glob

\* A name is bound once more on both sides.
LEMMA FitsGrown ==
  ASSUME NEW t, NEW u, NEW names, NEW more, NEW v, NEW b, NEW slot, NEW n, NEW k,
         TableFits(t, names), Tabled(u, Binding),
         Grown(t, u, v, b, n), Grown(names, more, v, slot, k),
         b.nest = slot.nest, slot.arr => b.addr.glob, slot.own => ~b.addr.glob
  PROVE  n = k /\ TableFits(u, more)
<1>1. n = k
  BY DEF TableFits, Grown
<1>2. DOMAIN u = DOMAIN more
  BY DEF TableFits, Grown
<1>3. ASSUME NEW w \in DOMAIN more
      PROVE  /\ Len(u[w]) = Len(more[w])
             /\ \A i \in 1 .. Len(more[w]) :
                  /\ u[w][i].nest = more[w][i].nest
                  /\ more[w][i].arr => u[w][i].addr.glob
                  /\ more[w][i].own => ~u[w][i].addr.glob
  <2>1. CASE w # v
    <3>1. w \in DOMAIN names /\ w \in DOMAIN t /\ u[w] = t[w] /\ more[w] = names[w]
      BY <1>3, <2>1 DEF TableFits, Grown
    <3> QED BY <3>1 DEF TableFits
  <2>2. CASE w = v
    <3>1. n \in Nat /\ Len(u[v]) = n + 1 /\ Len(more[v]) = n + 1 /\ u[v][n + 1] = b /\ more[v][n + 1] = slot
      BY <1>1 DEF Grown
    <3>2. ASSUME NEW i \in 1 .. n + 1, i # n + 1
          PROVE  /\ u[v][i].nest = more[v][i].nest
                 /\ more[v][i].arr => u[v][i].addr.glob
                 /\ more[v][i].own => ~u[v][i].addr.glob
      <4>1. i \in 1 .. n /\ n > 0
        BY <3>1, <3>2
      <4>2. v \in DOMAIN names /\ Len(names[v]) = n /\ u[v][i] = t[v][i] /\ more[v][i] = names[v][i]
        BY <1>1, <4>1 DEF Grown
      <4> QED BY <4>1, <4>2 DEF TableFits
    <3> QED BY <2>2, <3>1, <3>2
  <2> QED BY <2>1, <2>2
<1> QED BY <1>1, <1>2, <1>3 DEF TableFits

\* The last binding of a name is taken back on both sides.
LEMMA FitsShrunk ==
  ASSUME NEW t, NEW u, NEW names, NEW less, NEW v, NEW b, NEW slot, NEW n, NEW k,
         TableFits(t, names), Tabled(u, Binding),
         Grown(u, t, v, b, n), Grown(less, names, v, slot, k)
  PROVE  n = k /\ TableFits(u, less)
<1>1. n = k
  <2>1. Len(t[v]) = Len(names[v])
    BY DEF TableFits, Grown
  <2> QED BY <2>1 DEF Grown
<1>2. DOMAIN u = DOMAIN less
  <2>1. DOMAIN t = DOMAIN names
    BY DEF TableFits
  <2>2. v \in DOMAIN u <=> v \in DOMAIN less
    BY <1>1 DEF Grown
  <2> QED BY <2>1, <2>2 DEF Grown
<1>3. ASSUME NEW w \in DOMAIN less
      PROVE  /\ Len(u[w]) = Len(less[w])
             /\ \A i \in 1 .. Len(less[w]) :
                  /\ u[w][i].nest = less[w][i].nest
                  /\ less[w][i].arr => u[w][i].addr.glob
                  /\ less[w][i].own => ~u[w][i].addr.glob
  <2>1. CASE w # v
    <3>1. w \in DOMAIN names /\ u[w] = t[w] /\ less[w] = names[w]
      BY <1>2, <1>3, <2>1 DEF Grown
    <3> QED BY <3>1 DEF TableFits
  <2>2. CASE w = v
    <3>1. v \in DOMAIN names /\ n \in Nat /\ n > 0 /\ Len(u[v]) = n /\ Len(less[v]) = n /\ Len(names[v]) = n + 1
          /\ \A i \in 1 .. n : t[v][i] = u[v][i] /\ names[v][i] = less[v][i]
      BY <1>1, <1>2, <1>3, <2>2 DEF Grown
    <3> QED BY <2>2, <3>1 DEF TableFits
  <2> QED BY <2>1, <2>2
<1> QED BY <1>1, <1>2, <1>3 DEF TableFits

-----------------------------------------------------------------------------
(* Names and cells *)

\* The i-th binding of v in the table of p; N is the names of each process, T their
\* tables, V the cells in use, o the bindings they have been allocated for.
Place(p, v, i) == [p |-> p, v |-> v, i |-> i]
IsPlace(N, p, v, i) == p \in Proc /\ v \in DOMAIN N[p] /\ i \in 1 .. Len(N[p][v])

CellsFit(T, V, N, o) ==
  /\ IsFiniteSet(V) /\ V \subseteq Nat
  /\ \A c \in V : \E p, v, i :
       IsPlace(N, p, v, i) /\ o[c] = Place(p, v, i) /\ N[p][v][i].own /\ T[p][v][i].addr.idx = c
  /\ \A p, v, i : IsPlace(N, p, v, i) /\ ~T[p][v][i].addr.glob =>
       /\ T[p][v][i].addr.idx \in V
       /\ N[p][v][i].own => o[T[p][v][i].addr.idx] = Place(p, v, i)
       /\ ~N[p][v][i].own => Under(o[T[p][v][i].addr.idx].p, p)

\* The places of N and one more, with what is there.
OnePlace(N, T, N2, T2, p, v, k) ==
  /\ IsPlace(N2, p, v, k) /\ ~IsPlace(N, p, v, k)
  /\ \A q, w, j : IsPlace(N, q, w, j) =>
       IsPlace(N2, q, w, j) /\ N2[q][w][j] = N[q][w][j] /\ T2[q][w][j] = T[q][w][j]
  /\ \A q, w, j : IsPlace(N2, q, w, j) => IsPlace(N, q, w, j) \/ (q = p /\ w = v /\ j = k)

\* ... where there is slot and the address a.
NewPlace(N, T, N2, T2, p, v, slot, a) ==
  \E k : OnePlace(N, T, N2, T2, p, v, k) /\ N2[p][v][k] = slot /\ T2[p][v][k].addr = a

\* The names and the table of p have grown, and those of nobody else.
GrownAt(N, T, N2, T2, p, v, slot, b, n) ==
  /\ p \in Proc /\ DOMAIN T[p] = DOMAIN N[p]
  /\ Grown(N[p], N2[p], v, slot, n) /\ Grown(T[p], T2[p], v, b, n)
  /\ \A q \in Proc : q # p => N2[q] = N[q] /\ T2[q] = T[q]

\* A name that is bound once more is one place more.
LEMMA GrownPlace ==
  ASSUME NEW N, NEW T, NEW N2, NEW T2, NEW p, NEW v, NEW slot, NEW b, NEW n,
         GrownAt(N, T, N2, T2, p, v, slot, b, n)
  PROVE  /\ OnePlace(N, T, N2, T2, p, v, n + 1)
         /\ N2[p][v][n + 1] = slot /\ T2[p][v][n + 1] = b
<1>0. /\ p \in Proc /\ DOMAIN T[p] = DOMAIN N[p]
      /\ Grown(N[p], N2[p], v, slot, n) /\ Grown(T[p], T2[p], v, b, n)
      /\ \A q \in Proc : q # p => N2[q] = N[q] /\ T2[q] = T[q]
  BY DEF GrownAt
<1>1. n \in Nat /\ Len(N2[p][v]) = n + 1 /\ v \in DOMAIN N2[p]
      /\ N2[p][v][n + 1] = slot /\ T2[p][v][n + 1] = b
  BY <1>0 DEF Grown
<1>2. IsPlace(N2, p, v, n + 1)
  BY <1>0, <1>1 DEF IsPlace
<1>3. ~IsPlace(N, p, v, n + 1)
  <2>1. v \in DOMAIN N[p] => Len(N[p][v]) = n
    BY <1>0 DEF Grown
  <2> QED BY <1>0, <1>1, <2>1 DEF IsPlace
<1>4. ASSUME NEW q, NEW w, NEW j, IsPlace(N, q, w, j)
      PROVE  IsPlace(N2, q, w, j) /\ N2[q][w][j] = N[q][w][j] /\ T2[q][w][j] = T[q][w][j]
  <2>0. q \in Proc /\ w \in DOMAIN N[q] /\ j \in 1 .. Len(N[q][w])
    BY <1>0, <1>4 DEF IsPlace
  <2>1. CASE q # p
    <3>1. N2[q] = N[q] /\ T2[q] = T[q]
      BY <1>0, <2>0, <2>1
    <3> QED BY <1>0, <2>0, <3>1 DEF IsPlace
  <2>2. CASE q = p /\ w # v
    <3>1. w \in DOMAIN N2[p] /\ N2[p][w] = N[p][w]
      BY <1>0, <2>0, <2>2 DEF Grown
    <3>2. T2[p][w] = T[p][w]
      BY <1>0, <2>0, <2>2 DEF Grown
    <3> QED BY <1>0, <2>0, <2>2, <3>1, <3>2 DEF IsPlace
  <2>3. CASE q = p /\ w = v
    <3>1. n > 0 /\ Len(N[p][v]) = n /\ j \in 1 .. n /\ j \in 1 .. n + 1
      BY <1>0, <1>1, <2>0, <2>3 DEF Grown
    <3>2. N2[p][v][j] = N[p][v][j] /\ T2[p][v][j] = T[p][v][j]
      BY <1>0, <3>1 DEF Grown
    <3> QED BY <1>0, <1>1, <2>0, <2>3, <3>1, <3>2 DEF IsPlace
  <2> QED BY <1>0, <2>1, <2>2, <2>3
<1>5. ASSUME NEW q, NEW w, NEW j, IsPlace(N2, q, w, j)
      PROVE  IsPlace(N, q, w, j) \/ (q = p /\ w = v /\ j = n + 1)
  <2>0. q \in Proc /\ w \in DOMAIN N2[q] /\ j \in 1 .. Len(N2[q][w])
    BY <1>0, <1>5 DEF IsPlace
  <2>1. CASE q # p
    <3>1. N2[q] = N[q]
      BY <1>0, <2>0, <2>1
    <3> QED BY <1>0, <2>0, <3>1 DEF IsPlace
  <2>2. CASE q = p /\ w # v
    <3>1. w \in DOMAIN N[p] /\ N2[p][w] = N[p][w]
      BY <1>0, <2>0, <2>2 DEF Grown
    <3> QED BY <1>0, <2>0, <2>2, <3>1 DEF IsPlace
  <2>3. CASE q = p /\ w = v /\ j # n + 1
    <3>1. j \in 1 .. n /\ n > 0
      BY <1>0, <1>1, <2>0, <2>3
    <3>2. v \in DOMAIN N[p] /\ Len(N[p][v]) = n
      BY <1>0, <3>1 DEF Grown
    <3> QED BY <1>0, <2>3, <3>1, <3>2 DEF IsPlace
  <2> QED BY <1>0, <2>1, <2>2, <2>3
<1> QED BY <1>1, <1>2, <1>3, <1>4, <1>5 DEF OnePlace

\* A variable gets a cell of its own.
LEMMA AllocateCells ==
  ASSUME NEW N, NEW T, NEW N2, NEW T2, NEW p, NEW v, NEW k, NEW V, NEW o, NEW o2, NEW c \in Nat \ V,
         CellsFit(T, V, N, o), OnePlace(N, T, N2, T2, p, v, k),
         N2[p][v][k].own, T2[p][v][k].addr.idx = c,
         o2[c] = Place(p, v, k), \A d \in V : o2[d] = o[d]
  PROVE  CellsFit(T2, V \cup {c}, N2, o2)
<1>1. IsFiniteSet(V \cup {c}) /\ V \cup {c} \subseteq Nat
  BY FS_AddElement DEF CellsFit
<1>2. ASSUME NEW d \in V \cup {c}
      PROVE  \E q, w, j : /\ IsPlace(N2, q, w, j) /\ o2[d] = Place(q, w, j)
                          /\ N2[q][w][j].own /\ T2[q][w][j].addr.idx = d
  <2>1. CASE d = c
    BY <2>1 DEF OnePlace
  <2>2. CASE d \in V
    <3>1. PICK q, w, j : /\ IsPlace(N, q, w, j) /\ o[d] = Place(q, w, j)
                         /\ N[q][w][j].own /\ T[q][w][j].addr.idx = d
      BY <2>2 DEF CellsFit
    <3>2. IsPlace(N2, q, w, j) /\ N2[q][w][j] = N[q][w][j] /\ T2[q][w][j] = T[q][w][j]
      BY <3>1 DEF OnePlace
    <3> QED BY <2>2, <3>1, <3>2
  <2> QED BY <2>1, <2>2
<1>3. ASSUME NEW q, NEW w, NEW j, IsPlace(N2, q, w, j), ~T2[q][w][j].addr.glob
      PROVE  /\ T2[q][w][j].addr.idx \in V \cup {c}
             /\ N2[q][w][j].own => o2[T2[q][w][j].addr.idx] = Place(q, w, j)
             /\ ~N2[q][w][j].own => Under(o2[T2[q][w][j].addr.idx].p, q)
  <2>1. CASE q = p /\ w = v /\ j = k
    BY <2>1
  <2>2. CASE IsPlace(N, q, w, j)
    <3>1. N2[q][w][j] = N[q][w][j] /\ T2[q][w][j] = T[q][w][j]
      BY <2>2 DEF OnePlace
    <3>2. PICK d : d = T[q][w][j].addr.idx
      OBVIOUS
    <3>3. /\ d \in V
          /\ N[q][w][j].own => o[d] = Place(q, w, j)
          /\ ~N[q][w][j].own => Under(o[d].p, q)
      BY <1>3, <2>2, <3>1, <3>2 DEF CellsFit
    <3>4. o2[d] = o[d]
      BY <3>3
    <3> QED BY <3>1, <3>2, <3>3, <3>4
  <2> QED BY <1>3, <2>1, <2>2 DEF OnePlace
<1> QED BY <1>1, <1>2, <1>3 DEF CellsFit

\* A variable gives its cell up: nobody has been given it, if no process under its own
\* has a name.
LEMMA DeallocateCells ==
  ASSUME NEW N, NEW T, NEW N2, NEW T2, NEW p, NEW v, NEW k, NEW V, NEW o,
         CellsFit(T, V, N, o), OnePlace(N2, T2, N, T, p, v, k),
         N[p][v][k].own, ~T[p][v][k].addr.glob,
         \A q, w, j : IsPlace(N, q, w, j) => ~Under(p, q)
  PROVE  CellsFit(T2, V \ {T[p][v][k].addr.idx}, N2, o)
<1>1. PICK c : c = T[p][v][k].addr.idx
  OBVIOUS
<1>2. IsPlace(N, p, v, k) /\ c \in V /\ o[c] = Place(p, v, k)
  BY <1>1 DEF CellsFit, OnePlace
<1>3. IsFiniteSet(V \ {c}) /\ V \ {c} \subseteq Nat
  BY FS_RemoveElement DEF CellsFit
<1>4. ASSUME NEW d \in V \ {c}
      PROVE  \E q, w, j : /\ IsPlace(N2, q, w, j) /\ o[d] = Place(q, w, j)
                          /\ N2[q][w][j].own /\ T2[q][w][j].addr.idx = d
  <2>1. PICK q, w, j : /\ IsPlace(N, q, w, j) /\ o[d] = Place(q, w, j)
                       /\ N[q][w][j].own /\ T[q][w][j].addr.idx = d
    BY DEF CellsFit
  <2>2. IsPlace(N2, q, w, j)
    BY <1>1, <2>1 DEF OnePlace
  <2>3. N2[q][w][j] = N[q][w][j] /\ T2[q][w][j] = T[q][w][j]
    BY <2>2 DEF OnePlace
  <2> QED BY <2>1, <2>2, <2>3
<1>5. ASSUME NEW q, NEW w, NEW j, IsPlace(N2, q, w, j), ~T2[q][w][j].addr.glob
      PROVE  /\ T2[q][w][j].addr.idx \in V \ {c}
             /\ N2[q][w][j].own => o[T2[q][w][j].addr.idx] = Place(q, w, j)
             /\ ~N2[q][w][j].own => Under(o[T2[q][w][j].addr.idx].p, q)
  <2>1. IsPlace(N, q, w, j) /\ N2[q][w][j] = N[q][w][j] /\ T2[q][w][j] = T[q][w][j]
    BY <1>5 DEF OnePlace
  <2>2. PICK d : d = T[q][w][j].addr.idx
    OBVIOUS
  <2>3. /\ d \in V
        /\ N[q][w][j].own => o[d] = Place(q, w, j)
        /\ ~N[q][w][j].own => Under(o[d].p, q)
    BY <1>5, <2>1, <2>2 DEF CellsFit
  <2>4. d # c
    <3>1. SUFFICES ASSUME d = c PROVE FALSE
      OBVIOUS
    <3>2. ~(q = p /\ w = v /\ j = k)
      BY <1>5 DEF OnePlace
    <3>3. CASE N[q][w][j].own
      BY <1>2, <2>3, <3>1, <3>2, <3>3 DEF Place
    <3>4. CASE ~N[q][w][j].own
      BY <1>2, <2>1, <2>3, <3>1, <3>4 DEF Place
    <3> QED BY <3>3, <3>4
  <2> QED BY <2>1, <2>2, <2>3, <2>4
<1>6. CellsFit(T2, V \ {c}, N2, o)
  BY <1>3, <1>4, <1>5 DEF CellsFit
<1> QED BY <1>1, <1>6

\* A name is given an address.
LEMMA GiveCells ==
  ASSUME NEW N, NEW T, NEW N2, NEW T2, NEW p, NEW v, NEW k, NEW V, NEW o, NEW a,
         CellsFit(T, V, N, o), OnePlace(N, T, N2, T2, p, v, k),
         ~N2[p][v][k].own, T2[p][v][k].addr = a,
         ~a.glob => a.idx \in V /\ Under(o[a.idx].p, p)
  PROVE  CellsFit(T2, V, N2, o)
<1>2. ASSUME NEW d \in V
      PROVE  \E q, w, j : /\ IsPlace(N2, q, w, j) /\ o[d] = Place(q, w, j)
                          /\ N2[q][w][j].own /\ T2[q][w][j].addr.idx = d
  <2>1. PICK q, w, j : /\ IsPlace(N, q, w, j) /\ o[d] = Place(q, w, j)
                       /\ N[q][w][j].own /\ T[q][w][j].addr.idx = d
    BY DEF CellsFit
  <2>2. IsPlace(N2, q, w, j) /\ N2[q][w][j] = N[q][w][j] /\ T2[q][w][j] = T[q][w][j]
    BY <2>1 DEF OnePlace
  <2> QED BY <2>1, <2>2
<1>3. ASSUME NEW q, NEW w, NEW j, IsPlace(N2, q, w, j), ~T2[q][w][j].addr.glob
      PROVE  /\ T2[q][w][j].addr.idx \in V
             /\ N2[q][w][j].own => o[T2[q][w][j].addr.idx] = Place(q, w, j)
             /\ ~N2[q][w][j].own => Under(o[T2[q][w][j].addr.idx].p, q)
  <2>1. CASE q = p /\ w = v /\ j = k
    BY <1>3, <2>1
  <2>2. CASE IsPlace(N, q, w, j)
    <3>1. N2[q][w][j] = N[q][w][j] /\ T2[q][w][j] = T[q][w][j]
      BY <2>2 DEF OnePlace
    <3> QED BY <1>3, <2>2, <3>1 DEF CellsFit
  <2> QED BY <1>3, <2>1, <2>2 DEF OnePlace
<1> QED BY <1>2, <1>3 DEF CellsFit

\* A name is taken back.
LEMMA TakeCells ==
  ASSUME NEW N, NEW T, NEW N2, NEW T2, NEW p, NEW v, NEW k, NEW V, NEW o,
         CellsFit(T, V, N, o), OnePlace(N2, T2, N, T, p, v, k), ~N[p][v][k].own
  PROVE  CellsFit(T2, V, N2, o)
<1>2. ASSUME NEW d \in V
      PROVE  \E q, w, j : /\ IsPlace(N2, q, w, j) /\ o[d] = Place(q, w, j)
                          /\ N2[q][w][j].own /\ T2[q][w][j].addr.idx = d
  <2>1. PICK q, w, j : /\ IsPlace(N, q, w, j) /\ o[d] = Place(q, w, j)
                       /\ N[q][w][j].own /\ T[q][w][j].addr.idx = d
    BY DEF CellsFit
  <2>2. IsPlace(N2, q, w, j)
    BY <2>1 DEF OnePlace
  <2>3. N2[q][w][j] = N[q][w][j] /\ T2[q][w][j] = T[q][w][j]
    BY <2>2 DEF OnePlace
  <2> QED BY <2>1, <2>2, <2>3
<1>3. ASSUME NEW q, NEW w, NEW j, IsPlace(N2, q, w, j), ~T2[q][w][j].addr.glob
      PROVE  /\ T2[q][w][j].addr.idx \in V
             /\ N2[q][w][j].own => o[T2[q][w][j].addr.idx] = Place(q, w, j)
             /\ ~N2[q][w][j].own => Under(o[T2[q][w][j].addr.idx].p, q)
  <2>1. IsPlace(N, q, w, j) /\ N2[q][w][j] = N[q][w][j] /\ T2[q][w][j] = T[q][w][j]
    BY <1>3 DEF OnePlace
  <2> QED BY <1>3, <2>1 DEF CellsFit
<1> QED BY <1>2, <1>3 DEF CellsFit

-----------------------------------------------------------------------------
(* What the instructions do to names and memory *)

MemIs(m) ==
  /\ DOMAIN m = {"alloc", "table", "nest", "heap", "var"}
  /\ DOMAIN m.table = Proc /\ DOMAIN m.nest = Proc
  /\ m.var = [c \in DOMAIN m.var |-> m.var[c]]
  /\ m.alloc = [v \in DOMAIN m.alloc |-> m.alloc[v]]
  /\ \A v \in DOMAIN m.alloc : m.alloc[v] \in [glob : {TRUE}, idx : Nat]

\* The memory m, when N are the names of the processes, D their depths, and o the places
\* that cells have been allocated for.
NamesFit(m, N, D) ==
  MemIs(m) /\ \A p \in Proc : m.nest[p] = D[p] /\ TableFits(m.table[p], N[p])
MemFits(m, N, D, o) == NamesFit(m, N, D) /\ CellsFit(m.table, DOMAIN m.var, N, o)

\* m2 is m but for values.
Alike(m, m2) ==
  /\ MemIs(m2) /\ DOMAIN m2.var = DOMAIN m.var
  /\ m2.table = m.table /\ m2.nest = m.nest /\ m2.alloc = m.alloc

\* m2 is m but for the table t of p.
Rebound(m, m2, p, t) ==
  /\ MemIs(m2) /\ m2.var = m.var /\ m2.nest = m.nest /\ m2.alloc = m.alloc
  /\ m2.table = [m.table EXCEPT ![p] = t]

\* Memories that are alike fit the same names.
LEMMA AlikeFits ==
  ASSUME NEW m, NEW m2, NEW N, NEW D, NEW o, MemFits(m, N, D, o), Alike(m, m2)
  PROVE  MemFits(m2, N, D, o)
BY DEF MemFits, NamesFit, Alike

\* Names are found in the tables and among the globals, and nowhere else.
LEMMA AlikeNames ==
  ASSUME NEW m, NEW m2, m2.table = m.table, m2.alloc = m.alloc
  PROVE  \A p, v : AddrOfName(m2, p, v) = AddrOfName(m, p, v)
BY DEF AddrOfName, Bound, Top

\* A store to a cell in use changes values only.
LEMMA StoreAlike ==
  ASSUME NEW m, MemIs(m), NEW a, NEW x, a.glob \/ a.idx \in DOMAIN m.var
  PROVE  Alike(m, Store(m, a, x))
<1>1. PICK m2 : m2 = Store(m, a, x)
  OBVIOUS
<1>2. CASE a.glob
  <2>1. PICK h : h = Entered(m.heap, {a.idx}, x)
    OBVIOUS
  <2>2. m2 = [m EXCEPT !.heap = h]
    BY <1>1, <1>2, <2>1 DEF Store
  <2>3. /\ DOMAIN m2 = DOMAIN m /\ m2.var = m.var
        /\ m2.table = m.table /\ m2.nest = m.nest /\ m2.alloc = m.alloc
    BY <2>2 DEF MemIs
  <2> QED BY <1>1, <2>3 DEF MemIs, Alike
<1>3. CASE ~a.glob
  <2>1. PICK h : h = Entered(m.var, {a.idx}, x)
    OBVIOUS
  <2>2. m2 = [m EXCEPT !.var = h]
    BY <1>1, <1>3, <2>1 DEF Store
  <2>3. /\ DOMAIN m2 = DOMAIN m /\ m2.var = h
        /\ m2.table = m.table /\ m2.nest = m.nest /\ m2.alloc = m.alloc
    BY <2>2 DEF MemIs
  <2>4. DOMAIN h = DOMAIN m.var /\ h = [c \in DOMAIN h |-> h[c]]
    BY <1>3, <2>1 DEF Entered
  <2> QED BY <1>1, <2>3, <2>4 DEF MemIs, Alike
<1> QED BY <1>2, <1>3

\* The store of GetNewLocalAddr puts one cell more in use.
LEMMA StoreNew ==
  ASSUME NEW m, MemIs(m), NEW c, NEW x
  PROVE  LET m2 == Store(m, Local(c), x) IN
         /\ MemIs(m2) /\ DOMAIN m2.var = DOMAIN m.var \cup {c}
         /\ m2.table = m.table /\ m2.nest = m.nest /\ m2.alloc = m.alloc
<1>1. PICK m2, h : m2 = Store(m, Local(c), x) /\ h = Entered(m.var, {c}, x)
  OBVIOUS
<1>2. m2 = [m EXCEPT !.var = h]
  BY <1>1 DEF Store, Local
<1>3. /\ DOMAIN m2 = DOMAIN m /\ m2.var = h
      /\ m2.table = m.table /\ m2.nest = m.nest /\ m2.alloc = m.alloc
  BY <1>2 DEF MemIs
<1>4. DOMAIN h = DOMAIN m.var \cup {c} /\ h = [d \in DOMAIN h |-> h[d]]
  BY <1>1 DEF Entered
<1>5. /\ MemIs(m2) /\ DOMAIN m2.var = DOMAIN m.var \cup {c}
      /\ m2.table = m.table /\ m2.nest = m.nest /\ m2.alloc = m.alloc
  BY <1>3, <1>4 DEF MemIs
<1> QED BY <1>1, <1>5

\* RegisterLocal and DeleteLocal change one table.
LEMMA BindTables ==
  ASSUME NEW m, MemIs(m), NEW p \in Proc, NEW v, NEW a
  PROVE  Rebound(m, Bind(m, p, v, a), p, Opened(m.table[p], v, [addr |-> a, nest |-> m.nest[p]]))
<1>1. PICK m2, t : m2 = Bind(m, p, v, a) /\ t = Opened(m.table[p], v, [addr |-> a, nest |-> m.nest[p]])
  OBVIOUS
<1>2. m2 = [m EXCEPT !.table[p] = t]
  BY <1>1 DEF Bind, Bound, Opened, Stack, MemIs
<1>3. /\ DOMAIN m2 = DOMAIN m /\ m2.var = m.var /\ m2.nest = m.nest /\ m2.alloc = m.alloc
      /\ m2.table = [m.table EXCEPT ![p] = t]
  BY <1>2 DEF MemIs
<1>4. DOMAIN m2.table = Proc
  BY <1>3 DEF MemIs
<1> QED BY <1>1, <1>3, <1>4 DEF Rebound, MemIs

\* Unbind takes the last binding of a name out of one table (symtab.go, UnsetAddr and DeleteLocal).
LEMMA UnbindTables ==
  ASSUME NEW m, MemIs(m), NEW p \in Proc, NEW v
  PROVE  Rebound(m, Unbind(m, p, v), p, Closed(m.table[p], v))
<1>1. PICK m2, t : m2 = Unbind(m, p, v) /\ t = Closed(m.table[p], v)
  OBVIOUS
<1>2. m2 = [m EXCEPT !.table[p] = t]
  BY <1>1 DEF Unbind, Closed, MemIs
<1>3. /\ DOMAIN m2 = DOMAIN m /\ m2.var = m.var /\ m2.nest = m.nest /\ m2.alloc = m.alloc
      /\ m2.table = [m.table EXCEPT ![p] = t]
  BY <1>2 DEF MemIs
<1>4. DOMAIN m2.table = Proc
  BY <1>3 DEF MemIs
<1> QED BY <1>1, <1>3, <1>4 DEF Rebound, MemIs

\* The cell that UnsetAddr gives up goes out of use.
LEMMA FreedIs ==
  ASSUME NEW m, MemIs(m), NEW c
  PROVE  LET m2 == [m EXCEPT !.var = [d \in DOMAIN @ \ {c} |-> @[d]]] IN
         /\ MemIs(m2) /\ DOMAIN m2.var = DOMAIN m.var \ {c}
         /\ m2.table = m.table /\ m2.nest = m.nest /\ m2.alloc = m.alloc
<1>1. PICK m2, h : m2 = [m EXCEPT !.var = h] /\ h = [d \in DOMAIN m.var \ {c} |-> m.var[d]]
  OBVIOUS
<1>2. m2 = [m EXCEPT !.var = [d \in DOMAIN @ \ {c} |-> @[d]]]
  BY <1>1 DEF MemIs
<1>3. /\ DOMAIN m2 = DOMAIN m /\ m2.var = h
      /\ m2.table = m.table /\ m2.nest = m.nest /\ m2.alloc = m.alloc
  BY <1>1 DEF MemIs
<1>4. DOMAIN h = DOMAIN m.var \ {c} /\ h = [d \in DOMAIN h |-> h[d]]
  BY <1>1
<1>5. /\ MemIs(m2) /\ DOMAIN m2.var = DOMAIN m.var \ {c}
      /\ m2.table = m.table /\ m2.nest = m.nest /\ m2.alloc = m.alloc
  BY <1>3, <1>4 DEF MemIs
<1> QED BY <1>2, <1>5

\* N2 is N, where p has v bound once more, to slot.
OpenedAt(N, N2, p, v, slot) ==
  /\ p \in Proc /\ Stacks(N[p], SlotSet) /\ slot \in SlotSet
  /\ N2[p] = Opened(N[p], v, slot) /\ \A q \in Proc : q # p => N2[q] = N[q]

\* m2 is m, where v of p is bound to the address a.
BoundTo(m, m2, p, v, a) ==
  /\ a \in Address
  /\ Rebound(m, m2, p, Opened(m.table[p], v, [addr |-> a, nest |-> m.nest[p]]))

\* A name is bound once more, in the frame and in the machine.
LEMMA BindGrows ==
  ASSUME NEW m, NEW m2, NEW N, NEW N2, NEW D, NEW p, NEW v, NEW a, NEW slot,
         NamesFit(m, N, D), OpenedAt(N, N2, p, v, slot), BoundTo(m, m2, p, v, a),
         slot.nest = D[p], slot.arr => a.glob, slot.own => ~a.glob
  PROVE  /\ \A q \in Proc : TableFits(m2.table[q], N2[q])
         /\ NewPlace(N, m.table, N2, m2.table, p, v, slot, a)
<1>0. /\ p \in Proc /\ Stacks(N[p], SlotSet) /\ slot \in SlotSet /\ a \in Address
      /\ N2[p] = Opened(N[p], v, slot) /\ \A q \in Proc : q # p => N2[q] = N[q]
  BY DEF OpenedAt, BoundTo
<1>1. PICK b, t, T, T2 : b = [addr |-> a, nest |-> m.nest[p]] /\ t = Opened(m.table[p], v, b)
                         /\ T = m.table /\ T2 = m2.table
  OBVIOUS
<1>2. m.nest[p] = D[p] /\ TableFits(T[p], N[p]) /\ DOMAIN T = Proc
  BY <1>0, <1>1 DEF NamesFit, MemIs
<1>3. b.nest = slot.nest /\ b.addr = a /\ b \in Binding
  BY <1>0, <1>1, <1>2 DEF Binding, SlotSet
<1>4. T2 = [T EXCEPT ![p] = t]
  BY <1>0, <1>1 DEF Rebound, BoundTo
<1>5. T2[p] = t /\ \A q \in Proc : q # p => T2[q] = T[q]
  BY <1>0, <1>2, <1>4
<1>6. PICK n : Grown(T[p], t, v, b, n) /\ Tabled(t, Binding)
  BY <1>0, <1>1, <1>2, <1>3, OpenedGrows DEF TableFits, Tabled
<1>7. PICK k : Grown(N[p], N2[p], v, slot, k)
  BY <1>0, OpenedGrows
<1>8. n = k /\ TableFits(t, N2[p])
  BY <1>0, <1>2, <1>3, <1>6, <1>7, FitsGrown
<1>9. \A q \in Proc : TableFits(T2[q], N2[q])
  <2> SUFFICES ASSUME NEW q \in Proc PROVE TableFits(T2[q], N2[q])
    OBVIOUS
  <2>1. CASE q = p
    BY <1>0, <1>5, <1>8, <2>1
  <2>2. CASE q # p
    <3>1. TableFits(T[q], N[q])
      BY <1>0, <1>1 DEF NamesFit
    <3> QED BY <1>0, <1>5, <2>2, <3>1
  <2> QED BY <1>0, <2>1, <2>2
<1>10. DOMAIN T[p] = DOMAIN N[p]
  BY <1>0, <1>2 DEF TableFits
<1>11. /\ OnePlace(N, T, N2, T2, p, v, n + 1)
       /\ N2[p][v][n + 1] = slot /\ T2[p][v][n + 1] = b
  <2>1. GrownAt(N, T, N2, T2, p, v, slot, b, n)
    BY <1>0, <1>5, <1>6, <1>7, <1>8, <1>10 DEF GrownAt
  <2> QED BY <1>0, <2>1, GrownPlace
<1> QED BY <1>1, <1>3, <1>9, <1>11 DEF NewPlace

\* The last binding of a name is taken back, in the frame and in the machine.
LEMMA UnbindShrinks ==
  ASSUME NEW m, NEW m2, NEW N, NEW N2, NEW D, NEW p, NEW v, NEW slot,
         NamesFit(m, N, D), OpenedAt(N2, N, p, v, slot),
         Rebound(m, m2, p, Closed(m.table[p], v))
  PROVE  /\ \A q \in Proc : TableFits(m2.table[q], N2[q])
         /\ NewPlace(N2, m2.table, N, m.table, p, v, slot, Top(m, p, v).addr)
<1>0. /\ p \in Proc /\ Stacks(N2[p], SlotSet) /\ slot \in SlotSet
      /\ N[p] = Opened(N2[p], v, slot) /\ \A q \in Proc : q # p => N2[q] = N[q]
  BY DEF OpenedAt
<1>1. PICK t, T, T2 : t = Closed(m.table[p], v) /\ T = m.table /\ T2 = m2.table
  OBVIOUS
<1>2. TableFits(T[p], N[p]) /\ DOMAIN T = Proc
  BY <1>0, <1>1 DEF NamesFit, MemIs
<1>3. T2 = [T EXCEPT ![p] = t]
  BY <1>0, <1>1 DEF Rebound, BoundTo
<1>4. T2[p] = t /\ \A q \in Proc : q # p => T2[q] = T[q]
  BY <1>0, <1>2, <1>3
<1>5. PICK k : Grown(N2[p], N[p], v, slot, k)
  BY <1>0, OpenedGrows
<1>6. v \in DOMAIN T[p]
  BY <1>0, <1>2, <1>5 DEF Grown, TableFits
<1>7. PICK n : Grown(t, T[p], v, Last(T[p][v]), n) /\ Tabled(t, Binding)
  BY <1>0, <1>1, <1>2, <1>6, ClosedShrinks DEF TableFits, Tabled
<1>8. n = k /\ TableFits(t, N2[p])
  BY <1>0, <1>2, <1>5, <1>7, FitsShrunk
<1>9. \A q \in Proc : TableFits(T2[q], N2[q])
  <2> SUFFICES ASSUME NEW q \in Proc PROVE TableFits(T2[q], N2[q])
    OBVIOUS
  <2>1. CASE q = p
    BY <1>0, <1>4, <1>8, <2>1
  <2>2. CASE q # p
    <3>1. TableFits(T[q], N[q])
      BY <1>0, <1>1 DEF NamesFit
    <3> QED BY <1>0, <1>4, <2>2, <3>1
  <2> QED BY <1>0, <2>1, <2>2
<1>10. DOMAIN T2[p] = DOMAIN N2[p]
  BY <1>0, <1>4, <1>8 DEF TableFits
<1>11. /\ OnePlace(N2, T2, N, T, p, v, n + 1)
       /\ N[p][v][n + 1] = slot /\ T[p][v][n + 1] = Last(T[p][v])
  <2>1. GrownAt(N2, T2, N, T, p, v, slot, Last(T[p][v]), n)
    BY <1>0, <1>4, <1>5, <1>7, <1>8, <1>10 DEF GrownAt
  <2> QED BY <1>0, <2>1, GrownPlace
<1> QED BY <1>1, <1>9, <1>11 DEF NewPlace, Top

\* set gives a name an address.
LEMMA GiveFits ==
  ASSUME NEW m, NEW N, NEW N2, NEW D, NEW o, NEW p, NEW v, NEW a \in Address, NEW slot,
         MemFits(m, N, D, o), OpenedAt(N, N2, p, v, slot),
         slot.nest = D[p], ~slot.own, slot.arr => a.glob,
         ~a.glob => a.idx \in DOMAIN m.var /\ Under(o[a.idx].p, p)
  PROVE  MemFits(Bind(m, p, v, a), N2, D, o)
<1>1. PICK m2 : m2 = Bind(m, p, v, a)
  OBVIOUS
<1>2. BoundTo(m, m2, p, v, a)
  BY <1>1, BindTables DEF MemFits, NamesFit, OpenedAt, BoundTo
<1>3. \A q \in Proc : TableFits(m2.table[q], N2[q])
  BY <1>2, BindGrows DEF MemFits
<1>4. NewPlace(N, m.table, N2, m2.table, p, v, slot, a)
  BY <1>2, BindGrows DEF MemFits
<1>5. CellsFit(m2.table, DOMAIN m.var, N2, o)
  <2>1. CellsFit(m.table, DOMAIN m.var, N, o)
    BY DEF MemFits
  <2> QED BY <1>4, <2>1, GiveCells DEF NewPlace
<1>6. MemIs(m2) /\ m2.var = m.var /\ m2.nest = m.nest
  BY <1>2 DEF Rebound, BoundTo
<1> QED BY <1>1, <1>3, <1>5, <1>6 DEF MemFits, NamesFit

\* unset takes a name back.
LEMMA TakeFits ==
  ASSUME NEW m, NEW N, NEW N2, NEW D, NEW o, NEW p, NEW v, NEW slot,
         MemFits(m, N, D, o), OpenedAt(N2, N, p, v, slot), ~slot.own
  PROVE  MemFits(Unbind(m, p, v), N2, D, o)
<1>1. PICK m2 : m2 = Unbind(m, p, v)
  OBVIOUS
<1>2. Rebound(m, m2, p, Closed(m.table[p], v))
  BY <1>1, UnbindTables DEF MemFits, NamesFit, OpenedAt
<1>3. \A q \in Proc : TableFits(m2.table[q], N2[q])
  BY <1>2, UnbindShrinks DEF MemFits
<1>4. NewPlace(N2, m2.table, N, m.table, p, v, slot, Top(m, p, v).addr)
  BY <1>2, UnbindShrinks DEF MemFits
<1>5. CellsFit(m2.table, DOMAIN m.var, N2, o)
  <2>1. CellsFit(m.table, DOMAIN m.var, N, o)
    BY DEF MemFits
  <2> QED BY <1>4, <2>1, TakeCells DEF NewPlace
<1>6. MemIs(m2) /\ m2.var = m.var /\ m2.nest = m.nest
  BY <1>2 DEF Rebound
<1> QED BY <1>1, <1>3, <1>5, <1>6 DEF MemFits, NamesFit

\* A finite set of numbers does not have all those up to its size.
LEMMA FreshExists ==
  ASSUME NEW m, IsFiniteSet(DOMAIN m.var)
  PROVE  FreshCell(m) \in Nat \ DOMAIN m.var
<1>1. PICK n \in Nat : n = Cardinality(DOMAIN m.var)
  BY FS_CardinalityType
<1>2. IsFiniteSet(0 .. n) /\ Cardinality(0 .. n) = n + 1
  <2>1. 0 \in Int /\ n \in Int /\ ~(0 > n) /\ n - 0 + 1 = n + 1
    OBVIOUS
  <2>2. IsFiniteSet(0 .. n) /\ Cardinality(0 .. n) = IF 0 > n THEN 0 ELSE n - 0 + 1
    BY ONLY <2>1, FS_Interval, Zenon
  <2> QED BY <2>1, <2>2, Zenon
<1>3. \E c \in 0 .. n : c \notin DOMAIN m.var
  <2>1. SUFFICES ASSUME 0 .. n \subseteq DOMAIN m.var PROVE FALSE
    OBVIOUS
  <2>2. Cardinality(0 .. n) <= n
    BY <1>1, <2>1, FS_Subset
  <2> QED BY <1>2, <2>2
<1>4. FreshCell(m) \in 0 .. n /\ FreshCell(m) \notin DOMAIN m.var
  BY <1>1, <1>3 DEF FreshCell
<1> QED BY <1>4

\* $x, when x is not bound here, is a cell of its own.
LEMMA AllocateFits ==
  ASSUME NEW m, NEW N, NEW N2, NEW D, NEW o, NEW p, NEW v,
         MemFits(m, N, D, o), OpenedAt(N, N2, p, v, Slot(D[p], TRUE, FALSE))
  PROVE  \E o2 : MemFits(Allocate(m, p, v), N2, D, o2)
<1>1. PICK c : c = FreshCell(m)
  OBVIOUS
<1>2. c \in Nat \ DOMAIN m.var
  BY <1>1, FreshExists DEF MemFits, CellsFit
<1>3. PICK m1 : m1 = Store(m, Local(c), 0)
  OBVIOUS
<1>4. /\ MemIs(m1) /\ DOMAIN m1.var = DOMAIN m.var \cup {c}
      /\ m1.table = m.table /\ m1.nest = m.nest
  BY <1>3, StoreNew DEF MemFits, NamesFit
<1>5. PICK m2 : m2 = Bind(m1, p, v, Local(c))
  OBVIOUS
<1>7. PICK slot : slot = Slot(D[p], TRUE, FALSE) /\ OpenedAt(N, N2, p, v, slot)
  OBVIOUS
<1>8. slot.nest = D[p] /\ slot.own /\ ~slot.arr
  BY <1>7 DEF Slot
<1>9. PICK a : a = Local(c)
  OBVIOUS
<1>10. a \in Address /\ ~a.glob /\ a.idx = c
  BY <1>2, <1>9 DEF Address, Local
<1>6. BoundTo(m1, m2, p, v, a)
  BY <1>4, <1>5, <1>9, <1>10, BindTables DEF BoundTo, OpenedAt
<1>11. NamesFit(m1, N, D)
  BY <1>4 DEF MemFits, NamesFit
<1>12. \A q \in Proc : TableFits(m2.table[q], N2[q])
  BY <1>6, <1>7, <1>8, <1>10, <1>11, BindGrows
<1>0. NewPlace(N, m1.table, N2, m2.table, p, v, slot, a)
  BY <1>6, <1>7, <1>8, <1>10, <1>11, BindGrows
<1>13. PICK k : /\ OnePlace(N, m1.table, N2, m2.table, p, v, k)
               /\ N2[p][v][k] = slot /\ m2.table[p][v][k].addr = a
  BY <1>0 DEF NewPlace
<1>14. PICK o2 : o2 = [d \in DOMAIN m.var \cup {c} |-> IF d = c THEN Place(p, v, k) ELSE o[d]]
  OBVIOUS
<1>15. o2[c] = Place(p, v, k) /\ \A d \in DOMAIN m.var : o2[d] = o[d]
  BY <1>2, <1>14
<1>16. CellsFit(m1.table, DOMAIN m.var, N, o)
  BY <1>4 DEF MemFits
<1>17. CellsFit(m2.table, DOMAIN m.var \cup {c}, N2, o2)
  BY <1>2, <1>8, <1>10, <1>13, <1>15, <1>16, AllocateCells
<1>18. MemIs(m2) /\ m2.var = m1.var /\ m2.nest = m1.nest
  BY <1>6 DEF Rebound, BoundTo
<1>19. MemFits(m2, N2, D, o2)
  BY <1>4, <1>12, <1>17, <1>18 DEF MemFits, NamesFit
<1>20. Allocate(m, p, v) = m2
  BY <1>1, <1>3, <1>5 DEF Allocate
<1> QED BY <1>19, <1>20

\* $x, when x is bound here to a cell of its own, gives the cell up: no name is bound to it,
\* if no process under this one has a name.
LEMMA DeallocateFits ==
  ASSUME NEW m, NEW N, NEW N2, NEW D, NEW o, NEW p, NEW v,
         MemFits(m, N, D, o), OpenedAt(N2, N, p, v, Slot(D[p], TRUE, FALSE)),
         \A q \in Proc : Under(p, q) => DOMAIN N[q] = {}
  PROVE  MemFits(Deallocate(m, p, v), N2, D, o)
<1>1. PICK slot : slot = Slot(D[p], TRUE, FALSE) /\ OpenedAt(N2, N, p, v, slot) /\ slot.own
  BY DEF Slot
<1>2. PICK a : a = Top(m, p, v).addr
  OBVIOUS
<1>3. p \in Proc /\ MemIs(m)
  BY DEF OpenedAt, MemFits, NamesFit
<1>4. PICK u : u = Unbind(m, p, v) /\ Rebound(m, u, p, Closed(m.table[p], v))
  BY <1>3, UnbindTables
<1>5. NewPlace(N2, u.table, N, m.table, p, v, slot, a)
  BY <1>1, <1>2, <1>4, UnbindShrinks DEF MemFits
<1>6. \A q \in Proc : TableFits(u.table[q], N2[q])
  BY <1>1, <1>4, UnbindShrinks DEF MemFits
<1>7. PICK k : /\ OnePlace(N2, u.table, N, m.table, p, v, k)
              /\ N[p][v][k] = slot /\ m.table[p][v][k].addr = a
  BY <1>5 DEF NewPlace
<1>8. ~a.glob
  <2>1. v \in DOMAIN N[p] /\ k \in 1 .. Len(N[p][v]) /\ TableFits(m.table[p], N[p])
    BY <1>3, <1>7 DEF OnePlace, IsPlace, MemFits, NamesFit
  <2> QED BY <1>1, <1>7, <2>1 DEF TableFits
<1>9. PICK f : f = [m EXCEPT !.var = [d \in DOMAIN @ \ {a.idx} |-> @[d]]]
  OBVIOUS
<1>10. /\ MemIs(f) /\ DOMAIN f.var = DOMAIN m.var \ {a.idx}
       /\ f.table = m.table /\ f.nest = m.nest
  BY <1>3, <1>9, FreedIs
<1>11. PICK m2 : m2 = Unbind(f, p, v) /\ Rebound(f, m2, p, Closed(f.table[p], v))
  BY <1>3, <1>10, UnbindTables
<1>12. MemIs(m2) /\ m2.var = f.var /\ m2.nest = m.nest /\ m2.table = u.table
  BY <1>4, <1>10, <1>11 DEF Rebound
<1>13. \A q, w, j : IsPlace(N, q, w, j) => ~Under(p, q)
  BY DEF IsPlace
<1>14. CellsFit(u.table, DOMAIN m.var \ {a.idx}, N2, o)
  <2>1. CellsFit(m.table, DOMAIN m.var, N, o)
    BY DEF MemFits
  <2>2. N[p][v][k].own /\ ~m.table[p][v][k].addr.glob
    BY <1>1, <1>7, <1>8
  <2>3. CellsFit(u.table, DOMAIN m.var \ {m.table[p][v][k].addr.idx}, N2, o)
    BY <1>7, <1>13, <2>1, <2>2, DeallocateCells
  <2> QED BY <1>7, <2>3
<1>15. MemFits(m2, N2, D, o)
  BY <1>6, <1>10, <1>12, <1>14 DEF MemFits, NamesFit
<1>16. Deallocate(m, p, v) = m2
  BY <1>2, <1>8, <1>9, <1>11 DEF Deallocate
<1> QED BY <1>15, <1>16

-----------------------------------------------------------------------------
(* Operands *)

\* A process in the frame fr, with the memory m.
SeesAs(m, N, p, fr) ==
  p \in Proc /\ fr.names = N[p] /\ DOMAIN fr.globals = DOMAIN m.alloc /\ Stacks(fr.names, SlotSet)

\* An address that exists: of a global, or of a cell of the process or of one above it.
Reaches(m, o, p, a) ==
  /\ a \in Address /\ a # NoAddr
  /\ ~a.glob => a.idx \in DOMAIN m.var /\ (o[a.idx].p = p \/ Under(o[a.idx].p, p))

\* What is visible has an address, an array a global one.
LEMMA NameReaches ==
  ASSUME NEW m, NEW N, NEW D, NEW o, NEW p, NEW fr, NEW v,
         MemFits(m, N, D, o), SeesAs(m, N, p, fr), Visible(fr, v)
  PROVE  Reaches(m, o, p, AddrOfName(m, p, v)) /\ (IsArray(fr, v) => AddrOfName(m, p, v).glob)
<1>1. PICK a : a = AddrOfName(m, p, v)
  OBVIOUS
<1>2. p \in Proc /\ fr.names = N[p] /\ DOMAIN fr.globals = DOMAIN m.alloc /\ TableFits(m.table[p], N[p])
  BY DEF SeesAs, MemFits, NamesFit
<1>3. CASE v \in DOMAIN N[p]
  <2>1. PICK s : s = N[p][v] /\ s \in Seq(SlotSet) /\ s # << >>
    BY <1>2, <1>3 DEF SeesAs, Stacks
  <2>2. PICK n \in Nat : n = Len(s) /\ n > 0
    BY <2>1
  <2>3. PICK t : t = m.table[p][v] /\ t \in Seq(Binding) /\ Len(t) = n /\ v \in DOMAIN m.table[p]
    BY <1>2, <1>3, <2>1, <2>2 DEF TableFits, Tabled, Stacks
  <2>4. PICK b : b = t[n] /\ b \in Binding
    BY <2>2, <2>3
  <2>5. a = b.addr
    BY <1>1, <2>3, <2>4 DEF AddrOfName, Bound, Top, Last
  <2>6. IsPlace(N, p, v, n) /\ m.table[p][v][n] = b /\ N[p][v][n] = s[n]
    BY <1>2, <1>3, <2>1, <2>2, <2>3, <2>4 DEF IsPlace
  <2>7. ~a.glob => /\ a.idx \in DOMAIN m.var
                   /\ s[n].own => o[a.idx] = Place(p, v, n)
                   /\ ~s[n].own => Under(o[a.idx].p, p)
    BY <2>5, <2>6 DEF MemFits, CellsFit
  <2>8. ~a.glob => a.idx \in DOMAIN m.var /\ (o[a.idx].p = p \/ Under(o[a.idx].p, p))
    BY <2>7 DEF Place
  <2>9. a \in Address
    BY <2>4, <2>5 DEF Binding
  <2>10. a # NoAddr
    <3>1. ~a.glob => a.idx \in Nat
      BY <2>7 DEF MemFits, CellsFit
    <3> QED BY <3>1 DEF NoAddr
  <2>11. IsArray(fr, v) => a.glob
    <3>1. IsArray(fr, v) = s[n].arr
      BY <1>2, <1>3, <2>1, <2>2 DEF IsArray, Last
    <3>2. s[n].arr => b.addr.glob
      BY <1>2, <1>3, <2>1, <2>2, <2>3, <2>4 DEF TableFits
    <3> QED BY <2>5, <3>1, <3>2
  <2> QED BY <1>1, <2>8, <2>9, <2>10, <2>11 DEF Reaches
<1>4. CASE v \notin DOMAIN N[p]
  <2>1. v \in DOMAIN m.alloc /\ v \notin DOMAIN m.table[p]
    BY <1>2, <1>4 DEF Visible, TableFits
  <2>2. a = m.alloc[v]
    BY <1>1, <2>1 DEF AddrOfName, Bound
  <2>3. a \in [glob : {TRUE}, idx : Nat]
    BY <2>1, <2>2 DEF MemFits, NamesFit, MemIs
  <2>4. a \in Address /\ a.glob
    BY <2>3 DEF Address
  <2> QED BY <1>1, <2>4 DEF Reaches, NoAddr
<1> QED BY <1>3, <1>4

\* An operand that the frame admits is known, and where it is stored to is in use.
LEMMA OperandReaches ==
  ASSUME NEW m, NEW N, NEW D, NEW o, NEW p, NEW fr, NEW x,
         MemFits(m, N, D, o), SeesAs(m, N, p, fr), OperandOk(fr, x)
  PROVE  /\ Known(m, p, x)
         /\ x.k # "num" => AddrOf(m, p, x).glob \/ AddrOf(m, p, x).idx \in DOMAIN m.var
<1>1. CASE x.k = "num"
  BY <1>1 DEF Known
<1>2. CASE x.k = "ref" /\ Visible(fr, x.v)
  <2>1. Reaches(m, o, p, AddrOfName(m, p, x.v))
    BY <1>2, NameReaches
  <2>2. AddrOf(m, p, x) = AddrOfName(m, p, x.v)
    BY <1>2 DEF AddrOf
  <2> QED BY <1>2, <2>1, <2>2 DEF Known, Reaches
<1>3. CASE x.k = "elem" /\ Visible(fr, x.v) /\ IsArray(fr, x.v) /\ (x.i.k = "num" \/ Visible(fr, x.i.v))
  <2>1. PICK a : a = AddrOfName(m, p, x.v) /\ a \in Address /\ a # NoAddr /\ a.glob
    BY <1>3, NameReaches DEF Reaches
  <2>2. x.i.k = "num" \/ AddrOfName(m, p, x.i.v) # NoAddr
    BY <1>3, NameReaches DEF Reaches
  <2>3. PICK j : AddrOf(m, p, x) = [a EXCEPT !.idx = @ + j]
    BY <1>3, <2>1 DEF AddrOf
  <2>4. AddrOf(m, p, x).glob
    BY <2>1, <2>3 DEF Address
  <2> QED BY <1>3, <2>1, <2>2, <2>4 DEF Known
<1> QED BY <1>1, <1>2, <1>3 DEF OperandOk

\* The names in the operand x are visible.
Seen(fr, x) ==
  /\ x.k \in {"ref", "elem", "new"} => Visible(fr, x.v)
  /\ x.k = "elem" => x.i.k = "num" \/ Visible(fr, x.i.v)

\* What is seen is known, and lies below cell zero only if a value decides where.
LEMMA SeenLies ==
  ASSUME NEW m, NEW N, NEW D, NEW o, NEW p, NEW fr, NEW x,
         MemFits(m, N, D, o), SeesAs(m, N, p, fr), Seen(fr, x), x.k \in {"num", "ref", "elem", "new"}
  PROVE  Known(m, p, x) /\ (PlainOperand(x) => ~BelowZero(m, p, x))
<1>1. CASE x.k = "num"
  BY <1>1 DEF Known, BelowZero, IndexBelowZero
<1>2. CASE x.k \in {"ref", "elem", "new"}
  <2>1. PICK a : a = AddrOfName(m, p, x.v) /\ a \in Address /\ a # NoAddr
    BY <1>2, NameReaches DEF Seen, Reaches
  <2>2. x.k = "elem" => x.i.k = "num" \/ AddrOfName(m, p, x.i.v) # NoAddr
    BY NameReaches DEF Seen, Reaches
  <2>3. Known(m, p, x)
    BY <2>1, <2>2 DEF Known
  <2>4. ASSUME PlainOperand(x) PROVE ~BelowZero(m, p, x)
    <3>1. a.idx \in Nat
      BY <2>1 DEF Address
    <3>2. CASE x.k # "elem"
      <4>1. AddrOf(m, p, x) = a
        BY <2>1, <3>2 DEF AddrOf
      <4> QED BY <3>1, <3>2, <4>1 DEF BelowZero, IndexBelowZero
    <3>3. CASE x.k = "elem"
      <4>1. PICK n \in Nat : n = x.i.n /\ x.i.k = "num"
        BY <2>4, <3>3 DEF PlainOperand
      <4>2. AddrOf(m, p, x) = [a EXCEPT !.idx = @ + n]
        BY <2>1, <3>3, <4>1 DEF AddrOf
      <4>3. AddrOf(m, p, x).idx = a.idx + n
        BY <2>1, <4>2 DEF Address
      <4>4. a.idx + n \in Nat
        BY <3>1, <4>1
      <4> QED BY <3>3, <4>1, <4>3, <4>4 DEF BelowZero, IndexBelowZero
    <3> QED BY <3>2, <3>3
  <2> QED BY <2>3, <2>4
<1> QED BY <1>1, <1>2

\* What a frame admits, it sees, and so does a frame with more names.
LEMMA AdmittedSeen ==
  ASSUME NEW fr, NEW to, NEW x, OperandOk(fr, x), \A v : Visible(fr, v) => Visible(to, v)
  PROVE  Seen(to, x) /\ x.k \in {"num", "ref", "elem", "new"}
BY DEF OperandOk, Seen

\* A store to an operand that the frame admits.
LEMMA StoreFits ==
  ASSUME NEW m, NEW N, NEW D, NEW o, NEW a, NEW x,
         MemFits(m, N, D, o), a.glob \/ a.idx \in DOMAIN m.var
  PROVE  LET m2 == Store(m, a, x) IN
         MemFits(m2, N, D, o) /\ Alike(m, m2)
<1>1. PICK m2 : m2 = Store(m, a, x)
  OBVIOUS
<1>2. Alike(m, m2)
  BY <1>1, StoreAlike DEF MemFits, NamesFit
<1> QED BY <1>1, <1>2, AlikeFits

\* F and G, of processes, differ only at p.
SameBut(F, G, p) == \A q \in Proc : q # p => F[q] = G[q]

\* push and pop.
LEMMA NestFits ==
  ASSUME NEW m, NEW N, NEW D, NEW D2, NEW o, NEW p \in Proc, NEW d,
         MemFits(m, N, D, o), D2[p] = d, SameBut(D2, D, p)
  PROVE  LET m2 == [m EXCEPT !.nest[p] = d] IN
         MemFits(m2, N, D2, o) /\ m2.table = m.table /\ m2.alloc = m.alloc
<1>1. PICK m2 : m2 = [m EXCEPT !.nest[p] = d]
  OBVIOUS
<1>2. MemIs(m)
  BY DEF MemFits, NamesFit
<1>3. /\ DOMAIN m2 = DOMAIN m /\ m2.var = m.var /\ m2.table = m.table /\ m2.alloc = m.alloc
      /\ m2.nest = [m.nest EXCEPT ![p] = d]
  BY <1>1, <1>2 DEF MemIs
<1>4. DOMAIN m2.nest = Proc /\ m2.nest[p] = d /\ \A q \in Proc : q # p => m2.nest[q] = m.nest[q]
  BY <1>2, <1>3 DEF MemIs
<1>5. MemIs(m2)
  BY <1>2, <1>3, <1>4 DEF MemIs
<1>6. \A q \in Proc : m2.nest[q] = D2[q] /\ TableFits(m2.table[q], N[q])
  BY <1>3, <1>4 DEF MemFits, NamesFit, SameBut
<1>7. MemFits(m2, N, D2, o)
  BY <1>3, <1>5, <1>6 DEF MemFits, NamesFit
<1> QED BY <1>1, <1>3, <1>7

\* v is bound at the depth d.
BoundAt(names, v, d) == v \in DOMAIN names /\ Last(names[v]).nest = d

\* IsAllocatedLocal, in the frame.
LEMMA AllocatedHere ==
  ASSUME NEW m, NEW N, NEW D, NEW p \in Proc, NEW v, NamesFit(m, N, D), Stacks(N[p], SlotSet)
  PROVE  IsAllocatedLocal(m, p, v) <=> BoundAt(N[p], v, D[p])
<1>1. TableFits(m.table[p], N[p]) /\ m.nest[p] = D[p]
  BY DEF NamesFit
<1>2. DOMAIN m.table[p] = DOMAIN N[p]
  BY <1>1 DEF TableFits
<1>3. ASSUME v \in DOMAIN N[p] PROVE Top(m, p, v).nest = Last(N[p][v]).nest
  <2>1. PICK s : s = N[p][v] /\ s \in Seq(SlotSet) /\ s # << >>
    BY <1>1, <1>3 DEF Stacks
  <2>2. PICK n \in Nat : n = Len(s) /\ n > 0
    BY <2>1
  <2>3. m.table[p][v][n].nest = s[n].nest /\ Len(m.table[p][v]) = n
    BY <1>1, <1>3, <2>1, <2>2 DEF TableFits
  <2> QED BY <2>1, <2>2, <2>3 DEF Top, Last
<1> QED BY <1>1, <1>2, <1>3 DEF IsAllocatedLocal, Bound, BoundAt

-----------------------------------------------------------------------------
(* Frames *)

\* The backward form of an instruction leads back.
LEMMA MovesBack ==
  ASSUME NEW fr, NEW to, NEW i, FrameOk(fr), FrameOk(to), Moves(fr, i, to)
  PROVE  Moves(to, Backward(i), fr)
<1>1. CASE i.op = "upd" /\ Updates(fr, i, to)
  <2>1. PICK f : f = CASE i.f = "+" -> "-" [] i.f = "-" -> "+" [] i.f = "^" -> "^"
    OBVIOUS
  <2>2. PICK j : j = [i EXCEPT !.f = f]
    OBVIOUS
  <2>3. Backward(i) = j
    BY <1>1, <2>1, <2>2 DEF Backward
  <2>4. j.op = i.op /\ j.dst = i.dst /\ j.e = i.e /\ DOMAIN j = DOMAIN i
    BY <1>1, <2>2 DEF Updates
  <2>5. i.dst.k = "new" => to.locks = fr.locks /\ to.given = fr.given
    BY <1>1 DEF Updates, Declares, FrameOk
  <2>6. Updates(to, j, fr)
    BY <1>1, <2>4, <2>5, Zenon DEF Updates
  <2> QED BY <1>1, <2>3, <2>4, <2>6 DEF Moves
<1>2. CASE i.op \in {"push", "pop"}
  BY <1>2 DEF Moves, Backward, Push, Pop
<1>3. CASE i.op \in {"lock", "unlock"}
  <2>1. PICK j : j = Backward(i)
    OBVIOUS
  <2>2. j.vars = i.vars /\ j.op = IF i.op = "lock" THEN "unlock" ELSE "lock"
    BY <1>3, <2>1 DEF Backward, Lock, Unlock
  <2>3. Moves(to, j, fr)
    BY <1>3, <2>2 DEF Moves
  <2> QED BY <2>1, <2>3
<1>4. CASE i.op \in {"set", "unset"}
  <2>1. PICK j : j = Backward(i)
    OBVIOUS
  <2>2. /\ j.v = i.v /\ j.child = i.child /\ j.src = i.src
        /\ j.op = IF i.op = "set" THEN "unset" ELSE "set"
    BY <1>4, <2>1 DEF Backward, Set, Unset
  <2>3. Sets(fr, j, to) <=> Sets(fr, i, to)
    BY <2>2 DEF Sets
  <2>4. Sets(to, j, fr) <=> Sets(to, i, fr)
    BY <2>2 DEF Sets
  <2>5. Moves(to, j, fr)
    BY <1>4, <2>2, <2>3, <2>4 DEF Moves
  <2> QED BY <2>1, <2>5
<1>5. CASE i.op \in {"setg", "unsetg"}
  <2>1. PICK j : j = Backward(i)
    OBVIOUS
  <2>2. /\ j.v = i.v /\ j.cell = i.cell
        /\ j.op = IF i.op = "setg" THEN "unsetg" ELSE "setg"
    BY <1>5, <2>1 DEF Backward, SetGlobal, UnsetGlobal
  <2>3. SetsGlobal(fr, j, to) <=> SetsGlobal(fr, i, to)
    BY <2>2 DEF SetsGlobal
  <2>4. SetsGlobal(to, j, fr) <=> SetsGlobal(to, i, fr)
    BY <2>2 DEF SetsGlobal
  <2>5. Moves(to, j, fr)
    BY <1>5, <2>2, <2>3, <2>4 DEF Moves
  <2> QED BY <2>1, <2>5
<1>6. CASE i.op \in {"V", "P"}
  <2>1. PICK j : j = Backward(i)
    OBVIOUS
  <2>2. j.v = i.v /\ j.op \in {"V", "P"}
    BY <1>6, <2>1 DEF Backward, SemV, SemP
  <2>3. Moves(to, j, fr)
    BY <1>6, <2>2 DEF Moves
  <2> QED BY <2>1, <2>3
<1>7. CASE i.op \in {"swap", "skip", "call"}
  <2>1. Backward(i) = i
    BY <1>7 DEF Backward
  <2> QED BY <1>7, <2>1 DEF Moves
<1> QED BY <1>1, <1>2, <1>3, <1>4, <1>5, <1>6, <1>7 DEF Moves

\* The frame before the block of p, in the direction of the run, and the one behind it.
Here(pre, post, p) == IF rev THEN post[Base(p)] ELSE pre[Base(p)]
There(pre, post, p) == IF rev THEN pre[Base(p)] ELSE post[Base(p)]

\* A block leads from one to the other in both directions.
LEMMA HereToThere ==
  ASSUME NEW pre, NEW post, Framed(file, pre, post), NEW p, Base(p) \in DOMAIN pre
  PROVE  /\ FrameOk(Here(pre, post, p)) /\ FrameOk(There(pre, post, p))
         /\ Moves(Here(pre, post, p), Instr(p), There(pre, post, p))
<1>1. PICK b, i : b = Base(p) /\ i = LineAt(file, b + 1)
  OBVIOUS
<1>2. FrameOk(pre[b]) /\ FrameOk(post[b]) /\ Moves(pre[b], i, post[b])
  BY <1>1 DEF Framed
<1>3. Moves(post[b], Backward(i), pre[b])
  BY <1>2, MovesBack
<1>4. CASE rev
  BY <1>1, <1>2, <1>3, <1>4 DEF Here, There, Instr
<1>5. CASE ~rev
  BY <1>1, <1>2, <1>3, <1>5 DEF Here, There, Instr
<1> QED BY <1>4, <1>5

-----------------------------------------------------------------------------
(* Processes and their frames.  g[p] is the frame of p, and o[c] the binding that the *)
(* cell c has been allocated for.                                                     *)

NamesOf(g) == [p \in Proc |-> g[p].names]
DepthsOf(g) == [p \in Proc |-> g[p].depth]

\* The processes that hold the symbol s.
Holders(m, g, s) == {p \in Proc : s \in Symbols(m, p, g[p].locks)}

\* A lock word counts who holds the lock, and is there only while somebody does.
LocksFit(m, L, g) ==
  /\ L = [s \in DOMAIN L |-> L[s]]
  /\ \A s \in DOMAIN L : /\ IsFiniteSet(Holders(m, g, s)) /\ Holders(m, g, s) # {}
                         /\ L[s] = Cardinality(Holders(m, g, s))
  /\ \A p \in Proc : Symbols(m, p, g[p].locks) \subseteq DOMAIN L

\* The memory and the locks are those of the frames.
Fits(m, L, g, o) ==
  /\ \A p \in Proc : FrameOk(g[p])
  /\ DOMAIN m.alloc = DOMAIN g[Root].globals
  /\ MemFits(m, NamesOf(g), DepthsOf(g), o)
  /\ LocksFit(m, L, g)

\* Who does not run has what its parent gives it, and nothing else.
Idle(g, p) ==
  /\ g[p].depth = 0 /\ g[p].given = << >> /\ g[p].locks = {}
  /\ p # Root => g[p].names = Given(g[Front(p)], Last(p))

ProcOf(p) == IF p = Root THEN "main" ELSE Instr(Front(p)).procs[Last(p) + 1]

FramesFit(g) ==
  /\ \A p \in Proc \ running : Idle(g, p)
  /\ \A p \in running : g[p].globals = g[Root].globals /\ g[p].proc = ProcOf(p)
  /\ \A p \in waiting : Instr(p).op = "call"

\* The frames are those that the text has at the heads, and at its ends.
Linked(pre, post, g) ==
  /\ \A p \in running : Base(p) \in DOMAIN pre /\ g[p] = Here(pre, post, p)
  /\ Root \notin running =>
       g[Root] = IF rev THEN pre[file.begin["main"]] ELSE post[file.end["main"] - 2]

\* p goes on to the frame to, and its children have what that gives them.
Moved(g, p, to) ==
  [q \in Proc |-> IF q = p THEN to
                  ELSE IF q # Root /\ Front(q) = p THEN [g[q] EXCEPT !.names = Given(to, Last(q))]
                  ELSE g[q]]

\* p executes a block, in the frame fr: nobody it has called runs.
Executing(g, p, fr) ==
  /\ p \in running /\ running \subseteq Proc
  /\ fr = g[p] /\ fr.proc = ProcOf(p) /\ fr.globals = g[Root].globals
  /\ \A q \in running \ {Root} : Front(q) # p
  /\ \A q \in Proc \ running : Idle(g, q)

-----------------------------------------------------------------------------
\* The fields of a frame that is another but for one field.
LEMMA FrameFields ==
  ASSUME NEW fr, FrameOk(fr), NEW x
  PROVE  /\ LET to == [fr EXCEPT !.names = x] IN
              /\ DOMAIN to = DOMAIN fr /\ to.names = x /\ to.depth = fr.depth /\ to.proc = fr.proc
              /\ to.globals = fr.globals /\ to.given = fr.given /\ to.locks = fr.locks
         /\ LET to == [fr EXCEPT !.depth = x] IN
              /\ DOMAIN to = DOMAIN fr /\ to.depth = x /\ to.names = fr.names /\ to.proc = fr.proc
              /\ to.globals = fr.globals /\ to.given = fr.given /\ to.locks = fr.locks
         /\ LET to == [fr EXCEPT !.globals = x] IN
              /\ DOMAIN to = DOMAIN fr /\ to.globals = x /\ to.names = fr.names /\ to.proc = fr.proc
              /\ to.depth = fr.depth /\ to.given = fr.given /\ to.locks = fr.locks
         /\ LET to == [fr EXCEPT !.given = x] IN
              /\ DOMAIN to = DOMAIN fr /\ to.given = x /\ to.names = fr.names /\ to.proc = fr.proc
              /\ to.depth = fr.depth /\ to.globals = fr.globals /\ to.locks = fr.locks
         /\ LET to == [fr EXCEPT !.locks = x] IN
              /\ DOMAIN to = DOMAIN fr /\ to.locks = x /\ to.names = fr.names /\ to.proc = fr.proc
              /\ to.depth = fr.depth /\ to.globals = fr.globals /\ to.given = fr.given
BY DEF FrameOk

\* Where p goes on, and what its children are given.
LEMMA MovedIs ==
  ASSUME NEW g, NEW p \in Proc, NEW to, NEW h, h = Moved(g, p, to), \A q \in Proc : FrameOk(g[q])
  PROVE  /\ h[p] = to
         /\ \A q \in Proc : q # p /\ q # Root /\ Front(q) = p =>
              /\ DOMAIN h[q] = DOMAIN g[q] /\ h[q].names = Given(to, Last(q))
              /\ h[q].depth = g[q].depth /\ h[q].proc = g[q].proc /\ h[q].globals = g[q].globals
              /\ h[q].given = g[q].given /\ h[q].locks = g[q].locks
         /\ \A q \in Proc : q # p /\ ~(q # Root /\ Front(q) = p) => h[q] = g[q]
<1>2. h[p] = to
  BY DEF Moved
<1>3. ASSUME NEW q \in Proc, q # p, q # Root, Front(q) = p
      PROVE  /\ DOMAIN h[q] = DOMAIN g[q] /\ h[q].names = Given(to, Last(q))
             /\ h[q].depth = g[q].depth /\ h[q].proc = g[q].proc /\ h[q].globals = g[q].globals
             /\ h[q].given = g[q].given /\ h[q].locks = g[q].locks
  <2>1. PICK x, fr : x = Given(to, Last(q)) /\ fr = g[q] /\ FrameOk(fr)
    OBVIOUS
  <2>2. h[q] = [fr EXCEPT !.names = x]
    BY <1>3, <2>1 DEF Moved
  <2> QED BY <2>1, <2>2, FrameFields
<1>4. ASSUME NEW q \in Proc, q # p, ~(q # Root /\ Front(q) = p) PROVE h[q] = g[q]
  BY <1>4 DEF Moved
<1> QED BY <1>2, <1>3, <1>4

\* The children of a process that executes are idle.
LEMMA ChildrenIdle ==
  ASSUME NEW g, NEW p, NEW fr, Executing(g, p, fr), NEW q \in Proc, q # Root, Front(q) = p
  PROVE  q \notin running /\ Idle(g, q) /\ g[q].names = Given(fr, Last(q))
<1>1. q \notin running
  BY DEF Executing
<1> QED BY <1>1 DEF Executing, Idle

\* A sequence of one.
LEMMA OneOf ==
  ASSUME NEW S, NEW s \in S, NEW r, r = <<s>>
  PROVE  /\ r \in Seq(S) \ {<< >>} /\ Len(r) = 1
         /\ \A i \in 1 .. Len(r) : r[i] = s /\ \A j \in 1 .. Len(r) : ~(i < j)
<1>1. r \in Seq(S) /\ Len(r) = 1 /\ r[1] = s
  OBVIOUS
<1>2. r # << >>
  BY <1>1
<1>3. \A i \in 1 .. Len(r) : r[i] = s /\ \A j \in 1 .. Len(r) : ~(i < j)
  BY <1>1
<1> QED BY <1>1, <1>2, <1>3

\* Names that are given are not deeper than zero, and there is one of each.
LEMMA GivenOk ==
  ASSUME NEW fr, FrameOk(fr), NEW c
  PROVE  SlotsOk(Given(fr, c), 0)
<1>1. PICK names : names = Given(fr, c)
  OBVIOUS
<1>2. ASSUME NEW v \in DOMAIN names
      PROVE  /\ names[v] \in Seq(SlotSet) \ {<< >>}
             /\ \A i \in 1 .. Len(names[v]) :
                  /\ names[v][i].nest <= 0 /\ ~(names[v][i].own /\ names[v][i].arr)
                  /\ \A j \in 1 .. Len(names[v]) : i < j => names[v][i].nest < names[v][j].nest
  <2>1. c \in DOMAIN fr.given /\ names = fr.given[c]
    <3>1. CASE c \in DOMAIN fr.given
      BY <1>1, <3>1 DEF Given
    <3>2. CASE c \notin DOMAIN fr.given
      BY <1>1, <1>2, <3>2 DEF Given
    <3> QED BY <3>1, <3>2
  <2>2. PICK arr \in BOOLEAN : names[v] = <<Slot(0, FALSE, arr)>>
    BY <1>2, <2>1 DEF FrameOk, OnceEach
  <2>3. PICK s : s = Slot(0, FALSE, arr)
    OBVIOUS
  <2>4. s \in SlotSet /\ s.nest = 0 /\ ~s.own
    BY <2>3 DEF Slot, SlotSet
  <2>5. PICK r : r = <<s>> /\ r = names[v]
    BY <2>2, <2>3
  <2>6. r \in Seq(SlotSet) \ {<< >>} /\ \A i \in 1 .. Len(r) : r[i] = s /\ \A j \in 1 .. Len(r) : ~(i < j)
    BY <2>4, <2>5, OneOf
  <2>7. /\ r \in Seq(SlotSet) \ {<< >>}
        /\ \A i \in 1 .. Len(r) :
             /\ r[i].nest <= 0 /\ ~(r[i].own /\ r[i].arr)
             /\ \A j \in 1 .. Len(r) : i < j => r[i].nest < r[j].nest
    BY <2>4, <2>6
  <2> QED BY <2>5, <2>7
<1> QED BY <1>1, <1>2 DEF SlotsOk

\* The frames stay frames.
LEMMA MovedOk ==
  ASSUME NEW g, NEW p, NEW fr, NEW to, Executing(g, p, fr),
         \A q \in Proc : FrameOk(g[q]), FrameOk(to)
  PROVE  \A q \in Proc : FrameOk(Moved(g, p, to)[q])
<1>1. PICK h : h = Moved(g, p, to)
  OBVIOUS
<1>2. p \in Proc
  BY DEF Executing
<1> SUFFICES ASSUME NEW q \in Proc PROVE FrameOk(h[q])
  BY <1>1
<1>3. CASE q = p
  BY <1>1, <1>2, <1>3, MovedIs
<1>4. CASE q # p /\ q # Root /\ Front(q) = p
  <2>1. /\ DOMAIN h[q] = DOMAIN g[q] /\ h[q].names = Given(to, Last(q))
        /\ h[q].depth = g[q].depth /\ h[q].given = g[q].given
    BY <1>1, <1>2, <1>4, MovedIs
  <2>2. g[q].depth = 0 /\ FrameOk(g[q])
    BY <1>4, ChildrenIdle DEF Idle
  <2>3. SlotsOk(h[q].names, 0)
    BY <2>1, GivenOk
  <2>4. DOMAIN h[q] = {"proc", "depth", "globals", "names", "given", "locks"}
    BY <2>1, <2>2 DEF FrameOk
  <2>5. h[q].depth = 0 /\ h[q].depth \in Nat /\ SlotsOk(h[q].names, h[q].depth)
    BY <2>1, <2>2, <2>3
  <2>6. OnceEach(h[q].given)
    BY <2>1, <2>2 DEF FrameOk
  <2>7. \A v \in DOMAIN h[q].globals : h[q].globals[v] \in BOOLEAN
    <3>1. h[q].globals = g[q].globals
      BY <1>1, <1>2, <1>4, MovedIs
    <3> QED BY <2>2, <3>1 DEF FrameOk
  <2> QED BY <2>4, <2>5, <2>6, <2>7, Zenon DEF FrameOk
<1>5. CASE q # p /\ ~(q # Root /\ Front(q) = p)
  BY <1>1, <1>2, <1>5, MovedIs
<1> QED BY <1>3, <1>4, <1>5

\* When p gives its children what it has given before, only its own names can be others.
LEMMA MovedNames ==
  ASSUME NEW g, NEW p, NEW fr, NEW to, NEW h, h = Moved(g, p, to), Executing(g, p, fr),
         \A q \in Proc : FrameOk(g[q]), to.given = fr.given
  PROVE  NamesOf(h)[p] = to.names /\ SameBut(NamesOf(h), NamesOf(g), p)
<1>1. PICK N2, N : N2 = NamesOf(h) /\ N = NamesOf(g)
  OBVIOUS
<1>2. p \in Proc
  BY DEF Executing
<1>3. N2[p] = to.names
  BY <1>1, <1>2, MovedIs DEF NamesOf
<1>4. ASSUME NEW q \in Proc, q # p PROVE N2[q] = N[q]
  <2>1. N2[q] = h[q].names /\ N[q] = g[q].names
    BY <1>1 DEF NamesOf
  <2>2. CASE q # Root /\ Front(q) = p
    <3>1. h[q].names = Given(to, Last(q)) /\ g[q].names = Given(fr, Last(q))
      BY <1>1, <1>2, <1>4, <2>2, MovedIs, ChildrenIdle
    <3> QED BY <2>1, <3>1 DEF Given
  <2>3. CASE ~(q # Root /\ Front(q) = p)
    BY <1>1, <1>2, <1>4, <2>1, <2>3, MovedIs
  <2> QED BY <2>2, <2>3
<1> QED BY <1>1, <1>3, <1>4 DEF SameBut

\* The depths are others only for p.
LEMMA MovedDepths ==
  ASSUME NEW g, NEW p \in Proc, NEW to, NEW h, h = Moved(g, p, to), \A q \in Proc : FrameOk(g[q])
  PROVE  DepthsOf(h)[p] = to.depth /\ SameBut(DepthsOf(h), DepthsOf(g), p)
<1>1. PICK D2, D : D2 = DepthsOf(h) /\ D = DepthsOf(g)
  OBVIOUS
<1>2. D2[p] = to.depth
  BY <1>1, MovedIs DEF DepthsOf
<1>3. ASSUME NEW q \in Proc, q # p PROVE D2[q] = D[q]
  <2>1. h[q].depth = g[q].depth
    BY <1>1, <1>3, MovedIs
  <2> QED BY <1>1, <2>1 DEF DepthsOf
<1> QED BY <1>1, <1>2, <1>3 DEF SameBut

\* Locks stay with who holds them when the symbols that are held do.
LEMMA LocksKept ==
  ASSUME NEW m, NEW m2, NEW L, NEW g, NEW h, LocksFit(m, L, g),
         \A q \in Proc : h[q].locks = g[q].locks,
         \A q \in Proc : \A v \in g[q].locks : AddrOfName(m2, q, v) = AddrOfName(m, q, v)
  PROVE  LocksFit(m2, L, h)
<1>1. ASSUME NEW q \in Proc PROVE Symbols(m2, q, h[q].locks) = Symbols(m, q, g[q].locks)
  <2>1. \A v \in g[q].locks : SymName(m2, q, v) = SymName(m, q, v)
    BY <1>1 DEF SymName
  <2> QED BY <1>1, <2>1 DEF Symbols
<1>2. ASSUME NEW s PROVE Holders(m2, h, s) = Holders(m, g, s)
  BY <1>1 DEF Holders
<1> QED BY <1>1, <1>2 DEF LocksFit

-----------------------------------------------------------------------------
(* Instructions *)

\* What a process sees is what its frame says.
LEMMA Sees ==
  ASSUME NEW m, NEW L, NEW g, NEW o, Fits(m, L, g, o), NEW p \in Proc, g[p].globals = g[Root].globals
  PROVE  SeesAs(m, NamesOf(g), p, g[p])
<1>1. g[p].names = NamesOf(g)[p] /\ DOMAIN g[p].globals = DOMAIN m.alloc
  BY DEF NamesOf, Fits
<1>2. SlotsOk(g[p].names, g[p].depth)
  BY DEF Fits, FrameOk
<1>3. Stacks(g[p].names, SlotSet)
  BY <1>2 DEF SlotsOk, Stacks
<1> QED BY <1>1, <1>3 DEF SeesAs

\* The globals are those of the root.
LEMMA MovedGlobals ==
  ASSUME NEW g, NEW p, NEW fr, NEW to, Executing(g, p, fr), \A q \in Proc : FrameOk(g[q]),
         to.globals = fr.globals
  PROVE  Moved(g, p, to)[Root].globals = g[Root].globals
<1>1. p \in Proc /\ Root \in Proc /\ fr.globals = g[Root].globals
  BY ProcAssumption DEF Executing
<1>2. CASE p = Root
  BY <1>1, <1>2, MovedIs
<1>3. CASE p # Root
  BY <1>1, <1>3, MovedIs
<1> QED BY <1>2, <1>3

\* Whoever holds locks.
LEMMA MovedLocks ==
  ASSUME NEW g, NEW p \in Proc, NEW to, NEW h, h = Moved(g, p, to), \A q \in Proc : FrameOk(g[q])
  PROVE  h[p].locks = to.locks /\ \A q \in Proc : q # p => h[q].locks = g[q].locks
<1>2. h[p].locks = to.locks
  BY MovedIs
<1>3. ASSUME NEW q \in Proc, q # p PROVE h[q].locks = g[q].locks
  BY <1>3, MovedIs
<1> QED BY <1>2, <1>3

\* An instruction that leaves the frames of the other processes, their names and the globals
\* alone, and the addresses of what is locked.
LEMMA MovedFits ==
  ASSUME NEW m, NEW m2, NEW L, NEW g, NEW o, NEW o2, NEW p, NEW fr, NEW to,
         Executing(g, p, fr), Fits(m, L, g, o), FrameOk(to),
         to.locks = fr.locks, to.globals = fr.globals, m2.alloc = m.alloc,
         MemFits(m2, NamesOf(Moved(g, p, to)), DepthsOf(Moved(g, p, to)), o2),
         \A q \in Proc : \A v \in g[q].locks : AddrOfName(m2, q, v) = AddrOfName(m, q, v)
  PROVE  Fits(m2, L, Moved(g, p, to), o2)
<1>1. PICK h : h = Moved(g, p, to)
  OBVIOUS
<1>2. p \in Proc /\ fr = g[p] /\ \A q \in Proc : FrameOk(g[q])
  BY DEF Executing, Fits
<1>3. \A q \in Proc : FrameOk(h[q])
  BY <1>1, <1>2, MovedOk
<1>4. DOMAIN m2.alloc = DOMAIN h[Root].globals
  BY <1>1, <1>2, MovedGlobals DEF Fits
<1>5. \A q \in Proc : h[q].locks = g[q].locks
  <2>1. h[p].locks = to.locks
    BY <1>1, <1>2, MovedLocks
  <2>2. \A q \in Proc : q # p => h[q].locks = g[q].locks
    BY <1>1, <1>2, MovedLocks
  <2> QED BY <1>2, <2>1, <2>2
<1>6. LocksFit(m, L, g)
  BY DEF Fits
<1>7. LocksFit(m2, L, h)
  BY <1>5, <1>6, LocksKept
<1> QED BY <1>1, <1>3, <1>4, <1>7 DEF Fits

\* Functions on Proc.
LEMMA SameNames ==
  ASSUME NEW g, NEW h, \A q \in Proc : NamesOf(h)[q] = NamesOf(g)[q]
  PROVE  NamesOf(h) = NamesOf(g)
BY DEF NamesOf

\* The depths are the same ones.
LEMMA SameDepths ==
  ASSUME NEW g, NEW h, \A q \in Proc : DepthsOf(h)[q] = DepthsOf(g)[q]
  PROVE  DepthsOf(h) = DepthsOf(g)
BY DEF DepthsOf

\* What is true of a frame whose names, depth and gifts are those of another.
LEMMA MovedSame ==
  ASSUME NEW g, NEW p, NEW fr, NEW to, Executing(g, p, fr), \A q \in Proc : FrameOk(g[q]),
         to.given = fr.given
  PROVE  /\ to.names = fr.names => NamesOf(Moved(g, p, to)) = NamesOf(g)
         /\ to.depth = fr.depth => DepthsOf(Moved(g, p, to)) = DepthsOf(g)
<1>1. PICK h : h = Moved(g, p, to)
  OBVIOUS
<1>2. p \in Proc /\ fr = g[p]
  BY DEF Executing
<1>3. NamesOf(g)[p] = fr.names /\ DepthsOf(g)[p] = fr.depth
  BY <1>2 DEF NamesOf, DepthsOf
<1>4. ASSUME to.names = fr.names PROVE NamesOf(h) = NamesOf(g)
  <2>1. NamesOf(h)[p] = to.names /\ SameBut(NamesOf(h), NamesOf(g), p)
    BY <1>1, MovedNames
  <2>2. \A q \in Proc : NamesOf(h)[q] = NamesOf(g)[q]
    BY <1>3, <1>4, <2>1 DEF SameBut
  <2> QED BY <2>2, SameNames
<1>5. ASSUME to.depth = fr.depth PROVE DepthsOf(h) = DepthsOf(g)
  <2>1. DepthsOf(h)[p] = to.depth
    BY <1>1, <1>2, MovedDepths
  <2>2. SameBut(DepthsOf(h), DepthsOf(g), p)
    BY <1>1, <1>2, MovedDepths
  <2>3. \A q \in Proc : DepthsOf(h)[q] = DepthsOf(g)[q]
    BY <1>3, <1>5, <2>1, <2>2 DEF SameBut
  <2> QED BY <2>3, SameDepths
<1> QED BY <1>1, <1>4, <1>5

\* Values change and nothing else.
LEMMA ValuesFit ==
  ASSUME NEW m, NEW m2, NEW L, NEW g, NEW o, NEW p, NEW fr,
         Executing(g, p, fr), Fits(m, L, g, o), Alike(m, m2)
  PROVE  Fits(m2, L, Moved(g, p, fr), o)
<1>1. PICK h : h = Moved(g, p, fr)
  OBVIOUS
<1>2. p \in Proc /\ fr = g[p] /\ \A q \in Proc : FrameOk(g[q])
  BY DEF Executing, Fits
<1>3. NamesOf(h) = NamesOf(g) /\ DepthsOf(h) = DepthsOf(g)
  BY <1>1, <1>2, MovedSame
<1>4. MemFits(m2, NamesOf(h), DepthsOf(h), o)
  BY <1>3, AlikeFits DEF Fits
<1>5. m2.alloc = m.alloc /\ \A q, v : AddrOfName(m2, q, v) = AddrOfName(m, q, v)
  BY AlikeNames DEF Alike
<1> QED BY <1>1, <1>2, <1>4, <1>5, MovedFits

\* push and pop.
LEMMA NestMoves ==
  ASSUME NEW m, NEW L, NEW g, NEW o, NEW p, NEW fr, NEW to, NEW d,
         Executing(g, p, fr), Fits(m, L, g, o), FrameOk(to), to.depth = d, to.names = fr.names,
         to.given = fr.given, to.globals = fr.globals, to.locks = fr.locks
  PROVE  Fits([m EXCEPT !.nest[p] = d], L, Moved(g, p, to), o)
<1>1. PICK h, m2 : h = Moved(g, p, to) /\ m2 = [m EXCEPT !.nest[p] = d]
  OBVIOUS
<1>2. p \in Proc /\ fr = g[p] /\ \A q \in Proc : FrameOk(g[q])
  BY DEF Executing, Fits
<1>4. NamesOf(h) = NamesOf(g)
  BY <1>1, <1>2, MovedSame
<1>5. DepthsOf(h)[p] = d
  BY <1>1, <1>2, MovedDepths
<1>8. SameBut(DepthsOf(h), DepthsOf(g), p)
  BY <1>1, <1>2, MovedDepths
<1>9. MemFits(m, NamesOf(h), DepthsOf(g), o)
  BY <1>4 DEF Fits
<1>6. MemFits(m2, NamesOf(h), DepthsOf(h), o) /\ m2.table = m.table /\ m2.alloc = m.alloc
  BY <1>1, <1>2, <1>5, <1>8, <1>9, NestFits
<1>7. \A q, v : AddrOfName(m2, q, v) = AddrOfName(m, q, v)
  BY <1>6, AlikeNames
<1> QED BY <1>1, <1>6, <1>7, MovedFits

\* The addresses of all names but v of p are the same.
Elsewhere(m, m2, p, v) ==
  \A q \in Proc : \A w : q # p \/ w # v => AddrOfName(m2, q, w) = AddrOfName(m, q, w)

\* When one name of one process is bound anew, the others stay where they are.
LEMMA OtherAddresses ==
  ASSUME NEW m, NEW m2, NEW p \in Proc, NEW t, NEW v, NEW b, NEW n,
         MemIs(m), Rebound(m, m2, p, t),
         Grown(m.table[p], t, v, b, n) \/ Grown(t, m.table[p], v, b, n)
  PROVE  Elsewhere(m, m2, p, v)
<1> SUFFICES ASSUME NEW q \in Proc, NEW w, q # p \/ w # v
             PROVE  AddrOfName(m2, q, w) = AddrOfName(m, q, w)
  BY DEF Elsewhere
<1>1. m2.alloc = m.alloc /\ m2.table[p] = t /\ (q # p => m2.table[q] = m.table[q])
  BY DEF MemIs, Rebound
<1>2. CASE q # p
  BY <1>1, <1>2 DEF AddrOfName, Bound, Top
<1>3. CASE q = p
  <2>1. w # v
    BY <1>3
  <2>2. /\ w \in DOMAIN t <=> w \in DOMAIN m.table[p]
        /\ w \in DOMAIN t => t[w] = m.table[p][w]
    BY <2>1 DEF Grown
  <2> QED BY <1>1, <2>2 DEF AddrOfName, Bound, Top
<1> QED BY <1>2, <1>3

\* RegisterLocal.
LEMMA BindAddresses ==
  ASSUME NEW m, NEW N, NEW D, NamesFit(m, N, D), NEW p \in Proc, D[p] \in Nat, NEW v, NEW a \in Address
  PROVE  LET m2 == Bind(m, p, v, a) IN
         m2.alloc = m.alloc /\ Elsewhere(m, m2, p, v)
<1>1. PICK m2, b, t : m2 = Bind(m, p, v, a) /\ b = [addr |-> a, nest |-> m.nest[p]]
                      /\ t = Opened(m.table[p], v, b)
  OBVIOUS
<1>2. b \in Binding
  BY <1>1 DEF Binding, NamesFit
<1>3. Rebound(m, m2, p, t)
  BY <1>1, BindTables DEF NamesFit
<1>4. PICK n : Grown(m.table[p], t, v, b, n)
  BY <1>1, <1>2, OpenedGrows DEF NamesFit, TableFits, Tabled
<1>5. m2.alloc = m.alloc /\ MemIs(m)
  BY <1>3 DEF Rebound, NamesFit
<1>7. Grown(m.table[p], t, v, b, n) \/ Grown(t, m.table[p], v, b, n)
  BY <1>4
<1>6. Elsewhere(m, m2, p, v)
  BY <1>3, <1>5, <1>7, OtherAddresses
<1> QED BY <1>1, <1>5, <1>6

\* DeleteLocal.
LEMMA UnbindAddresses ==
  ASSUME NEW m, NEW N, NEW D, NamesFit(m, N, D), NEW p \in Proc, NEW v \in DOMAIN m.table[p]
  PROVE  LET m2 == Unbind(m, p, v) IN
         m2.alloc = m.alloc /\ Elsewhere(m, m2, p, v)
<1>1. PICK m2, b, t : m2 = Unbind(m, p, v) /\ b = Last(m.table[p][v]) /\ t = Closed(m.table[p], v)
  OBVIOUS
<1>3. Rebound(m, m2, p, t)
  BY <1>1, UnbindTables DEF NamesFit
<1>4. PICK n : Grown(t, m.table[p], v, b, n)
  BY <1>1, ClosedShrinks DEF NamesFit, TableFits, Tabled
<1>5. m2.alloc = m.alloc /\ MemIs(m)
  BY <1>3 DEF Rebound, NamesFit
<1>7. Grown(m.table[p], t, v, b, n) \/ Grown(t, m.table[p], v, b, n)
  BY <1>4
<1>6. Elsewhere(m, m2, p, v)
  BY <1>3, <1>5, <1>7, OtherAddresses
<1> QED BY <1>1, <1>5, <1>6

\* What a frame that only opens a name looks like.
Opens(fr, v, b, to) ==
  /\ to.names = Opened(fr.names, v, b) /\ to.depth = fr.depth
  /\ to.given = fr.given /\ to.globals = fr.globals /\ to.locks = fr.locks

\* A declaration opens the name, at the present depth.
LEMMA DeclaresOpens ==
  ASSUME NEW fr, NEW v, NEW to, FrameOk(fr), Declares(fr, v, to)
  PROVE  Opens(fr, v, Slot(fr.depth, TRUE, FALSE), to)
<1>1. PICK x : x = Opened(fr.names, v, Slot(fr.depth, TRUE, FALSE))
  OBVIOUS
<1>2. to = [fr EXCEPT !.names = x]
  BY <1>1 DEF Declares, FrameOk
<1> QED BY <1>1, <1>2, FrameFields DEF Opens

\* Names of a frame are stacks of slots.
LEMMA FrameStacks ==
  ASSUME NEW fr, FrameOk(fr)
  PROVE  Stacks(fr.names, SlotSet) /\ fr.depth \in Nat
BY DEF FrameOk, SlotsOk, Stacks

\* A variable of its own.
LEMMA OwnSlot ==
  ASSUME NEW d \in Nat
  PROVE  Slot(d, TRUE, FALSE) \in SlotSet
BY DEF Slot, SlotSet

\* The addresses of other names stay, when a cell is allocated and when one is given up.
LEMMA AllocateAddresses ==
  ASSUME NEW m, NEW N, NEW D, NamesFit(m, N, D), NEW p \in Proc, D[p] \in Nat, NEW v,
         FreshCell(m) \in Nat
  PROVE  Allocate(m, p, v).alloc = m.alloc /\ Elsewhere(m, Allocate(m, p, v), p, v)
<1>1. PICK c, m1, a : c = FreshCell(m) /\ m1 = Store(m, Local(c), 0) /\ a = Local(c)
  OBVIOUS
<1>2. MemIs(m1) /\ m1.table = m.table /\ m1.nest = m.nest /\ m1.alloc = m.alloc
  BY <1>1, StoreNew DEF NamesFit
<1>3. NamesFit(m1, N, D)
  BY <1>2 DEF NamesFit
<1>4. a \in Address
  BY <1>1 DEF Address, Local
<1>5. PICK m2 : m2 = Bind(m1, p, v, a) /\ m2.alloc = m1.alloc /\ Elsewhere(m1, m2, p, v)
  BY <1>3, <1>4, BindAddresses
<1>6. \A q, w : AddrOfName(m1, q, w) = AddrOfName(m, q, w)
  BY <1>2, AlikeNames
<1>7. Elsewhere(m, m2, p, v)
  BY <1>5, <1>6 DEF Elsewhere
<1>8. m2 = Allocate(m, p, v)
  BY <1>1, <1>5 DEF Allocate
<1> QED BY <1>2, <1>5, <1>7, <1>8

\* Giving a variable up moves no other name.
LEMMA DeallocateAddresses ==
  ASSUME NEW m, NEW N, NEW D, NamesFit(m, N, D), NEW p \in Proc, NEW v \in DOMAIN m.table[p]
  PROVE  Deallocate(m, p, v).alloc = m.alloc /\ Elsewhere(m, Deallocate(m, p, v), p, v)
<1>1. PICK a : a = Top(m, p, v).addr
  OBVIOUS
<1>2. PICK f : f = IF a.glob THEN m ELSE [m EXCEPT !.var = [d \in DOMAIN @ \ {a.idx} |-> @[d]]]
  OBVIOUS
<1>3. MemIs(f) /\ f.table = m.table /\ f.nest = m.nest /\ f.alloc = m.alloc
  <2>1. CASE a.glob
    BY <1>2, <2>1 DEF NamesFit
  <2>2. CASE ~a.glob
    <3>1. f = [m EXCEPT !.var = [d \in DOMAIN @ \ {a.idx} |-> @[d]]]
      BY <1>2, <2>2
    <3> QED BY <3>1, FreedIs DEF NamesFit
  <2> QED BY <2>1, <2>2
<1>4. NamesFit(f, N, D) /\ v \in DOMAIN f.table[p]
  BY <1>3 DEF NamesFit
<1>5. PICK m2 : m2 = Unbind(f, p, v) /\ m2.alloc = f.alloc /\ Elsewhere(f, m2, p, v)
  BY <1>4, UnbindAddresses
<1>6. \A q, w : AddrOfName(f, q, w) = AddrOfName(m, q, w)
  BY <1>3, AlikeNames
<1>7. Elsewhere(m, m2, p, v)
  BY <1>5, <1>6 DEF Elsewhere
<1>8. m2 = Deallocate(m, p, v)
  BY <1>1, <1>2, <1>5 DEF Deallocate
<1> QED BY <1>3, <1>5, <1>7, <1>8

\* $x, when x is not bound here.
LEMMA DeclareMoves ==
  ASSUME NEW m, NEW L, NEW g, NEW o, NEW p, NEW fr, NEW to, NEW v,
         Executing(g, p, fr), Fits(m, L, g, o), FrameOk(to), Declares(fr, v, to), v \notin fr.locks
  PROVE  \E o2 : Fits(Allocate(m, p, v), L, Moved(g, p, to), o2)
<1>1. PICK h, m2, N, N2, D, slot :
        /\ h = Moved(g, p, to) /\ m2 = Allocate(m, p, v)
        /\ N = NamesOf(g) /\ N2 = NamesOf(h) /\ D = DepthsOf(g) /\ slot = Slot(fr.depth, TRUE, FALSE)
  OBVIOUS
<1>2. p \in Proc /\ fr = g[p] /\ FrameOk(fr) /\ \A q \in Proc : FrameOk(g[q])
  BY DEF Executing, Fits
<1>3. Opens(fr, v, slot, to)
  BY <1>1, <1>2, DeclaresOpens
<1>15. /\ to.locks = fr.locks /\ to.globals = fr.globals
       /\ to.depth = fr.depth /\ to.given = fr.given
  BY <1>3 DEF Opens
<1>4. N[p] = fr.names /\ D[p] = fr.depth
  BY <1>1, <1>2 DEF NamesOf, DepthsOf
<1>5. N2[p] = to.names /\ SameBut(N2, N, p)
  BY <1>1, <1>2, <1>15, MovedNames
<1>6. DepthsOf(h) = D
  BY <1>1, <1>2, <1>15, MovedSame
<1>7. Stacks(fr.names, SlotSet) /\ fr.depth \in Nat
  BY <1>2, FrameStacks
<1>8. slot \in SlotSet
  BY <1>1, <1>7, OwnSlot
<1>9. OpenedAt(N, N2, p, v, slot)
  BY <1>2, <1>3, <1>4, <1>5, <1>7, <1>8 DEF OpenedAt, Opens, SameBut
<1>10. MemFits(m, N, D, o)
  BY <1>1 DEF Fits
<1>11. PICK o2 : MemFits(m2, N2, D, o2)
  BY <1>1, <1>4, <1>9, <1>10, AllocateFits
<1>12. FreshCell(m) \in Nat
  BY <1>10, FreshExists DEF MemFits, CellsFit
<1>13. m2.alloc = m.alloc /\ Elsewhere(m, m2, p, v)
  BY <1>1, <1>2, <1>4, <1>7, <1>10, <1>12, AllocateAddresses DEF MemFits
<1>14. \A q \in Proc : \A w \in g[q].locks : AddrOfName(m2, q, w) = AddrOfName(m, q, w)
  BY <1>2, <1>13 DEF Elsewhere
<1>16. Fits(m2, L, h, o2)
  BY <1>1, <1>6, <1>11, <1>13, <1>14, <1>15, MovedFits
<1> QED BY <1>1, <1>16

\* Nobody under a process that has given no names has any.
LEMMA NoNamesUnder ==
  ASSUME NEW g, NEW p, NEW fr, Executing(g, p, fr), fr.given = << >>,
         \A q \in running : ~Under(p, q)
  PROVE  \A q \in Proc : Under(p, q) => DOMAIN NamesOf(g)[q] = {}
<1> SUFFICES ASSUME NEW q \in Proc, Under(p, q) PROVE DOMAIN NamesOf(g)[q] = {}
  OBVIOUS
<1>1. p \in Seq(Nat) /\ q \in Seq(Nat) /\ q # Root /\ Idle(g, q)
  <2>1. p \in Seq(Nat) /\ q \in Seq(Nat) /\ q \in Proc \ running
    BY ProcAssumption DEF Executing
  <2>2. q # Root
    <3>1. Len(p) \in Nat /\ Len(p) < Len(q)
      BY <2>1 DEF Under
    <3> QED BY <2>1, <3>1 DEF Root
  <2> QED BY <2>1, <2>2 DEF Executing
<1>2. PICK a : a = Front(q) /\ a \in Proc /\ g[q].names = Given(g[a], Last(q))
  BY <1>1, ProcAssumption DEF Idle
<1>3. g[a].given = << >>
  <2>1. CASE a = p
    BY <2>1 DEF Executing
  <2>2. CASE a # p
    <3>1. Under(p, a)
      BY <1>1, <1>2, <2>2, UnderParent
    <3>2. Idle(g, a)
      BY <1>2, <3>1 DEF Executing
    <3> QED BY <3>2 DEF Idle
  <2> QED BY <2>1, <2>2
<1>4. NamesOf(g)[q] = << >>
  BY <1>2, <1>3 DEF Given, NamesOf
<1> QED BY <1>4

\* $x, when x is bound here.
LEMMA GiveUpMoves ==
  ASSUME NEW m, NEW L, NEW g, NEW o, NEW p, NEW fr, NEW to, NEW v,
         Executing(g, p, fr), Fits(m, L, g, o), FrameOk(to), Declares(to, v, fr), v \notin fr.locks,
         fr.given = << >>, \A q \in running : ~Under(p, q)
  PROVE  Fits(Deallocate(m, p, v), L, Moved(g, p, to), o)
<1>1. PICK h, m2, N, N2, D, slot :
        /\ h = Moved(g, p, to) /\ m2 = Deallocate(m, p, v)
        /\ N = NamesOf(g) /\ N2 = NamesOf(h) /\ D = DepthsOf(g) /\ slot = Slot(to.depth, TRUE, FALSE)
  OBVIOUS
<1>2. p \in Proc /\ fr = g[p] /\ FrameOk(fr) /\ \A q \in Proc : FrameOk(g[q])
  BY DEF Executing, Fits
<1>3. Opens(to, v, slot, fr)
  BY <1>1, DeclaresOpens
<1>15. to.locks = fr.locks /\ to.globals = fr.globals /\ to.depth = fr.depth /\ to.given = fr.given
  BY <1>3 DEF Opens
<1>4. N[p] = fr.names /\ D[p] = fr.depth
  BY <1>1, <1>2 DEF NamesOf, DepthsOf
<1>5. N2[p] = to.names /\ SameBut(N2, N, p)
  BY <1>1, <1>2, <1>15, MovedNames
<1>6. DepthsOf(h) = D
  BY <1>1, <1>2, <1>15, MovedSame
<1>7. Stacks(to.names, SlotSet) /\ to.depth \in Nat
  BY FrameStacks
<1>8. slot \in SlotSet
  BY <1>1, <1>7, OwnSlot
<1>9. OpenedAt(N2, N, p, v, slot)
  BY <1>2, <1>3, <1>4, <1>5, <1>7, <1>8 DEF OpenedAt, Opens, SameBut
<1>10. MemFits(m, N, D, o)
  BY <1>1 DEF Fits
<1>11. \A q \in Proc : Under(p, q) => DOMAIN N[q] = {}
  BY <1>1, NoNamesUnder
<1>12. MemFits(m2, N2, D, o)
  BY <1>1, <1>4, <1>9, <1>10, <1>11, <1>15, DeallocateFits
<1>13. v \in DOMAIN m.table[p]
  <2>1. v \in DOMAIN N[p]
    <3>1. PICK k : Grown(N2[p], N[p], v, slot, k)
      BY <1>9, OpenedGrows DEF OpenedAt
    <3> QED BY <3>1 DEF Grown
  <2> QED BY <1>2, <1>10, <2>1 DEF MemFits, NamesFit, TableFits
<1>14. m2.alloc = m.alloc /\ Elsewhere(m, m2, p, v)
  BY <1>1, <1>2, <1>10, <1>13, DeallocateAddresses DEF MemFits
<1>16. \A q \in Proc : \A w \in g[q].locks : AddrOfName(m2, q, w) = AddrOfName(m, q, w)
  BY <1>2, <1>14 DEF Elsewhere
<1>17. Fits(m2, L, h, o)
  BY <1>1, <1>6, <1>12, <1>14, <1>15, <1>16, MovedFits
<1> QED BY <1>1, <1>17

\* What is above a process is above its children, and so is the process.
LEMMA UnderChild ==
  ASSUME NEW x \in Seq(Nat), NEW p \in Seq(Nat), NEW i \in Nat, x = p \/ Under(x, p)
  PROVE  Under(x, ChildPC(p, i))
<1>0. PICK n \in Nat : n = Len(p)
  OBVIOUS
<1>1. PICK c : c = Append(p, i)
  OBVIOUS
<1>2. Len(c) = n + 1 /\ \A k \in 1 .. n : c[k] = p[k]
  BY <1>0, <1>1
<1>3. PICK k \in Nat : k = Len(x)
  OBVIOUS
<1>4. k <= n /\ \A j \in 1 .. k : p[j] = x[j]
  <2>1. CASE x = p
    BY <1>0, <1>3, <2>1
  <2>2. CASE Under(x, p)
    BY <1>0, <1>3, <2>2 DEF Under
  <2> QED BY <2>1, <2>2
<1>5. k < n + 1 /\ \A j \in 1 .. k : c[j] = x[j]
  BY <1>2, <1>3, <1>4
<1>6. Under(x, c)
  BY <1>2, <1>3, <1>5 DEF Under
<1> QED BY <1>1, <1>6 DEF ChildPC

\* The frame to gives the child k one name more, v in the slot b.
Gives(fr, k, v, b, to) ==
  /\ to.names = fr.names /\ to.depth = fr.depth /\ to.globals = fr.globals /\ to.locks = fr.locks
  /\ Given(to, k) = Opened(Given(fr, k), v, b)
  /\ \A j : j # k => Given(to, j) = Given(fr, j)

\* A set gives the child the name, at depth zero.
LEMMA SetsGives ==
  ASSUME NEW fr, NEW i, NEW to, FrameOk(fr), Sets(fr, i, to)
  PROVE  Gives(fr, i.child, i.v, Slot(0, FALSE, IsArray(fr, i.src.v)), to)
<1>1. PICK k, t : /\ k = i.child
                  /\ t = Opened(Given(fr, k), i.v, Slot(0, FALSE, IsArray(fr, i.src.v)))
  OBVIOUS
<1>2. PICK x : x = Entered(fr.given, {k}, t)
  OBVIOUS
<1>3. to = [fr EXCEPT !.given = x]
  BY <1>1, <1>2 DEF Sets, FrameOk
<1>4. /\ to.given = x /\ to.names = fr.names /\ to.depth = fr.depth
      /\ to.globals = fr.globals /\ to.locks = fr.locks
  BY <1>3, FrameFields
<1>5. k \in DOMAIN x /\ x[k] = t
  BY <1>2 DEF Entered
<1>6. Given(to, k) = t
  BY <1>4, <1>5 DEF Given
<1>7. ASSUME NEW j, j # k PROVE Given(to, j) = Given(fr, j)
  <2>1. /\ j \in DOMAIN x <=> j \in DOMAIN fr.given
        /\ j \in DOMAIN x => x[j] = fr.given[j]
    BY <1>2, <1>7 DEF Entered
  <2> QED BY <1>4, <2>1 DEF Given
<1> QED BY <1>1, <1>4, <1>6, <1>7 DEF Gives

\* What is seen as an array, or not.
LEMMA ArrayKnown ==
  ASSUME NEW fr, FrameOk(fr), NEW v, Visible(fr, v)
  PROVE  IsArray(fr, v) \in BOOLEAN
<1>1. CASE v \in DOMAIN fr.names
  <2>1. PICK s : s = fr.names[v] /\ s \in Seq(SlotSet) /\ s # << >>
    BY <1>1, FrameStacks DEF Stacks
  <2>2. Last(s) \in SlotSet
    BY <2>1 DEF Last
  <2>3. IsArray(fr, v) = Last(s).arr
    BY <1>1, <2>1 DEF IsArray
  <2> QED BY <2>2, <2>3 DEF SlotSet
<1>2. CASE v \notin DOMAIN fr.names
  <2>1. v \in DOMAIN fr.globals /\ IsArray(fr, v) = fr.globals[v]
    BY <1>2 DEF Visible, IsArray
  <2> QED BY <2>1 DEF FrameOk
<1> QED BY <1>1, <1>2

\* Only to its child k does a process give something else.
GiftsBut(fr, to, k) == \A j : j # k => Given(to, j) = Given(fr, j)

\* The names of the child change with what it is given.
LEMMA GivenNames ==
  ASSUME NEW g, NEW p, NEW fr, NEW to, NEW h, h = Moved(g, p, to), Executing(g, p, fr),
         \A q \in Proc : FrameOk(g[q]), NEW k \in Nat, NEW c \in Proc, c = ChildPC(p, k),
         to.names = fr.names, GiftsBut(fr, to, k)
  PROVE  /\ NamesOf(h)[c] = Given(to, k) /\ NamesOf(g)[c] = Given(fr, k)
         /\ SameBut(NamesOf(h), NamesOf(g), c)
<1>1. PICK N, N2 : N = NamesOf(g) /\ N2 = NamesOf(h)
  OBVIOUS
<1>2. p \in Proc /\ p \in Seq(Nat) /\ fr = g[p]
  BY ProcAssumption DEF Executing
<1>3. c # Root /\ Front(c) = p /\ Last(c) = k /\ c # p
  BY <1>2, ChildOf
<1>4. \A q \in Proc : N[q] = g[q].names /\ N2[q] = h[q].names
  BY <1>1 DEF NamesOf
<1>5. ASSUME NEW q \in Proc, q # Root, Front(q) = p
      PROVE  N2[q] = Given(to, Last(q)) /\ N[q] = Given(fr, Last(q))
  <2>1. q # p
    <3>1. q \in Seq(Nat)
      BY ProcAssumption
    <3> QED BY <1>5, <3>1, ParentShorter
  <2>2. h[q].names = Given(to, Last(q)) /\ g[q].names = Given(fr, Last(q))
    BY <1>2, <1>5, <2>1, MovedIs, ChildrenIdle
  <2> QED BY <1>4, <2>2
<1>6. ASSUME NEW q \in Proc, q # c PROVE N2[q] = N[q]
  <2>1. CASE q = p
    BY <1>2, <1>4, <2>1, MovedIs
  <2>2. CASE q # p /\ q # Root /\ Front(q) = p
    <3>1. Last(q) # k
      <4>1. SUFFICES ASSUME Last(q) = k PROVE FALSE
        OBVIOUS
      <4>2. q \in Seq(Nat)
        BY ProcAssumption
      <4>3. q = Append(Front(q), Last(q))
        BY <2>2, <4>2 DEF Front, Last, Root
      <4> QED BY <1>6, <2>2, <4>1, <4>3 DEF ChildPC
    <3>2. N2[q] = Given(to, Last(q)) /\ N[q] = Given(fr, Last(q))
      BY <1>5, <2>2
    <3> QED BY <3>1, <3>2 DEF GiftsBut
  <2>3. CASE q # p /\ ~(q # Root /\ Front(q) = p)
    BY <1>2, <1>4, <2>3, MovedIs
  <2> QED BY <2>1, <2>2, <2>3
<1>7. N2[c] = Given(to, k) /\ N[c] = Given(fr, k)
  BY <1>2, <1>3, <1>5
<1> QED BY <1>1, <1>6, <1>7 DEF SameBut

\* A name of one that is given.
LEMMA GivenSlot ==
  ASSUME NEW arr \in BOOLEAN
  PROVE  LET slot == Slot(0, FALSE, arr) IN
         slot \in SlotSet /\ slot.nest = 0 /\ ~slot.own /\ slot.arr = arr
BY DEF Slot, SlotSet

\* What p holds in the name of v, for its child.
LEMMA ReachesChild ==
  ASSUME NEW m, NEW N, NEW D, NEW o, NEW p \in Seq(Nat), NEW k \in Nat, NEW a,
         MemFits(m, N, D, o), Reaches(m, o, p, a)
  PROVE  ~a.glob => a.idx \in DOMAIN m.var /\ Under(o[a.idx].p, ChildPC(p, k))
<1> SUFFICES ASSUME ~a.glob PROVE a.idx \in DOMAIN m.var /\ Under(o[a.idx].p, ChildPC(p, k))
  OBVIOUS
<1>1. PICK c : c = a.idx /\ c \in DOMAIN m.var /\ (o[c].p = p \/ Under(o[c].p, p))
  BY DEF Reaches
<1>2. PICK q, w, j : IsPlace(N, q, w, j) /\ o[c] = Place(q, w, j)
  BY <1>1 DEF MemFits, CellsFit
<1>3. q \in Seq(Nat) /\ o[c].p = q
  BY <1>2, ProcAssumption DEF IsPlace, Place
<1>4. Under(q, ChildPC(p, k))
  BY <1>1, <1>3, UnderChild
<1> QED BY <1>1, <1>3, <1>4

\* set: the child is given the address of a name that p sees.
LEMMA SetMoves ==
  ASSUME NEW m, NEW L, NEW g, NEW o, NEW p, NEW fr, NEW to, NEW i,
         Executing(g, p, fr), Fits(m, L, g, o), FrameOk(to), Sets(fr, i, to),
         ChildPC(p, i.child) \in Proc
  PROVE  /\ Fits(Bind(m, ChildPC(p, i.child), i.v, AddrOf(m, p, i.src)), L, Moved(g, p, to), o)
         /\ Known(m, p, i.src) /\ ~IsAllocatedLocal(m, ChildPC(p, i.child), i.v)
<1>1. PICK h, c, v, a, N, N2, D, slot :
        /\ h = Moved(g, p, to) /\ c = ChildPC(p, i.child) /\ v = i.v /\ a = AddrOf(m, p, i.src)
        /\ N = NamesOf(g) /\ N2 = NamesOf(h) /\ D = DepthsOf(g)
        /\ slot = Slot(0, FALSE, IsArray(fr, i.src.v))
  OBVIOUS
<1>2. p \in Proc /\ fr = g[p] /\ FrameOk(fr) /\ \A q \in Proc : FrameOk(g[q])
  BY DEF Executing, Fits
<1>3. i.child \in Nat /\ i.src.k = "ref" /\ Visible(fr, i.src.v) /\ v \notin DOMAIN Given(fr, i.child)
  BY <1>1 DEF Sets
<1>4. Gives(fr, i.child, v, slot, to)
  BY <1>1, <1>2, SetsGives
<1>5. /\ to.locks = fr.locks /\ to.globals = fr.globals /\ to.depth = fr.depth /\ to.names = fr.names
      /\ Given(to, i.child) = Opened(Given(fr, i.child), v, slot)
      /\ GiftsBut(fr, to, i.child)
  BY <1>4 DEF Gives, GiftsBut
<1>6. N2[c] = Given(to, i.child) /\ N[c] = Given(fr, i.child) /\ SameBut(N2, N, c)
  <2>1. PICK k \in Nat : k = i.child /\ c = ChildPC(p, k) /\ c \in Proc /\ GiftsBut(fr, to, k)
    BY <1>1, <1>3, <1>5
  <2>2. N2[c] = Given(to, k) /\ N[c] = Given(fr, k) /\ SameBut(N2, N, c)
    BY <1>1, <1>2, <1>5, <2>1, GivenNames
  <2> QED BY <2>1, <2>2
<1>7. c \in Proc /\ c \in Seq(Nat) /\ p \in Seq(Nat) /\ c # Root /\ Front(c) = p
  BY <1>1, <1>2, <1>3, ChildOf, ProcAssumption
<1>8. Idle(g, c)
  BY <1>7, ChildrenIdle
<1>9. D[c] = 0
  BY <1>1, <1>7, <1>8 DEF Idle, DepthsOf
<1>10. IsArray(fr, i.src.v) \in BOOLEAN
  BY <1>2, <1>3, ArrayKnown
<1>11. slot \in SlotSet /\ slot.nest = 0 /\ ~slot.own /\ slot.arr = IsArray(fr, i.src.v)
  BY <1>1, <1>10, GivenSlot
<1>12. Stacks(N[c], SlotSet)
  <2>1. N[c] = g[c].names
    BY <1>1, <1>7 DEF NamesOf
  <2> QED BY <1>2, <1>7, <2>1, FrameStacks
<1>13. OpenedAt(N, N2, c, v, slot)
  BY <1>5, <1>6, <1>7, <1>11, <1>12 DEF OpenedAt, SameBut
<1>14. MemFits(m, N, D, o)
  BY <1>1 DEF Fits
<1>15. SeesAs(m, N, p, fr)
  BY <1>1, <1>2, Sees DEF Executing
<1>16. Reaches(m, o, p, a) /\ (IsArray(fr, i.src.v) => a.glob)
  <2>1. a = AddrOfName(m, p, i.src.v)
    BY <1>1, <1>3 DEF AddrOf
  <2> QED BY <1>3, <1>14, <1>15, <2>1, NameReaches
<1>17. a \in Address /\ (~a.glob => a.idx \in DOMAIN m.var /\ Under(o[a.idx].p, c))
  BY <1>1, <1>3, <1>7, <1>14, <1>16, ReachesChild DEF Reaches
<1>18. PICK m2 : m2 = Bind(m, c, v, a)
  OBVIOUS
<1>19. MemFits(m2, N2, D, o)
  BY <1>9, <1>11, <1>13, <1>14, <1>16, <1>17, <1>18, GiveFits
<1>20. DepthsOf(h) = D
  <2>1. \A q \in Proc : DepthsOf(h)[q] = DepthsOf(g)[q]
    <3>1. DepthsOf(h)[p] = to.depth
      BY <1>1, <1>2, MovedDepths
    <3>2. SameBut(DepthsOf(h), DepthsOf(g), p)
      BY <1>1, <1>2, MovedDepths
    <3>3. DepthsOf(g)[p] = fr.depth
      BY <1>2 DEF DepthsOf
    <3> QED BY <1>5, <3>1, <3>2, <3>3 DEF SameBut
  <2> QED BY <1>1, <2>1, SameDepths
<1>21. m2.alloc = m.alloc /\ Elsewhere(m, m2, c, v)
  BY <1>7, <1>9, <1>14, <1>17, <1>18, BindAddresses DEF MemFits
<1>22. \A q \in Proc : \A w \in g[q].locks : AddrOfName(m2, q, w) = AddrOfName(m, q, w)
  BY <1>8, <1>21 DEF Elsewhere, Idle
<1>23. Fits(m2, L, h, o)
  BY <1>1, <1>5, <1>19, <1>20, <1>21, <1>22, MovedFits
<1>24. Known(m, p, i.src)
  BY <1>3, <1>14, <1>15, OperandReaches DEF OperandOk
<1>25. ~IsAllocatedLocal(m, c, v)
  <2>1. v \notin DOMAIN N[c]
    BY <1>3, <1>6
  <2> QED BY <1>7, <1>12, <1>14, <2>1, AllocatedHere DEF MemFits, BoundAt
<1> QED BY <1>1, <1>18, <1>23, <1>24, <1>25

\* unset: the child gives the name back.
LEMMA UnsetMoves ==
  ASSUME NEW m, NEW L, NEW g, NEW o, NEW p, NEW fr, NEW to, NEW i,
         Executing(g, p, fr), Fits(m, L, g, o), FrameOk(to), Sets(to, i, fr),
         ChildPC(p, i.child) \in Proc
  PROVE  /\ Fits(Unbind(m, ChildPC(p, i.child), i.v), L, Moved(g, p, to), o)
         /\ Known(m, p, i.src) /\ IsAllocatedLocal(m, ChildPC(p, i.child), i.v)
<1>1. PICK h, c, v, N, N2, D, slot :
        /\ h = Moved(g, p, to) /\ c = ChildPC(p, i.child) /\ v = i.v
        /\ N = NamesOf(g) /\ N2 = NamesOf(h) /\ D = DepthsOf(g)
        /\ slot = Slot(0, FALSE, IsArray(to, i.src.v))
  OBVIOUS
<1>2. p \in Proc /\ fr = g[p] /\ FrameOk(fr) /\ \A q \in Proc : FrameOk(g[q])
  BY DEF Executing, Fits
<1>3. i.child \in Nat /\ i.src.k = "ref" /\ Visible(to, i.src.v)
  BY <1>1 DEF Sets
<1>4. Gives(to, i.child, v, slot, fr)
  BY <1>1, <1>2, SetsGives
<1>5. /\ to.locks = fr.locks /\ to.globals = fr.globals /\ to.depth = fr.depth /\ to.names = fr.names
      /\ Given(fr, i.child) = Opened(Given(to, i.child), v, slot)
      /\ GiftsBut(fr, to, i.child)
  BY <1>4 DEF Gives, GiftsBut
<1>6. N2[c] = Given(to, i.child) /\ N[c] = Given(fr, i.child) /\ SameBut(N2, N, c)
  <2>1. PICK k \in Nat : k = i.child /\ c = ChildPC(p, k) /\ c \in Proc /\ GiftsBut(fr, to, k)
    BY <1>1, <1>3, <1>5
  <2>2. N2[c] = Given(to, k) /\ N[c] = Given(fr, k) /\ SameBut(N2, N, c)
    BY <1>1, <1>2, <1>5, <2>1, GivenNames
  <2> QED BY <2>1, <2>2
<1>7. c \in Proc /\ c \in Seq(Nat) /\ p \in Seq(Nat) /\ c # Root /\ Front(c) = p
  BY <1>1, <1>2, <1>3, ChildOf, ProcAssumption
<1>8. Idle(g, c)
  BY <1>7, ChildrenIdle
<1>9. D[c] = 0
  BY <1>1, <1>7, <1>8 DEF Idle, DepthsOf
<1>10. IsArray(to, i.src.v) \in BOOLEAN
  BY <1>2, <1>3, ArrayKnown
<1>11. slot \in SlotSet /\ slot.nest = 0 /\ ~slot.own
  BY <1>1, <1>10, GivenSlot
<1>12. Stacks(N2[c], SlotSet)
  BY <1>6, GivenOk DEF SlotsOk, Stacks
<1>13. OpenedAt(N2, N, c, v, slot)
  BY <1>5, <1>6, <1>7, <1>11, <1>12 DEF OpenedAt, SameBut
<1>14. MemFits(m, N, D, o)
  BY <1>1 DEF Fits
<1>15. SeesAs(m, N, p, fr) /\ Visible(fr, i.src.v)
  <2>1. SeesAs(m, N, p, fr)
    BY <1>1, <1>2, Sees DEF Executing
  <2> QED BY <1>3, <1>5, <2>1 DEF Visible
<1>18. PICK m2 : m2 = Unbind(m, c, v)
  OBVIOUS
<1>19. MemFits(m2, N2, D, o)
  BY <1>11, <1>13, <1>14, <1>18, TakeFits
<1>20. DepthsOf(h) = D
  <2>1. \A q \in Proc : DepthsOf(h)[q] = DepthsOf(g)[q]
    <3>1. DepthsOf(h)[p] = to.depth
      BY <1>1, <1>2, MovedDepths
    <3>2. SameBut(DepthsOf(h), DepthsOf(g), p)
      BY <1>1, <1>2, MovedDepths
    <3>3. DepthsOf(g)[p] = fr.depth
      BY <1>2 DEF DepthsOf
    <3> QED BY <1>5, <3>1, <3>2, <3>3 DEF SameBut
  <2> QED BY <1>1, <2>1, SameDepths
<1>16. PICK k : Grown(N2[c], N[c], v, slot, k)
  BY <1>13, OpenedGrows DEF OpenedAt
<1>17. v \in DOMAIN N[c]
  BY <1>16 DEF Grown
<1>25. v \in DOMAIN m.table[c]
  BY <1>7, <1>14, <1>17 DEF MemFits, NamesFit, TableFits
<1>21. m2.alloc = m.alloc /\ Elsewhere(m, m2, c, v)
  BY <1>7, <1>14, <1>18, <1>25, UnbindAddresses DEF MemFits
<1>22. \A q \in Proc : \A w \in g[q].locks : AddrOfName(m2, q, w) = AddrOfName(m, q, w)
  BY <1>8, <1>21 DEF Elsewhere, Idle
<1>23. Fits(m2, L, h, o)
  BY <1>1, <1>5, <1>19, <1>20, <1>21, <1>22, MovedFits
<1>24. Known(m, p, i.src)
  BY <1>3, <1>14, <1>15, OperandReaches DEF OperandOk
<1>26. IsAllocatedLocal(m, c, v)
  <2>1. Last(N[c][v]).nest = 0
    <3>1. k \in Nat /\ Len(N[c][v]) = k + 1 /\ N[c][v][k + 1] = slot
      BY <1>16 DEF Grown
    <3> QED BY <1>11, <3>1 DEF Last
  <2>2. Stacks(N[c], SlotSet)
    BY <1>6, <1>2, GivenOk DEF SlotsOk, Stacks
  <2> QED BY <1>7, <1>9, <1>14, <1>17, <2>1, <2>2, AllocatedHere DEF MemFits, BoundAt
<1> QED BY <1>1, <1>18, <1>23, <1>24, <1>26

-----------------------------------------------------------------------------
(* Locks *)

\* Two names of one process go by two symbols.
LEMMA OneSymbolEach ==
  ASSUME NEW m, NEW p, NEW v, NEW w, SymName(m, p, v) = SymName(m, p, w)
  PROVE  v = w
BY DEF SymName

\* Somebody holds every lock that has a word, and no other.
LEMMA HeldWords ==
  ASSUME NEW m, NEW L, NEW g, LocksFit(m, L, g), NEW s
  PROVE  s \in DOMAIN L <=> Holders(m, g, s) # {}
<1>1. ASSUME NEW p \in Holders(m, g, s) PROVE s \in DOMAIN L
  BY DEF Holders, LocksFit
<1> QED BY <1>1 DEF LocksFit

\* A table of lock words fits when it says how many hold each lock that somebody holds.
LEMMA WordsFit ==
  ASSUME NEW m, NEW L, NEW g, L = [s \in DOMAIN L |-> L[s]],
         \A s : s \in DOMAIN L <=> Holders(m, g, s) # {},
         \A s \in DOMAIN L : IsFiniteSet(Holders(m, g, s)) /\ L[s] = Cardinality(Holders(m, g, s))
  PROVE  LocksFit(m, L, g)
<1>1. ASSUME NEW p \in Proc, NEW s \in Symbols(m, p, g[p].locks) PROVE s \in DOMAIN L
  <2>1. p \in Holders(m, g, s)
    BY <1>1 DEF Holders
  <2> QED BY <2>1
<1> QED BY <1>1 DEF LocksFit

\* In h, p holds the locks of S, which it does not hold in g.
MoreLocks(g, h, p, S) ==
  /\ p \in Proc /\ h[p].locks = g[p].locks \cup S /\ S \cap g[p].locks = {}
  /\ \A q \in Proc : q # p => h[q].locks = g[q].locks

\* Their symbols are held by p, too.
LEMMA MoreHolders ==
  ASSUME NEW m, NEW g, NEW h, NEW p, NEW S, NEW T, T = Symbols(m, p, S), MoreLocks(g, h, p, S)
  PROVE  /\ \A s \in T : p \notin Holders(m, g, s) /\ Holders(m, h, s) = Holders(m, g, s) \cup {p}
         /\ \A s : s \notin T => Holders(m, h, s) = Holders(m, g, s)
<1>0. p \in Proc /\ h[p].locks = g[p].locks \cup S /\ S \cap g[p].locks = {}
  BY DEF MoreLocks
<1>1. Symbols(m, p, h[p].locks) = Symbols(m, p, g[p].locks) \cup T
  BY <1>0 DEF Symbols
<1>2. \A q \in Proc : q # p => Symbols(m, q, h[q].locks) = Symbols(m, q, g[q].locks)
  BY DEF MoreLocks
<1>3. ASSUME NEW s \in T PROVE s \notin Symbols(m, p, g[p].locks)
  <2>1. SUFFICES ASSUME s \in Symbols(m, p, g[p].locks) PROVE FALSE
    OBVIOUS
  <2>2. PICK v \in S : s = SymName(m, p, v)
    BY <1>3 DEF Symbols
  <2>3. PICK w \in g[p].locks : s = SymName(m, p, w)
    BY <2>1 DEF Symbols
  <2> QED BY <1>0, <2>2, <2>3, OneSymbolEach
<1>4. ASSUME NEW s \in T PROVE p \notin Holders(m, g, s) /\ Holders(m, h, s) = Holders(m, g, s) \cup {p}
  BY <1>0, <1>1, <1>2, <1>3, <1>4 DEF Holders
<1>5. ASSUME NEW s, s \notin T PROVE Holders(m, h, s) = Holders(m, g, s)
  BY <1>0, <1>1, <1>2, <1>5 DEF Holders
<1> QED BY <1>4, <1>5

\* The words when the locks of T are acquired, and when they are released.
Raised(T) == [s \in DOMAIN lock \cup T |-> IF s \in T THEN Word(s) + 1 ELSE lock[s]]
Less(T) == [s \in DOMAIN lock \cup T |-> IF s \in T THEN Word(s) - 1 ELSE lock[s]]
Lowered(T) == [s \in {t \in DOMAIN Less(T) : Less(T)[t] # 0} |-> Less(T)[s]]

\* AcquireLock of S.
LEMMA WordsUp ==
  ASSUME NEW g, NEW h, NEW p, NEW S, NEW T, T = Symbols(mem, p, S), LocksFit(mem, lock, g),
         MoreLocks(g, h, p, S),
         NEW L, L = Raised(T)
  PROVE  LocksFit(mem, L, h)
<1>1. ASSUME NEW s \in T
      PROVE  p \notin Holders(mem, g, s) /\ Holders(mem, h, s) = Holders(mem, g, s) \cup {p}
  BY <1>1, MoreHolders
<1>2. ASSUME NEW s, s \notin T PROVE Holders(mem, h, s) = Holders(mem, g, s)
  BY <1>2, MoreHolders
<1>3. /\ DOMAIN L = DOMAIN lock \cup T /\ L = [s \in DOMAIN L |-> L[s]]
      /\ \A s \in DOMAIN L : L[s] = IF s \in T THEN Word(s) + 1 ELSE lock[s]
  BY DEF Raised
<1>4. ASSUME NEW s PROVE s \in DOMAIN L <=> Holders(mem, h, s) # {}
  <2>1. s \in DOMAIN lock <=> Holders(mem, g, s) # {}
    BY HeldWords
  <2> QED BY <1>1, <1>2, <1>3, <2>1
<1>5. ASSUME NEW s \in DOMAIN L
      PROVE  IsFiniteSet(Holders(mem, h, s)) /\ L[s] = Cardinality(Holders(mem, h, s))
  <2>1. CASE s \notin T
    BY <1>2, <1>3, <1>5, <2>1 DEF LocksFit
  <2>2. CASE s \in T
    <3>1. PICK H : H = Holders(mem, g, s) /\ p \notin H /\ Holders(mem, h, s) = H \cup {p}
      BY <1>1, <2>2
    <3>2. IsFiniteSet(H) /\ Word(s) = Cardinality(H)
      <4>1. CASE s \in DOMAIN lock
        BY <3>1, <4>1 DEF LocksFit, Word
      <4>2. CASE s \notin DOMAIN lock
        <5>1. H = {} /\ Word(s) = 0
          BY <3>1, <4>2, HeldWords DEF Word
        <5> QED BY <5>1, FS_EmptySet
      <4> QED BY <4>1, <4>2
    <3>3. L[s] = Word(s) + 1
      BY <1>3, <1>5, <2>2
    <3>4. IsFiniteSet(H \cup {p}) /\ Cardinality(H \cup {p}) = Cardinality(H) + 1
      BY <3>1, <3>2, FS_AddElement
    <3> QED BY <3>1, <3>2, <3>3, <3>4
  <2> QED BY <2>1, <2>2
<1> QED BY <1>3, <1>4, <1>5, WordsFit

\* ReleaseLock of S.
LEMMA WordsDown ==
  ASSUME NEW g, NEW h, NEW p, NEW S, NEW T, T = Symbols(mem, p, S), LocksFit(mem, lock, g),
         MoreLocks(h, g, p, S),
         NEW L, L = Lowered(T)
  PROVE  LocksFit(mem, L, h) /\ \A s \in T : Word(s) > 0
<1>0. PICK A : A = Less(T)
  OBVIOUS
<1>1. ASSUME NEW s \in T
      PROVE  p \notin Holders(mem, h, s) /\ Holders(mem, g, s) = Holders(mem, h, s) \cup {p}
  BY <1>1, MoreHolders
<1>2. ASSUME NEW s, s \notin T PROVE Holders(mem, g, s) = Holders(mem, h, s)
  BY <1>2, MoreHolders
<1>3. ASSUME NEW s PROVE s \in DOMAIN lock <=> Holders(mem, g, s) # {}
  BY HeldWords
<1>4. T \subseteq DOMAIN lock
  BY <1>1, <1>3
<1>5. ASSUME NEW s \in DOMAIN lock
      PROVE  /\ IsFiniteSet(Holders(mem, h, s)) /\ A[s] = Cardinality(Holders(mem, h, s))
             /\ s \in T => Word(s) > 0
  <2>0. /\ IsFiniteSet(Holders(mem, g, s)) /\ lock[s] = Cardinality(Holders(mem, g, s))
        /\ Word(s) = lock[s]
    BY <1>5 DEF LocksFit, Word
  <2>1. CASE s \notin T
    BY <1>0, <1>2, <1>5, <2>0, <2>1 DEF Less
  <2>2. CASE s \in T
    <3>1. PICK H : H = Holders(mem, h, s) /\ p \notin H /\ Holders(mem, g, s) = H \cup {p}
      BY <1>1, <2>2
    <3>2. IsFiniteSet(H)
      <4>1. IsFiniteSet(H \cup {p}) /\ H \subseteq H \cup {p}
        BY <2>0, <3>1
      <4> QED BY <4>1, FS_Subset
    <3>3. Cardinality(H) \in Nat /\ Cardinality(H \cup {p}) = Cardinality(H) + 1
      BY <3>1, <3>2, FS_AddElement, FS_CardinalityType
    <3>4. A[s] = Word(s) - 1
      BY <1>0, <1>5, <2>2 DEF Less
    <3> QED BY <2>0, <3>1, <3>2, <3>3, <3>4
  <2> QED BY <2>1, <2>2
<1>6. DOMAIN A = DOMAIN lock
  BY <1>0, <1>4 DEF Less
<1>7. DOMAIN L = {s \in DOMAIN lock : A[s] # 0} /\ (\A s \in DOMAIN L : L[s] = A[s])
      /\ L = [s \in DOMAIN L |-> L[s]]
  BY <1>0, <1>6 DEF Lowered
<1>8. ASSUME NEW s PROVE s \in DOMAIN L <=> Holders(mem, h, s) # {}
  <2>1. CASE s \in DOMAIN lock
    <3>1. IsFiniteSet(Holders(mem, h, s)) /\ A[s] = Cardinality(Holders(mem, h, s))
      BY <1>5, <2>1
    <3>2. A[s] = 0 <=> Holders(mem, h, s) = {}
      BY <3>1, FS_EmptySet
    <3> QED BY <1>7, <2>1, <3>2
  <2>2. CASE s \notin DOMAIN lock
    BY <1>1, <1>2, <1>3, <1>7, <2>2
  <2> QED BY <2>1, <2>2
<1>9. \A s \in DOMAIN L : IsFiniteSet(Holders(mem, h, s)) /\ L[s] = Cardinality(Holders(mem, h, s))
  BY <1>5, <1>7
<1>10. LocksFit(mem, L, h)
  BY <1>7, <1>8, <1>9, WordsFit
<1> QED BY <1>4, <1>5, <1>10

\* lock and unlock change the locks of a frame, and nothing else.
LEMMA LocksChange ==
  ASSUME NEW fr, NEW S, NEW to, FrameOk(fr), Locks(fr, S, to)
  PROVE  /\ to.locks = fr.locks \cup S /\ S \cap fr.locks = {}
         /\ to.names = fr.names /\ to.depth = fr.depth /\ to.given = fr.given
         /\ to.globals = fr.globals
<1>1. PICK x : x = fr.locks \cup S
  OBVIOUS
<1>2. to = [fr EXCEPT !.locks = x]
  BY <1>1 DEF Locks, FrameOk
<1> QED BY <1>1, <1>2, FrameFields DEF Locks

\* A process goes on with other locks, where the words of L count them.
LEMMA LockedFits ==
  ASSUME NEW m, NEW L, NEW L2, NEW g, NEW o, NEW p, NEW fr, NEW to,
         Executing(g, p, fr), Fits(m, L, g, o), FrameOk(to),
         to.names = fr.names, to.depth = fr.depth, to.given = fr.given, to.globals = fr.globals,
         LocksFit(m, L2, Moved(g, p, to))
  PROVE  Fits(m, L2, Moved(g, p, to), o)
<1>1. PICK h : h = Moved(g, p, to)
  OBVIOUS
<1>2. p \in Proc /\ fr = g[p] /\ \A q \in Proc : FrameOk(g[q])
  BY DEF Executing, Fits
<1>3. \A q \in Proc : FrameOk(h[q])
  BY <1>1, <1>2, MovedOk
<1>4. DOMAIN m.alloc = DOMAIN h[Root].globals
  BY <1>1, <1>2, MovedGlobals DEF Fits
<1>5. NamesOf(h) = NamesOf(g) /\ DepthsOf(h) = DepthsOf(g)
  BY <1>1, <1>2, MovedSame
<1>6. MemFits(m, NamesOf(h), DepthsOf(h), o)
  BY <1>5 DEF Fits
<1> QED BY <1>1, <1>3, <1>4, <1>6 DEF Fits

\* Of all processes only p comes to hold more.
LEMMA MovedMore ==
  ASSUME NEW g, NEW p, NEW fr, NEW to, Executing(g, p, fr), \A q \in Proc : FrameOk(g[q]), NEW S,
         NEW h, h = Moved(g, p, to)
  PROVE  /\ to.locks = fr.locks \cup S /\ S \cap fr.locks = {} => MoreLocks(g, h, p, S)
         /\ fr.locks = to.locks \cup S /\ S \cap to.locks = {} => MoreLocks(h, g, p, S)
<1>1. p \in Proc /\ fr = g[p]
  BY DEF Executing
<1>2. h[p].locks = to.locks /\ \A q \in Proc : q # p => h[q].locks = g[q].locks
  BY <1>1, MovedLocks
<1> QED BY <1>1, <1>2 DEF MoreLocks

\* Every variable of a list that a frame admits is known.
LEMMA AllKnown ==
  ASSUME NEW g, NEW o, NEW p, NEW fr, Executing(g, p, fr), Fits(mem, lock, g, o),
         NEW S, \A v \in S : Visible(fr, v)
  PROVE  KnownAll(p, S)
<1> SUFFICES ASSUME NEW v \in S PROVE Known(mem, p, Ref(v))
  BY DEF KnownAll
<1>1. PICK x : x = Ref(v)
  OBVIOUS
<1>3. OperandOk(fr, x)
  <2>1. x.k = "ref" /\ x.v = v
    BY <1>1 DEF Ref
  <2> QED BY <2>1 DEF OperandOk
<1>2. SeesAs(mem, NamesOf(g), p, fr) /\ MemFits(mem, NamesOf(g), DepthsOf(g), o)
  BY Sees DEF Executing, Fits
<1> QED BY <1>1, <1>2, <1>3, OperandReaches

\* AcquireLock of the variables of S.
LEMMA LockMoves ==
  ASSUME NEW g, NEW o, NEW p, NEW fr, NEW to, NEW S, NEW T, T = Symbols(mem, p, S),
         Executing(g, p, fr), Fits(mem, lock, g, o), FrameOk(to), Locks(fr, S, to),
         NEW L, L = Raised(T)
  PROVE  Fits(mem, L, Moved(g, p, to), o) /\ KnownAll(p, S)
<1>1. PICK h : h = Moved(g, p, to)
  OBVIOUS
<1>2. fr = g[p] /\ (\A q \in Proc : FrameOk(g[q])) /\ FrameOk(fr) /\ LocksFit(mem, lock, g)
  BY DEF Executing, Fits
<1>3. /\ to.locks = fr.locks \cup S /\ S \cap fr.locks = {}
      /\ to.names = fr.names /\ to.depth = fr.depth /\ to.given = fr.given
      /\ to.globals = fr.globals
  BY <1>2, LocksChange
<1>4. MoreLocks(g, h, p, S)
  BY <1>1, <1>2, <1>3, MovedMore
<1>5. LocksFit(mem, L, h)
  BY <1>2, <1>4, WordsUp
<1>6. Fits(mem, L, h, o)
  BY <1>1, <1>3, <1>5, LockedFits
<1>7. KnownAll(p, S)
  BY AllKnown DEF Locks
<1> QED BY <1>1, <1>6, <1>7

\* ReleaseLock of the variables of S.
LEMMA UnlockMoves ==
  ASSUME NEW g, NEW o, NEW p, NEW fr, NEW to, NEW S, NEW T, T = Symbols(mem, p, S),
         Executing(g, p, fr), Fits(mem, lock, g, o), FrameOk(to), Locks(to, S, fr),
         NEW L, L = Lowered(T)
  PROVE  Fits(mem, L, Moved(g, p, to), o) /\ KnownAll(p, S) /\ \A s \in T : Word(s) > 0
<1>1. PICK h : h = Moved(g, p, to)
  OBVIOUS
<1>2. fr = g[p] /\ (\A q \in Proc : FrameOk(g[q])) /\ LocksFit(mem, lock, g)
  BY DEF Executing, Fits
<1>3. /\ fr.locks = to.locks \cup S /\ S \cap to.locks = {}
      /\ to.names = fr.names /\ to.depth = fr.depth /\ to.given = fr.given
      /\ to.globals = fr.globals
  BY LocksChange
<1>4. MoreLocks(h, g, p, S)
  BY <1>1, <1>2, <1>3, MovedMore
<1>5. LocksFit(mem, L, h)
  BY <1>2, <1>4, WordsDown
<1>9. \A s \in T : Word(s) > 0
  BY <1>2, <1>4, WordsDown
<1>6. Fits(mem, L, h, o)
  BY <1>1, <1>3, <1>5, LockedFits
<1>7. \A v \in S : Visible(fr, v)
  BY <1>3 DEF Locks, Visible
<1>8. KnownAll(p, S)
  BY <1>7, AllKnown
<1> QED BY <1>1, <1>6, <1>8, <1>9

-----------------------------------------------------------------------------
(* Globals *)

\* While the root executes and nobody else runs, it sets and unsets globals that it has
\* not locked.
LEMMA GlobalsFit ==
  ASSUME NEW m, NEW m2, NEW L, NEW g, NEW o, NEW fr, NEW to,
         Executing(g, Root, fr), Fits(m, L, g, o), FrameOk(to), running \subseteq {Root},
         to.names = fr.names, to.depth = fr.depth, to.given = fr.given, to.locks = fr.locks,
         MemIs(m2), m2.table = m.table, m2.nest = m.nest, m2.var = m.var,
         DOMAIN m2.alloc = DOMAIN to.globals,
         \A v \in fr.locks : v \in DOMAIN m2.alloc <=> v \in DOMAIN m.alloc,
         \A v \in fr.locks : v \in DOMAIN m.alloc => m2.alloc[v] = m.alloc[v]
  PROVE  Fits(m2, L, Moved(g, Root, to), o)
<1>1. PICK h : h = Moved(g, Root, to)
  OBVIOUS
<1>2. Root \in Proc /\ fr = g[Root] /\ \A q \in Proc : FrameOk(g[q])
  BY DEF Executing, Fits
<1>3. \A q \in Proc : FrameOk(h[q])
  BY <1>1, <1>2, MovedOk
<1>4. DOMAIN m2.alloc = DOMAIN h[Root].globals
  <2>1. h[Root] = to
    BY <1>1, <1>2, MovedIs
  <2> QED BY <2>1
<1>5. NamesOf(h) = NamesOf(g) /\ DepthsOf(h) = DepthsOf(g)
  BY <1>1, <1>2, MovedSame
<1>6. MemFits(m2, NamesOf(h), DepthsOf(h), o)
  BY <1>5 DEF Fits, MemFits, NamesFit
<1>7. \A q \in Proc : h[q].locks = g[q].locks
  BY <1>1, <1>2, MovedLocks
<1>8. ASSUME NEW q \in Proc, NEW v \in g[q].locks PROVE AddrOfName(m2, q, v) = AddrOfName(m, q, v)
  <2>1. q = Root
    <3>1. SUFFICES ASSUME q # Root PROVE FALSE
      OBVIOUS
    <3>2. Idle(g, q)
      BY <3>1 DEF Executing
    <3> QED BY <1>8, <3>2 DEF Idle
  <2>2. v \in fr.locks
    BY <1>2, <1>8, <2>1
  <2> QED BY <2>2 DEF AddrOfName, Bound, Top
<1>9. LocksFit(m2, L, h)
  BY <1>7, <1>8, LocksKept DEF Fits
<1> QED BY <1>1, <1>3, <1>4, <1>6, <1>9 DEF Fits

\* What setting a global does to a frame.
LEMMA GlobalsChange ==
  ASSUME NEW fr, NEW i, NEW to, FrameOk(fr), SetsGlobal(fr, i, to)
  PROVE  /\ i.v \notin DOMAIN fr.globals \cup fr.locks /\ i.cell \in Nat
         /\ DOMAIN to.globals = DOMAIN fr.globals \cup {i.v}
         /\ to.names = fr.names /\ to.depth = fr.depth /\ to.given = fr.given /\ to.locks = fr.locks
<1>1. PICK arr \in BOOLEAN : to = [fr EXCEPT !.globals = Entered(@, {i.v}, arr)]
  BY DEF SetsGlobal
<1>2. PICK x : x = Entered(fr.globals, {i.v}, arr)
  OBVIOUS
<1>3. to = [fr EXCEPT !.globals = x]
  BY <1>1, <1>2 DEF FrameOk
<1>4. DOMAIN x = DOMAIN fr.globals \cup {i.v}
  BY <1>2 DEF Entered
<1>5. /\ to.globals = x /\ to.names = fr.names /\ to.depth = fr.depth
      /\ to.given = fr.given /\ to.locks = fr.locks
  BY <1>3, FrameFields
<1>6. i.v \notin DOMAIN fr.globals \cup fr.locks /\ i.cell \in Nat
  BY DEF SetsGlobal
<1> QED BY <1>4, <1>5, <1>6

\* set #x M[c].
LEMMA SetNameMoves ==
  ASSUME NEW m, NEW L, NEW g, NEW o, NEW fr, NEW to, NEW i,
         Executing(g, Root, fr), Fits(m, L, g, o), FrameOk(to), running \subseteq {Root},
         SetsGlobal(fr, i, to)
  PROVE  /\ Fits([m EXCEPT !.alloc = Entered(@, {i.v}, Global(i.cell))], L, Moved(g, Root, to), o)
         /\ i.v \notin DOMAIN m.alloc
<1>1. PICK x, m2 : /\ x = Entered(m.alloc, {i.v}, Global(i.cell))
                   /\ m2 = [m EXCEPT !.alloc = Entered(@, {i.v}, Global(i.cell))]
  OBVIOUS
<1>2. fr = g[Root] /\ FrameOk(fr) /\ MemIs(m) /\ DOMAIN m.alloc = DOMAIN fr.globals
  BY DEF Executing, Fits, MemFits, NamesFit
<1>3. /\ i.v \notin DOMAIN fr.globals \cup fr.locks /\ i.cell \in Nat
      /\ DOMAIN to.globals = DOMAIN fr.globals \cup {i.v}
      /\ to.names = fr.names /\ to.depth = fr.depth /\ to.given = fr.given /\ to.locks = fr.locks
  BY <1>2, GlobalsChange
<1>4. m2 = [m EXCEPT !.alloc = x]
  BY <1>1, <1>2 DEF MemIs
<1>5. /\ DOMAIN m2 = DOMAIN m /\ m2.alloc = x
      /\ m2.table = m.table /\ m2.nest = m.nest /\ m2.var = m.var
  BY <1>2, <1>4 DEF MemIs
<1>6. /\ DOMAIN x = DOMAIN m.alloc \cup {i.v} /\ x[i.v] = Global(i.cell)
      /\ x = [v \in DOMAIN x |-> x[v]] /\ \A v \in DOMAIN m.alloc : v # i.v => x[v] = m.alloc[v]
  BY <1>1 DEF Entered
<1>7. Global(i.cell) \in [glob : {TRUE}, idx : Nat]
  BY <1>3 DEF Global
<1>8. MemIs(m2)
  BY <1>2, <1>5, <1>6, <1>7 DEF MemIs
<1>9. DOMAIN m2.alloc = DOMAIN to.globals
  BY <1>2, <1>3, <1>5, <1>6
<1>10. /\ \A v \in fr.locks : v \in DOMAIN m2.alloc <=> v \in DOMAIN m.alloc
       /\ \A v \in fr.locks : v \in DOMAIN m.alloc => m2.alloc[v] = m.alloc[v]
  BY <1>3, <1>5, <1>6
<1>11. Fits(m2, L, Moved(g, Root, to), o)
  BY <1>3, <1>5, <1>8, <1>9, <1>10, GlobalsFit
<1> QED BY <1>1, <1>2, <1>3, <1>11

\* unset #x M[c].
LEMMA UnsetNameMoves ==
  ASSUME NEW m, NEW L, NEW g, NEW o, NEW fr, NEW to, NEW i,
         Executing(g, Root, fr), Fits(m, L, g, o), FrameOk(to), running \subseteq {Root},
         SetsGlobal(to, i, fr)
  PROVE  /\ Fits([m EXCEPT !.alloc = [w \in DOMAIN @ \ {i.v} |-> @[w]]], L, Moved(g, Root, to), o)
         /\ i.v \in DOMAIN m.alloc
<1>1. PICK x, m2 : /\ x = [w \in DOMAIN m.alloc \ {i.v} |-> m.alloc[w]]
                   /\ m2 = [m EXCEPT !.alloc = x]
  OBVIOUS
<1>2. fr = g[Root] /\ MemIs(m) /\ DOMAIN m.alloc = DOMAIN fr.globals
  BY DEF Executing, Fits, MemFits, NamesFit
<1>3. /\ i.v \notin DOMAIN to.globals \cup to.locks
      /\ DOMAIN fr.globals = DOMAIN to.globals \cup {i.v}
      /\ to.names = fr.names /\ to.depth = fr.depth /\ to.given = fr.given /\ to.locks = fr.locks
  BY GlobalsChange
<1>5. /\ DOMAIN m2 = DOMAIN m /\ m2.alloc = x
      /\ m2.table = m.table /\ m2.nest = m.nest /\ m2.var = m.var
  BY <1>1, <1>2 DEF MemIs
<1>6. /\ DOMAIN x = DOMAIN m.alloc \ {i.v} /\ x = [v \in DOMAIN x |-> x[v]]
      /\ \A v \in DOMAIN x : x[v] = m.alloc[v]
  BY <1>1
<1>8. MemIs(m2)
  BY <1>2, <1>5, <1>6 DEF MemIs
<1>9. DOMAIN m2.alloc = DOMAIN to.globals
  BY <1>2, <1>3, <1>5, <1>6
<1>10. /\ \A v \in fr.locks : v \in DOMAIN m2.alloc <=> v \in DOMAIN m.alloc
       /\ \A v \in fr.locks : v \in DOMAIN m.alloc => m2.alloc[v] = m.alloc[v]
  BY <1>3, <1>5, <1>6
<1>11. Fits(m2, L, Moved(g, Root, to), o)
  BY <1>3, <1>5, <1>8, <1>9, <1>10, GlobalsFit
<1>12. m2 = [m EXCEPT !.alloc = [w \in DOMAIN @ \ {i.v} |-> @[w]]]
  BY <1>1, <1>2 DEF MemIs
<1> QED BY <1>2, <1>3, <1>11, <1>12

-----------------------------------------------------------------------------
(* Borders of blocks *)

\* The instruction of a block has a name, and is a call only where the text calls.
LEMMA CallHere ==
  ASSUME MachInv, NEW p \in running, Instr(p).op = "call"
  PROVE  Instr(p) = LineAt(file, Base(p) + 1) /\ LineAt(file, Base(p) + 1).op = "call"
<1>1. PICK i : i = LineAt(file, Base(p) + 1) /\ i \in TextLines(Lines(code))
  BY BlocksWhole DEF WholeBlocks
<1>2. "op" \in DOMAIN i
  BY <1>1, BlocksOfText DEF TextLines, MachInv, FileOk
<1> QED BY <1>1, <1>2, BackwardCall DEF Instr

\* A call leaves the frame as it is.
LEMMA CallMoves ==
  ASSUME NEW fr, NEW to, NEW i, Moves(fr, i, to), i.op = "call"
  PROVE  to = fr
BY DEF Moves

\* The frames at both ends of a procedure that is called with the frame fr.
CalledWith(pre, post, name, bare) ==
  /\ name # "main"
  /\ file.begin[name] \in DOMAIN pre /\ pre[file.begin[name]] = bare
  /\ file.end[name] - 2 \in DOMAIN pre /\ post[file.end[name] - 2] = bare

\* Both ends of the procedure that a child executes have the names that are given to it.
LEMMA Called ==
  ASSUME MachInv, NEW pre, NEW post, Framed(file, pre, post),
         NEW q \in running, Base(q) \in DOMAIN pre, Instr(q).op = "call",
         NEW c \in Children(q), NEW name, name = Instr(q).procs[Last(c) + 1],
         NEW fr, fr = Here(pre, post, q)
  PROVE  CalledWith(pre, post, name, Bare(name, fr.globals, Given(fr, Last(c)))) /\ Front(c) = q
<1>1. PICK b, i : b = Base(q) /\ i = LineAt(file, b + 1)
  OBVIOUS
<1>2. Instr(q) = i /\ i.op = "call"
  BY <1>1, CallHere
<1>3. PICK j \in DOMAIN i.procs : c = ChildPC(q, j - 1)
  BY <1>2 DEF Children
<1>4. j \in Nat \ {0}
  <2>1. PICK S : i.procs \in Seq(S)
    BY <1>2, CallsKnown
  <2> QED BY <2>1, <1>3
<1>5. Last(c) = j - 1 /\ Front(c) = q
  <2>1. q \in Seq(Nat) /\ j - 1 \in Nat
    BY <1>4, ProcAssumption DEF MachInv
  <2> QED BY <1>3, <2>1, ChildOf
<1>6. name = i.procs[j]
  BY <1>2, <1>4, <1>5
<1>7. pre[b] = fr
  <2>1. Moves(fr, Instr(q), There(pre, post, q))
    BY HereToThere
  <2>2. There(pre, post, q) = fr
    BY <1>2, <2>1, CallMoves
  <2> QED BY <1>1, <2>2 DEF Here, There
<1>8. CalledWith(pre, post, name, Bare(name, pre[b].globals, Given(pre[b], j - 1)))
  <2>1. Calls(file, pre, post, b)
    BY <1>1 DEF Framed
  <2> QED BY <1>1, <1>2, <1>3, <1>6, <2>1 DEF Calls, CalledWith
<1> QED BY <1>5, <1>7, <1>8

\* What is known of the frames between two steps.
Framing(pre, post, g, o) ==
  /\ Framed(file, pre, post) /\ Fits(mem, lock, g, o)
  /\ FramesFit(g) /\ Linked(pre, post, g)

\* A process other than the root has been called, and executes another procedure.
LEMMA CalledBy ==
  ASSUME MachInv, NEW pre, NEW post, NEW g, NEW o, Framing(pre, post, g, o),
         NEW p \in running, p # Root, NEW f, f = Front(p), NEW name, name = ProcOf(p)
  PROVE  /\ f \in waiting /\ f \in running /\ p \in Children(f)
         /\ CalledWith(pre, post, name, Bare(name, g[f].globals, Given(g[f], Last(p))))
<1>1. f \in waiting /\ f \in running /\ p \in Children(f)
  BY DEF MachInv
<1>2. Instr(f).op = "call"
  BY <1>1 DEF Framing, FramesFit
<1>3. Framed(file, pre, post) /\ Base(f) \in DOMAIN pre /\ g[f] = Here(pre, post, f)
  BY <1>1 DEF Framing, Linked
<1>4. name = Instr(f).procs[Last(p) + 1]
  BY DEF ProcOf
<1> QED BY <1>1, <1>2, <1>3, <1>4, Called

\* A process of which nobody that it has called still runs executes in the frame of its border.
LEMMA Ready ==
  ASSUME MachInv, NEW pre, NEW post, NEW g, NEW o, Framing(pre, post, g, o),
         NEW p \in running, \A c \in running \ {Root} : Front(c) # p
  PROVE  Executing(g, p, Here(pre, post, p)) /\ Base(p) \in DOMAIN pre
<1>1. p \in running /\ running \subseteq Proc
  BY DEF MachInv
<1>2. Base(p) \in DOMAIN pre /\ g[p] = Here(pre, post, p)
  BY DEF Framing, Linked
<1>3. g[p].globals = g[Root].globals /\ g[p].proc = ProcOf(p) /\ \A q \in Proc \ running : Idle(g, q)
  BY DEF Framing, FramesFit
<1> QED BY <1>1, <1>2, <1>3, Zenon DEF Executing

\* Nobody that a process which executes has called still runs.
LEMMA NoChildRuns ==
  ASSUME MachInv, NEW p \in running \ waiting
  PROVE  /\ \A c \in running \ {Root} : Front(c) # p
         /\ \A q \in running : ~Under(p, q)
<1>1. \A c \in running \ {Root} : Front(c) \in waiting
  BY DEF MachInv
<1>2. \A q \in running : ~Under(p, q)
  BY NobodyUnder DEF MachInv
<1> QED BY <1>1, <1>2

\* Only the root executes the procedure main, and then alone.
LEMMA MainAlone ==
  ASSUME MachInv, NEW pre, NEW post, NEW g, NEW o, Framing(pre, post, g, o),
         NEW p \in running \ waiting, g[p].proc = "main"
  PROVE  p = Root /\ running \subseteq {Root}
<1>1. p = Root
  <2>1. SUFFICES ASSUME p # Root PROVE FALSE
    OBVIOUS
  <2>2. ProcOf(p) = "main"
    BY DEF Framing, FramesFit
  <2> QED BY <2>1, <2>2, CalledBy DEF CalledWith
<1>2. ASSUME NEW q \in running, q # Root PROVE FALSE
  <2>1. ~Under(Root, q)
    BY <1>1, NoChildRuns
  <2>2. q \in Seq(Nat)
    BY ProcAssumption DEF MachInv
  <2>3. Len(q) > 0
    BY <1>2, <2>2 DEF Root
  <2>4. Len(Root) = 0
    BY DEF Root
  <2> QED BY <2>1, <2>3, <2>4 DEF Under
<1> QED BY <1>1, <1>2

\* What holds of the frame fr on the side of the block of p where p comes from.
FirstOk(p, fr) ==
  /\ ~Jumps(FirstLine(p)) => fr.depth = 0
  /\ Jumps(FirstLine(p)) => OperandOk(fr, FirstLine(p).cond)

\* ... and of the frame on the side where p goes: that of the end of the procedure, or of
\* every border that the jump leads to.
Lands(pre, post, l, to) ==
  IF rev THEN l \in DOMAIN file.goto /\ file.goto[l] - 2 \in DOMAIN pre /\ post[file.goto[l] - 2] = to
         ELSE l \in DOMAIN file.come /\ file.come[l] \in DOMAIN pre /\ pre[file.come[l]] = to
AtEndOf(pre, post, to) ==
  to = IF rev THEN pre[file.begin[to.proc]] ELSE post[file.end[to.proc] - 2]
FinalOk(pre, post, p, to) ==
  /\ ~Jumps(FinalLine(p)) => to.depth = 0 /\ AtEndOf(pre, post, to)
  /\ Jumps(FinalLine(p)) =>
       /\ OperandOk(to, FinalLine(p).cond)
       /\ \A l \in {FinalLine(p).l, FinalLine(p).m} : Lands(pre, post, l, to)

\* The first line and the last of a block are as the text says of its borders.
LEMMA BordersOk ==
  ASSUME MachInv, NEW pre, NEW post, Framed(file, pre, post), NEW p \in running, Base(p) \in DOMAIN pre
  PROVE  FirstOk(p, Here(pre, post, p)) /\ FinalOk(pre, post, p, There(pre, post, p))
<1>1. PICK b, s, t : b = Base(p) /\ s = LineAt(file, b) /\ t = LineAt(file, b + 2)
  OBVIOUS
<1>2. Enters(file, pre, post, b) /\ Leaves(file, pre, post, b)
  BY <1>1 DEF Framed
<1>3. s = Entry(p) /\ t = Exit(p) /\ IsEntry(s) /\ IsExit(t)
  BY <1>1, BlocksWhole DEF WholeBlocks, Entry, Exit
<1>4. (Jumps(s) <=> s.op = "<-") /\ (~Jumps(s) <=> s.op = "begin")
      /\ (Jumps(t) <=> t.op = "->") /\ (~Jumps(t) <=> t.op = "end")
  BY <1>3, EntryOrExit DEF Jumps, IsEntry, IsExit
<1>5. /\ s.op = "begin" => s.name = pre[b].proc /\ pre[b].depth = 0 /\ pre[b] = pre[file.begin[s.name]]
      /\ s.op = "<-" =>
           /\ OperandOk(pre[b], s.cond)
           /\ \A l \in {s.l, s.m} :
                l \in DOMAIN file.goto /\ file.goto[l] - 2 \in DOMAIN pre /\ post[file.goto[l] - 2] = pre[b]
  BY <1>1, <1>2 DEF Enters
<1>6. /\ t.op = "end" => t.name = post[b].proc /\ post[b].depth = 0 /\ post[b] = post[file.end[t.name] - 2]
      /\ t.op = "->" =>
           /\ OperandOk(post[b], t.cond)
           /\ \A l \in {t.l, t.m} :
                l \in DOMAIN file.come /\ file.come[l] \in DOMAIN pre /\ pre[file.come[l]] = post[b]
  BY <1>1, <1>2 DEF Leaves
<1>7. CASE rev
  <2>1. FirstLine(p) = t /\ FinalLine(p) = s /\ Here(pre, post, p) = post[b] /\ There(pre, post, p) = pre[b]
    BY <1>1, <1>3, <1>7 DEF FirstLine, FinalLine, Here, There
  <2>2. FirstOk(p, post[b])
    BY <1>4, <1>6, <2>1 DEF FirstOk
  <2>3. s.op = "begin" => AtEndOf(pre, post, pre[b])
    BY <1>5, <1>7 DEF AtEndOf
  <2>4. s.op = "<-" => \A l \in {s.l, s.m} : Lands(pre, post, l, pre[b])
    BY <1>5, <1>7 DEF Lands
  <2>5. FinalOk(pre, post, p, pre[b])
    BY <1>4, <1>5, <2>1, <2>3, <2>4 DEF FinalOk
  <2> QED BY <2>1, <2>2, <2>5
<1>8. CASE ~rev
  <2>1. FirstLine(p) = s /\ FinalLine(p) = t /\ Here(pre, post, p) = pre[b] /\ There(pre, post, p) = post[b]
    BY <1>1, <1>3, <1>8 DEF FirstLine, FinalLine, Here, There
  <2>2. FirstOk(p, pre[b])
    BY <1>4, <1>5, <2>1 DEF FirstOk
  <2>3. t.op = "end" => AtEndOf(pre, post, post[b])
    BY <1>6, <1>8 DEF AtEndOf
  <2>4. t.op = "->" => \A l \in {t.l, t.m} : Lands(pre, post, l, post[b])
    BY <1>6, <1>8 DEF Lands
  <2>5. FinalOk(pre, post, p, post[b])
    BY <1>4, <1>6, <2>1, <2>3, <2>4 DEF FinalOk
  <2> QED BY <2>1, <2>2, <2>5
<1> QED BY <1>7, <1>8

\* A jump leads to the border of a block, in the frame that it leaves.
LEMMA JumpLands ==
  ASSUME MachInv, NEW pre, NEW post, NEW p, NEW to, FinalOk(pre, post, p, to), Jumps(FinalLine(p)),
         NEW m, NEW b, b = IF rev THEN HeadAfter(m, p) - 3 ELSE HeadAfter(m, p)
  PROVE  /\ LabelKnown(FinalLine(p))
         /\ b \in DOMAIN pre /\ to = IF rev THEN post[b] ELSE pre[b]
<1>1. PICK t : t = FinalLine(p)
  OBVIOUS
<1>2. PICK l : l \in {t.l, t.m} /\ HeadAfter(m, p) = IF rev THEN file.goto[l] + 1 ELSE file.come[l]
  BY <1>1 DEF HeadAfter
<1>3. \A x \in {t.l, t.m} : Lands(pre, post, x, to)
  BY <1>1 DEF FinalOk
<1>4. LabelKnown(t)
  BY <1>3 DEF LabelKnown, Lands
<1>5. rev => b = file.goto[l] - 2
  <2>1. PICK len \in Nat : FileIs(len)
    BY FileFacts DEF MachInv
  <2>2. rev => file.goto[l] \in Int
    BY <1>2, <1>3, <2>1 DEF Lands, FileIs
  <2> QED BY <1>2, <2>2
<1>6. Lands(pre, post, l, to)
  BY <1>2, <1>3
<1>7. CASE rev
  BY <1>1, <1>4, <1>5, <1>6, <1>7 DEF Lands
<1>8. CASE ~rev
  BY <1>1, <1>2, <1>4, <1>6, <1>8 DEF Lands
<1> QED BY <1>1, <1>4, <1>7, <1>8

\* An instruction keeps the procedure, and all but two keep the globals.
LEMMA MovesKeeps ==
  ASSUME NEW fr, NEW to, NEW i, FrameOk(fr), FrameOk(to), Moves(fr, i, to)
  PROVE  /\ to.proc = fr.proc
         /\ i.op \notin {"setg", "unsetg"} => to.globals = fr.globals
         /\ i.op \in {"setg", "unsetg"} => fr.proc = "main"
<1>1. CASE i.op = "upd"
  <2>1. CASE to = fr
    BY <1>1, <2>1
  <2>2. CASE Declares(fr, i.dst.v, to)
    <3>1. PICK x : to = [fr EXCEPT !.names = x]
      BY <2>2 DEF Declares
    <3> QED BY <1>1, <3>1, FrameFields
  <2>3. CASE Declares(to, i.dst.v, fr)
    <3>1. PICK x : fr = [to EXCEPT !.names = x]
      BY <2>3 DEF Declares
    <3> QED BY <1>1, <3>1, FrameFields
  <2> QED BY <1>1, <2>1, <2>2, <2>3 DEF Moves, Updates
<1>2. CASE i.op = "push"
  <2>1. PICK x : to = [fr EXCEPT !.depth = x]
    BY <1>2 DEF Moves, Pushes
  <2> QED BY <1>2, <2>1, FrameFields
<1>3. CASE i.op = "pop"
  <2>1. PICK x : fr = [to EXCEPT !.depth = x]
    BY <1>3 DEF Moves, Pushes
  <2> QED BY <1>3, <2>1, FrameFields
<1>4. CASE i.op = "lock"
  <2>1. PICK x : to = [fr EXCEPT !.locks = x]
    BY <1>4 DEF Moves, Locks
  <2> QED BY <1>4, <2>1, FrameFields
<1>5. CASE i.op = "unlock"
  <2>1. PICK x : fr = [to EXCEPT !.locks = x]
    BY <1>5 DEF Moves, Locks
  <2> QED BY <1>5, <2>1, FrameFields
<1>6. CASE i.op = "set"
  <2>1. PICK x : to = [fr EXCEPT !.given = x]
    BY <1>6 DEF Moves, Sets
  <2> QED BY <1>6, <2>1, FrameFields
<1>7. CASE i.op = "unset"
  <2>1. PICK x : fr = [to EXCEPT !.given = x]
    BY <1>7 DEF Moves, Sets
  <2> QED BY <1>7, <2>1, FrameFields
<1>8. CASE i.op = "setg"
  <2>1. fr.proc = "main" /\ \E x : to = [fr EXCEPT !.globals = x]
    BY <1>8 DEF Moves, SetsGlobal
  <2> QED BY <1>8, <2>1, FrameFields
<1>9. CASE i.op = "unsetg"
  <2>1. to.proc = "main" /\ \E x : fr = [to EXCEPT !.globals = x]
    BY <1>9 DEF Moves, SetsGlobal
  <2> QED BY <1>9, <2>1, FrameFields
<1>10. CASE i.op \in {"swap", "V", "P", "skip", "call"}
  BY <1>10 DEF Moves
<1> QED BY <1>1, <1>2, <1>3, <1>4, <1>5, <1>6, <1>7, <1>8, <1>9, <1>10 DEF Moves

-----------------------------------------------------------------------------
(* The instructions, each in a frame that admits it *)

\* p executes its block, legally, and what it leaves fits the frame to.
Done(g, p, to) == \E m, o : Finish(p, m, TRUE) /\ Fits(m, lock', Moved(g, p, to), o)

\* Values change and nothing else, for nobody.
LEMMA AlikeFrames ==
  ASSUME NEW m, NEW m2, NEW L, NEW g, NEW o, Fits(m, L, g, o), Alike(m, m2)
  PROVE  Fits(m2, L, g, o)
<1>1. MemFits(m2, NamesOf(g), DepthsOf(g), o)
  BY AlikeFits DEF Fits
<1>2. m2.table = m.table /\ m2.alloc = m.alloc
  BY DEF Alike
<1>3. LocksFit(m2, L, g)
  <2>1. \A q \in Proc : \A v \in g[q].locks : AddrOfName(m2, q, v) = AddrOfName(m, q, v)
    BY <1>2, AlikeNames
  <2> QED BY <2>1, LocksKept DEF Fits
<1> QED BY <1>1, <1>2, <1>3 DEF Fits

\* A variable is declared where it is not allocated, and given up where it is.
LEMMA DeclaredHere ==
  ASSUME NEW m, NEW L, NEW g, NEW o, NEW p, NEW fr, NEW to, NEW v,
         Executing(g, p, fr), Fits(m, L, g, o), FrameOk(to)
  PROVE  /\ Declares(fr, v, to) => ~IsAllocatedLocal(m, p, v) /\ Visible(to, v)
         /\ Declares(to, v, fr) => IsAllocatedLocal(m, p, v) /\ Visible(fr, v)
<1>1. p \in Proc /\ fr = g[p] /\ FrameOk(fr)
  BY DEF Executing, Fits
<1>2. PICK N, D : N = NamesOf(g) /\ D = DepthsOf(g)
  OBVIOUS
<1>3. N[p] = fr.names /\ D[p] = fr.depth /\ NamesFit(m, N, D)
  BY <1>1, <1>2 DEF NamesOf, DepthsOf, Fits, MemFits
<1>4. IsAllocatedLocal(m, p, v) <=> v \in DOMAIN fr.names /\ Last(fr.names[v]).nest = fr.depth
  <2>1. Stacks(N[p], SlotSet)
    BY <1>1, <1>3, FrameStacks
  <2>2. IsAllocatedLocal(m, p, v) <=> BoundAt(N[p], v, D[p])
    BY <1>1, <1>3, <2>1, AllocatedHere
  <2> QED BY <1>3, <2>2 DEF BoundAt
<1>5. ASSUME NEW x, NEW y, FrameOk(x), FrameOk(y), Declares(x, v, y)
      PROVE  /\ v \in DOMAIN x.names => Last(x.names[v]).nest < x.depth
             /\ v \in DOMAIN y.names /\ Last(y.names[v]).nest = y.depth
  <2>1. PICK b : b = Slot(x.depth, TRUE, FALSE)
    OBVIOUS
  <2>2. Stacks(x.names, SlotSet) /\ b \in SlotSet /\ b.nest = x.depth
    <3>1. Slot(x.depth, TRUE, FALSE).nest = x.depth
      BY DEF Slot
    <3> QED BY <1>5, <2>1, <3>1, FrameStacks, OwnSlot
  <2>3. Opens(x, v, b, y)
    BY <1>5, <2>1, DeclaresOpens
  <2>4. PICK n : Grown(x.names, y.names, v, b, n)
    BY <2>2, <2>3, OpenedGrows DEF Opens
  <2>5. v \in DOMAIN y.names /\ Len(y.names[v]) = n + 1 /\ y.names[v][n + 1] = b
    BY <2>4 DEF Grown
  <2>6. Last(y.names[v]) = b
    BY <2>5 DEF Last
  <2> QED BY <1>5, <2>2, <2>3, <2>5, <2>6 DEF Declares, Opens
<1>6. ASSUME Declares(fr, v, to) PROVE ~IsAllocatedLocal(m, p, v) /\ Visible(to, v)
  <2>1. v \in DOMAIN fr.names => Last(fr.names[v]).nest < fr.depth
    BY <1>1, <1>5, <1>6
  <2>2. v \in DOMAIN to.names
    BY <1>1, <1>5, <1>6
  <2>3. fr.depth \in Nat
    BY <1>1, FrameStacks
  <2> QED BY <1>4, <2>1, <2>2, <2>3 DEF Visible
<1>7. ASSUME Declares(to, v, fr) PROVE IsAllocatedLocal(m, p, v) /\ Visible(fr, v)
  <2>1. v \in DOMAIN fr.names /\ Last(fr.names[v]).nest = fr.depth
    BY <1>1, <1>5, <1>7
  <2> QED BY <1>4, <2>1 DEF Visible
<1> QED BY <1>6, <1>7

\* What the frame of a process admits, it knows, and what it can store to is in use.
LEMMA OperandHere ==
  ASSUME NEW m, NEW L, NEW g, NEW o, NEW p \in Proc, NEW fr, fr = g[p], fr.globals = g[Root].globals,
         Fits(m, L, g, o), NEW x, OperandOk(fr, x)
  PROVE  /\ Known(m, p, x)
         /\ TargetOk(fr, x) => AddrOf(m, p, x).glob \/ AddrOf(m, p, x).idx \in DOMAIN m.var
<1>1. SeesAs(m, NamesOf(g), p, fr)
  BY Sees
<1>2. MemFits(m, NamesOf(g), DepthsOf(g), o)
  BY DEF Fits
<1>3. /\ Known(m, p, x)
      /\ x.k # "num" => AddrOf(m, p, x).glob \/ AddrOf(m, p, x).idx \in DOMAIN m.var
  BY <1>1, <1>2, OperandReaches
<1> QED BY <1>3 DEF TargetOk

\* A store to a name that the frame of a process has.
LEMMA StoreHere ==
  ASSUME NEW m, NEW L, NEW g, NEW o, NEW p \in Proc, NEW fr, fr = g[p], fr.globals = g[Root].globals,
         Fits(m, L, g, o), NEW a, NEW x,
         \/ \E d : TargetOk(fr, d) /\ a = AddrOf(m, p, d)
         \/ \E v : Visible(fr, v) /\ a = AddrOfName(m, p, v)
  PROVE  Fits(Store(m, a, x), L, g, o) /\ Alike(m, Store(m, a, x))
<1>1. a.glob \/ a.idx \in DOMAIN m.var
  <2>1. CASE \E d : TargetOk(fr, d) /\ a = AddrOf(m, p, d)
    BY <2>1, OperandHere DEF TargetOk
  <2>2. CASE \E v : Visible(fr, v) /\ a = AddrOfName(m, p, v)
    <3>1. PICK v : Visible(fr, v) /\ a = AddrOfName(m, p, v)
      BY <2>2
    <3>2. SeesAs(m, NamesOf(g), p, fr) /\ MemFits(m, NamesOf(g), DepthsOf(g), o)
      BY Sees DEF Fits
    <3>3. Reaches(m, o, p, a)
      BY <3>1, <3>2, NameReaches
    <3> QED BY <3>3 DEF Reaches
  <2> QED BY <2>1, <2>2
<1>2. MemIs(m)
  BY DEF Fits, MemFits, NamesFit
<1>3. Alike(m, Store(m, a, x))
  BY <1>1, <1>2, StoreAlike
<1> QED BY <1>3, AlikeFrames

\* Who executes has the globals of the root.
LEMMA ExecutingIs ==
  ASSUME NEW g, NEW p, NEW fr, Executing(g, p, fr)
  PROVE  p \in Proc /\ fr = g[p] /\ fr.globals = g[Root].globals
BY DEF Executing

\* What an update prepares: the memory when x has been allocated.
LEMMA PreparedIs ==
  ASSUME NEW p, Instr(p).op = "upd"
  PROVE  Prepared(p) = IF Grows(p, Instr(p).dst) THEN Allocate(mem, p, Instr(p).dst.v) ELSE mem
BY DEF Prepared

\* What an update does, m being the memory when x has been allocated, a the address of x,
\* and done the memory when the value has been stored.
LEMMA AssignIs ==
  ASSUME NEW p, Assign(p), NEW i, i = Instr(p),
         NEW m, m = IF Grows(p, i.dst) THEN Allocate(mem, p, i.dst.v) ELSE mem,
         NEW a, a = AddrOf(m, p, i.dst),
         NEW done, done = Store(m, a, Result(m, p, i, a)),
         Known(mem, p, i.e.l), Known(mem, p, i.e.r), Known(m, p, i.dst)
  PROVE  /\ Finish(p, IF Shrinks(p, i.dst) THEN Deallocate(done, p, i.dst.v) ELSE done, TRUE)
         /\ lock' = lock /\ waiting' = waiting /\ i.op = "upd"
<1>1. PICK legal : legal = (Known(mem, p, i.e.l) /\ Known(mem, p, i.e.r) /\ Known(m, p, i.dst))
  OBVIOUS
<1>2. legal = TRUE
  BY <1>1
<1>4. m = Prepared(p)
  BY PreparedIs DEF Assign, At
<1>3. Finish(p, IF Shrinks(p, i.dst) THEN Deallocate(done, p, i.dst.v) ELSE done, legal)
  BY <1>1, <1>4 DEF Assign
<1> QED BY <1>2, <1>3 DEF Assign, At

\* x f= e, and what $x is declared or given up by.
LEMMA AssignDone ==
  ASSUME NEW g, NEW o, NEW p, NEW fr, NEW to,
         Executing(g, p, fr), Fits(mem, lock, g, o), FrameOk(to), Moves(fr, Instr(p), to),
         \A q \in running : ~Under(p, q), Assign(p)
  PROVE  Done(g, p, to)
<1>1. PICK i, v : i = Instr(p) /\ v = i.dst.v
  OBVIOUS
<1>2. i.op = "upd"
  BY <1>1 DEF Assign, At
<1>3. Updates(fr, i, to)
  BY <1>1, <1>2 DEF Moves
<1>4. p \in Proc /\ fr = g[p] /\ fr.globals = g[Root].globals
  BY ExecutingIs
<1>5. Known(mem, p, i.e.l) /\ Known(mem, p, i.e.r)
  <2>1. OperandOk(fr, i.e.l) /\ OperandOk(fr, i.e.r)
    BY <1>3 DEF Updates
  <2> QED BY <1>4, <2>1, OperandHere
<1>6. CASE TargetOk(fr, i.dst) /\ to = fr
  <2>1. ~Grows(p, i.dst) /\ ~Shrinks(p, i.dst)
    BY <1>6 DEF TargetOk, Grows, Shrinks
  <2>2. PICK a, done : a = AddrOf(mem, p, i.dst) /\ done = Store(mem, a, Result(mem, p, i, a))
    OBVIOUS
  <2>3. OperandOk(fr, i.dst)
    BY <1>6 DEF TargetOk
  <2>4. Known(mem, p, i.dst)
    BY <1>4, <2>3, OperandHere
  <2>5. Alike(mem, done)
    BY <1>4, <1>6, <2>2, StoreHere
  <2>6. Fits(done, lock, Moved(g, p, to), o)
    BY <1>6, <2>5, ValuesFit
  <2>7. PICK m : m = IF Grows(p, i.dst) THEN Allocate(mem, p, i.dst.v) ELSE mem
    OBVIOUS
  <2>8. m = mem
    BY <2>1, <2>7
  <2>9. Finish(p, IF Shrinks(p, i.dst) THEN Deallocate(done, p, i.dst.v) ELSE done, TRUE) /\ lock' = lock
    BY <1>1, <1>5, <2>2, <2>4, <2>7, <2>8, AssignIs
  <2>10. Finish(p, done, TRUE)
    BY <2>1, <2>9
  <2> QED BY <2>6, <2>9, <2>10 DEF Done
<1>7. CASE i.dst.k = "new" /\ v \notin fr.locks /\ fr.given = << >> /\ Declares(fr, v, to)
  <2>1. ~IsAllocatedLocal(mem, p, v) /\ Visible(to, v)
    BY <1>7, DeclaredHere
  <2>2. Grows(p, i.dst) /\ ~Shrinks(p, i.dst)
    BY <1>1, <1>7, <2>1 DEF Grows, Shrinks
  <2>3. PICK m : m = IF Grows(p, i.dst) THEN Allocate(mem, p, i.dst.v) ELSE mem
    OBVIOUS
  <2>4. m = Allocate(mem, p, v)
    BY <1>1, <2>2, <2>3
  <2>5. PICK o2 : Fits(m, lock, Moved(g, p, to), o2)
    BY <1>7, <2>4, DeclareMoves
  <2>6. PICK a, done : a = AddrOf(m, p, i.dst) /\ done = Store(m, a, Result(m, p, i, a))
    OBVIOUS
  <2>7. a = AddrOfName(m, p, v) /\ Known(m, p, i.dst)
    BY <1>1, <1>7, <2>6 DEF AddrOf, Known
  <2>8. PICK h : h = Moved(g, p, to)
    OBVIOUS
  <2>9. to = h[p] /\ to.globals = h[Root].globals
    <3>1. \A q \in Proc : FrameOk(g[q])
      BY DEF Fits
    <3>2. to.globals = fr.globals
      <4>1. FrameOk(fr)
        BY <1>4, <3>1
      <4>2. Opens(fr, v, Slot(fr.depth, TRUE, FALSE), to)
        BY <1>7, <4>1, DeclaresOpens
      <4> QED BY <4>2 DEF Opens
    <3> QED BY <1>4, <2>8, <3>1, <3>2, MovedIs, MovedGlobals
  <2>10. Fits(done, lock, h, o2)
    BY <1>4, <2>1, <2>5, <2>6, <2>7, <2>8, <2>9, StoreHere
  <2>11. Finish(p, IF Shrinks(p, i.dst) THEN Deallocate(done, p, i.dst.v) ELSE done, TRUE) /\ lock' = lock
    BY <1>1, <1>5, <2>3, <2>6, <2>7, AssignIs
  <2>12. Finish(p, done, TRUE)
    BY <2>2, <2>11
  <2> QED BY <2>8, <2>10, <2>11, <2>12 DEF Done
<1>8. CASE i.dst.k = "new" /\ v \notin fr.locks /\ fr.given = << >> /\ Declares(to, v, fr)
  <2>1. IsAllocatedLocal(mem, p, v) /\ Visible(fr, v)
    BY <1>8, DeclaredHere
  <2>2. ~Grows(p, i.dst) /\ Shrinks(p, i.dst)
    BY <1>1, <1>8, <2>1 DEF Grows, Shrinks
  <2>3. PICK m : m = IF Grows(p, i.dst) THEN Allocate(mem, p, i.dst.v) ELSE mem
    OBVIOUS
  <2>4. m = mem
    BY <2>2, <2>3
  <2>5. PICK a, done : a = AddrOf(m, p, i.dst) /\ done = Store(m, a, Result(m, p, i, a))
    OBVIOUS
  <2>6. a = AddrOfName(m, p, v) /\ Known(m, p, i.dst)
    BY <1>1, <1>8, <2>5 DEF AddrOf, Known
  <2>7. Fits(done, lock, g, o)
    BY <1>4, <2>1, <2>4, <2>5, <2>6, StoreHere
  <2>8. Fits(Deallocate(done, p, v), lock, Moved(g, p, to), o)
    BY <1>8, <2>7, GiveUpMoves
  <2>9. Finish(p, IF Shrinks(p, i.dst) THEN Deallocate(done, p, i.dst.v) ELSE done, TRUE) /\ lock' = lock
    BY <1>1, <1>5, <2>3, <2>5, <2>6, AssignIs
  <2>10. Finish(p, Deallocate(done, p, v), TRUE)
    BY <1>1, <2>2, <2>9
  <2> QED BY <2>8, <2>9, <2>10 DEF Done
<1> QED BY <1>1, <1>3, <1>6, <1>7, <1>8 DEF Updates

\* The memory when x <=> y has written x.
LEMMA HalfFits ==
  ASSUME NEW g, NEW o, NEW p \in Proc, NEW fr, fr = g[p], fr.globals = g[Root].globals,
         Fits(mem, lock, g, o), TargetOk(fr, Instr(p).left)
  PROVE  Fits(HalfExchanged(p), lock, g, o)
<1>1. PICK i, a, x, m : /\ i = Instr(p) /\ a = AddrOf(mem, p, i.left) /\ x = Value(mem, p, i.right)
                        /\ m = Store(mem, a, x)
  OBVIOUS
<1>2. Fits(m, lock, g, o)
  BY <1>1, StoreHere
<1> QED BY <1>1, <1>2 DEF HalfExchanged

\* x <=> y.
LEMMA ExchangeDone ==
  ASSUME NEW g, NEW o, NEW p, NEW fr, NEW to,
         Executing(g, p, fr), Fits(mem, lock, g, o), FrameOk(to), Moves(fr, Instr(p), to), Exchange(p)
  PROVE  Done(g, p, to)
<1>1. PICK i : i = Instr(p)
  OBVIOUS
<1>2. i.op = "swap"
  BY <1>1 DEF Exchange, At
<1>3. TargetOk(fr, i.left) /\ TargetOk(fr, i.right) /\ to = fr
  BY <1>1, <1>2 DEF Moves
<1>4. p \in Proc /\ fr = g[p] /\ fr.globals = g[Root].globals
  BY ExecutingIs
<1>5. Known(mem, p, i.left) /\ Known(mem, p, i.right)
  BY <1>3, <1>4, OperandHere DEF TargetOk
<1>6. PICK b, m, m2 :
        m = HalfExchanged(p) /\ b = AddrOf(m, p, i.right) /\ m2 = Store(m, b, Value(mem, p, i.left))
  OBVIOUS
<1>7. Fits(m, lock, g, o)
  BY <1>1, <1>3, <1>4, <1>6, HalfFits
<1>9. Alike(m, m2)
  BY <1>3, <1>4, <1>6, <1>7, StoreHere
<1>10. Fits(m2, lock, Moved(g, p, to), o)
  BY <1>3, <1>7, <1>9, ValuesFit
<1>11. Finish(p, m2, TRUE)
  <2>1. PICK legal : legal = (Known(mem, p, i.left) /\ Known(mem, p, i.right))
    OBVIOUS
  <2>2. Finish(p, m2, legal)
    BY <1>1, <1>6, <2>1 DEF Exchange
  <2>3. legal = TRUE
    BY <1>5, <2>1
  <2> QED BY <2>2, <2>3
<1>12. lock' = lock
  BY DEF Exchange
<1> QED BY <1>10, <1>11, <1>12 DEF Done

\* skip.
LEMMA NopDone ==
  ASSUME NEW g, NEW o, NEW p, NEW fr, NEW to,
         Executing(g, p, fr), Fits(mem, lock, g, o), Moves(fr, Instr(p), to), Nop(p)
  PROVE  Done(g, p, to)
<1>1. to = fr
  BY DEF Moves, Nop, At
<1>2. Alike(mem, mem)
  BY DEF Alike, Fits, MemFits, NamesFit
<1>3. Fits(mem, lock, Moved(g, p, to), o)
  BY <1>1, <1>2, ValuesFit
<1> QED BY <1>3 DEF Done, Nop

\* push and pop.
LEMMA NestDone ==
  ASSUME NEW g, NEW o, NEW p, NEW fr, NEW to,
         Executing(g, p, fr), Fits(mem, lock, g, o), FrameOk(to), Moves(fr, Instr(p), to), Nest(p)
  PROVE  Done(g, p, to)
<1>1. PICK i : i = Instr(p)
  OBVIOUS
<1>2. i.op \in {"push", "pop"}
  BY <1>1 DEF Nest, At
<1>3. p \in Proc /\ fr = g[p] /\ FrameOk(fr)
  BY ExecutingIs DEF Fits
<1>4. mem.nest[p] = fr.depth
  BY <1>3 DEF Fits, MemFits, NamesFit, DepthsOf
<1>5. fr.depth \in Nat /\ to.depth \in Nat
  BY <1>3, FrameStacks
<1>6. /\ to.names = fr.names /\ to.given = fr.given /\ to.globals = fr.globals /\ to.locks = fr.locks
      /\ to.depth = IF i.op = "push" THEN mem.nest[p] + 1 ELSE mem.nest[p] - 1
  <2>1. CASE i.op = "push"
    <3>1. PICK x : x = fr.depth + 1 /\ to = [fr EXCEPT !.depth = x]
      BY <1>1, <2>1 DEF Moves, Pushes
    <3>2. /\ to.names = fr.names /\ to.given = fr.given /\ to.globals = fr.globals /\ to.locks = fr.locks
          /\ to.depth = x
      BY <1>3, <3>1, FrameFields
    <3> QED BY <1>4, <2>1, <3>1, <3>2
  <2>2. CASE i.op = "pop"
    <3>1. PICK x : x = to.depth + 1 /\ fr = [to EXCEPT !.depth = x]
      BY <1>1, <2>2 DEF Moves, Pushes
    <3>2. /\ to.names = fr.names /\ to.given = fr.given /\ to.globals = fr.globals /\ to.locks = fr.locks
          /\ fr.depth = x
      BY <3>1, FrameFields
    <3> QED BY <1>4, <1>5, <2>2, <3>1, <3>2
  <2> QED BY <1>2, <2>1, <2>2
<1>7. PICK d : d = IF i.op = "push" THEN mem.nest[p] + 1 ELSE mem.nest[p] - 1
  OBVIOUS
<1>8. PICK m : m = [mem EXCEPT !.nest[p] = d]
  OBVIOUS
<1>9. Fits(m, lock, Moved(g, p, to), o)
  BY <1>6, <1>7, <1>8, NestMoves
<1>10. Finish(p, m, TRUE) /\ lock' = lock
  <2>1. m = [mem EXCEPT !.nest[p] = IF i.op = "push" THEN @ + 1 ELSE @ - 1]
    BY <1>7, <1>8
  <2> QED BY <1>1, <2>1 DEF Nest
<1> QED BY <1>9, <1>10 DEF Done

\* lock.
LEMMA LockDone ==
  ASSUME NEW g, NEW o, NEW p, NEW fr, NEW to,
         Executing(g, p, fr), Fits(mem, lock, g, o), FrameOk(to), Moves(fr, Instr(p), to), LockAddr(p)
  PROVE  Done(g, p, to)
<1>1. PICK S, T : S = Instr(p).vars /\ T = Symbols(mem, p, S)
  OBVIOUS
<1>2. Locks(fr, S, to)
  BY <1>1 DEF Moves, LockAddr, At
<1>3. lock' = Raised(T)
  BY <1>1 DEF LockAddr, Raised
<1>4. PICK L : L = Raised(T)
  OBVIOUS
<1>5. Fits(mem, L, Moved(g, p, to), o) /\ KnownAll(p, S)
  BY <1>1, <1>2, <1>4, LockMoves
<1>6. Finish(p, mem, TRUE)
  <2>1. PICK legal : legal = KnownAll(p, S)
    OBVIOUS
  <2>2. Finish(p, mem, legal)
    BY <1>1, <2>1 DEF LockAddr
  <2>3. legal = TRUE
    BY <1>5, <2>1 DEF KnownAll
  <2> QED BY <2>2, <2>3
<1> QED BY <1>3, <1>4, <1>5, <1>6 DEF Done

\* unlock.
LEMMA UnlockDone ==
  ASSUME NEW g, NEW o, NEW p, NEW fr, NEW to,
         Executing(g, p, fr), Fits(mem, lock, g, o), FrameOk(to), Moves(fr, Instr(p), to), UnlockAddr(p)
  PROVE  Done(g, p, to)
<1>1. PICK S, T : S = Instr(p).vars /\ T = Symbols(mem, p, S)
  OBVIOUS
<1>2. Locks(to, S, fr)
  BY <1>1 DEF Moves, UnlockAddr, At
<1>3. lock' = Lowered(T)
  BY <1>1 DEF UnlockAddr, Lowered, Less
<1>4. PICK L : L = Lowered(T)
  OBVIOUS
<1>5. Fits(mem, L, Moved(g, p, to), o) /\ KnownAll(p, S) /\ \A s \in T : Word(s) > 0
  BY <1>1, <1>2, <1>4, UnlockMoves
<1>6. Finish(p, mem, TRUE)
  <2>1. PICK legal : legal = (KnownAll(p, S) /\ \A s \in T : Word(s) > 0)
    OBVIOUS
  <2>2. Finish(p, mem, legal)
    BY <1>1, <2>1 DEF UnlockAddr
  <2>3. legal = TRUE
    BY <1>5, <2>1
  <2> QED BY <2>2, <2>3
<1> QED BY <1>3, <1>4, <1>5, <1>6 DEF Done

\* set $x@child y.
LEMMA SetDone ==
  ASSUME NEW g, NEW o, NEW p, NEW fr, NEW to,
         Executing(g, p, fr), Fits(mem, lock, g, o), FrameOk(to), Moves(fr, Instr(p), to), SetSym(p)
  PROVE  Done(g, p, to)
<1>1. PICK i, c : i = Instr(p) /\ c = ChildPC(p, i.child)
  OBVIOUS
<1>2. Sets(fr, i, to) /\ c \in Proc
  BY <1>1 DEF Moves, SetSym, At
<1>3. PICK m : m = Bind(mem, c, i.v, AddrOf(mem, p, i.src))
  OBVIOUS
<1>4. Fits(m, lock, Moved(g, p, to), o) /\ Known(mem, p, i.src) /\ ~IsAllocatedLocal(mem, c, i.v)
  BY <1>1, <1>2, <1>3, SetMoves
<1>5. Finish(p, m, TRUE) /\ lock' = lock
  <2>1. PICK legal : legal = (Known(mem, p, i.src) /\ ~IsAllocatedLocal(mem, c, i.v))
    OBVIOUS
  <2>2. Finish(p, m, legal) /\ lock' = lock
    BY <1>1, <1>3, <2>1 DEF SetSym
  <2>3. legal = TRUE
    BY <1>4, <2>1
  <2> QED BY <2>2, <2>3
<1> QED BY <1>4, <1>5 DEF Done

\* unset $x@child y.
LEMMA UnsetDone ==
  ASSUME NEW g, NEW o, NEW p, NEW fr, NEW to,
         Executing(g, p, fr), Fits(mem, lock, g, o), FrameOk(to), Moves(fr, Instr(p), to), UnsetSym(p)
  PROVE  Done(g, p, to)
<1>1. PICK i, c : i = Instr(p) /\ c = ChildPC(p, i.child)
  OBVIOUS
<1>2. Sets(to, i, fr) /\ c \in Proc
  BY <1>1 DEF Moves, UnsetSym, At
<1>3. PICK m : m = Unbind(mem, c, i.v)
  OBVIOUS
<1>4. Fits(m, lock, Moved(g, p, to), o) /\ Known(mem, p, i.src) /\ IsAllocatedLocal(mem, c, i.v)
  BY <1>1, <1>2, <1>3, UnsetMoves
<1>5. Finish(p, m, TRUE) /\ lock' = lock
  <2>1. PICK legal : legal = (Known(mem, p, i.src) /\ IsAllocatedLocal(mem, c, i.v))
    OBVIOUS
  <2>2. PICK m2 : m2 = IF IsAllocatedLocal(mem, c, i.v) THEN Unbind(mem, c, i.v) ELSE mem
    OBVIOUS
  <2>3. Finish(p, m2, legal) /\ lock' = lock
    BY <1>1, <2>1, <2>2 DEF UnsetSym
  <2>4. legal = TRUE /\ m2 = m
    BY <1>3, <1>4, <2>1, <2>2
  <2> QED BY <2>3, <2>4
<1> QED BY <1>4, <1>5 DEF Done

\* set #x M[c], by the root alone.
LEMMA SetNameDone ==
  ASSUME NEW g, NEW o, NEW p, NEW fr, NEW to, p = Root, running \subseteq {Root},
         Executing(g, p, fr), Fits(mem, lock, g, o), FrameOk(to), Moves(fr, Instr(p), to), SetName(p)
  PROVE  Done(g, p, to)
<1>1. PICK i : i = Instr(p)
  OBVIOUS
<1>2. SetsGlobal(fr, i, to)
  BY <1>1 DEF Moves, SetName, At
<1>3. PICK m : m = [mem EXCEPT !.alloc = Entered(@, {i.v}, Global(i.cell))]
  OBVIOUS
<1>4. Fits(m, lock, Moved(g, p, to), o) /\ i.v \notin DOMAIN mem.alloc
  BY <1>2, <1>3, SetNameMoves
<1>5. Finish(p, m, TRUE) /\ lock' = lock
  <2>1. PICK legal : legal = (i.v \notin DOMAIN mem.alloc)
    OBVIOUS
  <2>2. Finish(p, m, legal) /\ lock' = lock
    BY <1>1, <1>3, <2>1 DEF SetName
  <2>3. legal = TRUE
    BY <1>4, <2>1
  <2> QED BY <2>2, <2>3
<1> QED BY <1>4, <1>5 DEF Done

\* unset #x M[c].
LEMMA UnsetNameDone ==
  ASSUME NEW g, NEW o, NEW p, NEW fr, NEW to, p = Root, running \subseteq {Root},
         Executing(g, p, fr), Fits(mem, lock, g, o), FrameOk(to), Moves(fr, Instr(p), to), UnsetName(p)
  PROVE  Done(g, p, to)
<1>1. PICK i, v : i = Instr(p) /\ v = i.v
  OBVIOUS
<1>2. SetsGlobal(to, i, fr)
  BY <1>1 DEF Moves, UnsetName, At
<1>3. PICK m : m = [mem EXCEPT !.alloc = [w \in DOMAIN @ \ {v} |-> @[w]]]
  OBVIOUS
<1>4. Fits(m, lock, Moved(g, p, to), o) /\ v \in DOMAIN mem.alloc
  BY <1>1, <1>2, <1>3, UnsetNameMoves
<1>5. Finish(p, m, TRUE) /\ lock' = lock
  <2>1. PICK legal : legal = (v \in DOMAIN mem.alloc)
    OBVIOUS
  <2>2. Finish(p, m, legal) /\ lock' = lock
    BY <1>1, <1>3, <2>1 DEF UnsetName
  <2>3. legal = TRUE
    BY <1>4, <2>1
  <2> QED BY <2>2, <2>3
<1> QED BY <1>4, <1>5 DEF Done

\* V and P.
LEMMA SemaphoreDone ==
  ASSUME NEW g, NEW o, NEW p, NEW fr, NEW to,
         Executing(g, p, fr), Fits(mem, lock, g, o), Moves(fr, Instr(p), to), Semaphore(p)
  PROVE  Done(g, p, to)
<1>1. PICK i, r : i = Instr(p) /\ r = Ref(i.v)
  OBVIOUS
<1>2. to = fr /\ Visible(fr, i.v)
  BY <1>1 DEF Moves, Semaphore, At
<1>3. p \in Proc /\ fr = g[p] /\ fr.globals = g[Root].globals
  BY ExecutingIs
<1>4. r.k = "ref" /\ r.v = i.v
  BY <1>1 DEF Ref
<1>5. OperandOk(fr, r) /\ TargetOk(fr, r)
  BY <1>2, <1>4 DEF OperandOk, TargetOk
<1>6. PICK a, x, m : /\ a = AddrOf(mem, p, r) /\ x = (IF i.op = "V" THEN 0 ELSE 1)
                     /\ m = Store(mem, a, 1 - x)
  OBVIOUS
<1>7. Alike(mem, m)
  BY <1>3, <1>5, <1>6, StoreHere
<1>8. Fits(m, lock, Moved(g, p, to), o)
  BY <1>2, <1>7, ValuesFit
<1>9. Finish(p, m, TRUE) /\ lock' = lock
  <2>1. PICK legal : legal = Known(mem, p, r)
    OBVIOUS
  <2>2. Finish(p, m, legal) /\ lock' = lock
    BY <1>1, <1>6, <2>1 DEF Semaphore
  <2>3. legal = TRUE
    <3>1. Known(mem, p, r)
      BY <1>3, <1>5, OperandHere
    <3> QED BY <2>1, <3>1 DEF Known
  <2> QED BY <2>2, <2>3
<1> QED BY <1>8, <1>9 DEF Done

-----------------------------------------------------------------------------
(* The end of a block *)

\* to is a frame of the same procedure and the same globals, if it is not the root's, alone.
Keeps(p, fr, to) ==
  to.proc = fr.proc /\ (to.globals = fr.globals \/ (p = Root /\ running \subseteq {Root}))

\* The globals are the same ones for all who run.
LEMMA GlobalsShared ==
  ASSUME NEW g, NEW p, NEW fr, NEW to, NEW h, h = Moved(g, p, to), Executing(g, p, fr),
         \A q \in Proc : FrameOk(g[q]), Keeps(p, fr, to),
         \A q \in running : g[q].globals = g[Root].globals
  PROVE  \A q \in running : h[q].globals = h[Root].globals
<1>1. p \in Proc /\ fr = g[p] /\ fr.globals = g[Root].globals /\ running \subseteq Proc
  BY ExecutingIs DEF Executing
<1>2. CASE p = Root /\ running \subseteq {Root}
  BY <1>2
<1>3. CASE to.globals = fr.globals
  <2>1. h[Root].globals = g[Root].globals
    BY <1>3, MovedGlobals
  <2>2. ASSUME NEW q \in running PROVE h[q].globals = g[Root].globals
    <3>1. CASE q = p
      BY <1>1, <1>3, <3>1, MovedIs
    <3>2. CASE q # p
      <4>1. ~(q # Root /\ Front(q) = p)
        BY DEF Executing
      <4>2. h[q] = g[q]
        BY <1>1, <3>2, <4>1, MovedIs
      <4> QED BY <4>2
    <3> QED BY <3>1, <3>2
  <2> QED BY <2>1, <2>2
<1> QED BY <1>2, <1>3 DEF Keeps

\* What -e panics on: the block undone is not the one that was done last.
TraceDiffers(p) == rev /\ (exmap[p] = << >> \/ Text(Last(exmap[p])) # Text(Base(p)))

\* A block of plain lines.
PlainBlock(p) ==
  PlainLine(Entry(p)) /\ PlainLine(LineAt(file, Base(p) + 1)) /\ PlainLine(Exit(p))

\* The backward form of a plain line is plain.
LEMMA PlainBack ==
  ASSUME NEW fr, NEW to, NEW i, Moves(fr, i, to), PlainLine(i), NEW j, j = Backward(i)
  PROVE  /\ j.op = "upd" => /\ \A x \in {j.e.l, j.e.r, j.dst} : PlainOperand(x)
                            /\ j.e.fn \in {"/", "%"} => j.e.r.k = "num" /\ j.e.r.n # 0
         /\ j.op = "swap" => PlainOperand(j.left) /\ PlainOperand(j.right)
<1>1. CASE i.op = "upd"
  <2>1. PICK f : f = CASE i.f = "+" -> "-" [] i.f = "-" -> "+" [] i.f = "^" -> "^"
    OBVIOUS
  <2>2. j = [i EXCEPT !.f = f]
    BY <1>1, <2>1 DEF Backward
  <2>3. {"op", "dst", "f", "e"} \subseteq DOMAIN i
    BY <1>1 DEF Moves, Updates
  <2>4. j.op = "upd" /\ j.dst = i.dst /\ j.e = i.e
    BY <1>1, <2>2, <2>3
  <2> QED BY <1>1, <2>4 DEF PlainLine
<1>2. CASE i.op \in {"swap", "skip", "call"}
  <2>1. j = i
    BY <1>2 DEF Backward
  <2> QED BY <1>2, <2>1 DEF PlainLine
<1>3. CASE i.op \in {"push", "pop", "lock", "unlock", "V", "P"}
  <2>1. j.op \notin {"upd", "swap"}
    BY <1>3 DEF Backward, Push, Pop, Lock, Unlock, SemV, SemP
  <2> QED BY <2>1
<1>4. CASE i.op \in {"set", "unset", "setg", "unsetg"}
  <2>1. j.op \notin {"upd", "swap"}
    BY <1>4 DEF Backward, Set, Unset, SetGlobal, UnsetGlobal
  <2> QED BY <2>1
<1> QED BY <1>1, <1>2, <1>3, <1>4 DEF Moves

\* The operands of a plain block are plain, in both directions.
LEMMA PlainHere ==
  ASSUME NEW pre, NEW post, Framed(file, pre, post), NEW p, Base(p) \in DOMAIN pre, PlainBlock(p),
         NEW i, i = Instr(p)
  PROVE  /\ i.op = "upd" => /\ \A x \in {i.e.l, i.e.r, i.dst} : PlainOperand(x)
                            /\ i.e.fn \in {"/", "%"} => i.e.r.k = "num" /\ i.e.r.n # 0
         /\ i.op = "swap" => PlainOperand(i.left) /\ PlainOperand(i.right)
         /\ Jumps(FirstLine(p)) => PlainOperand(FirstLine(p).cond)
         /\ Jumps(FinalLine(p)) => PlainOperand(FinalLine(p).cond)
<1>1. PICK b, t : b = Base(p) /\ t = LineAt(file, b + 1) /\ i = IF rev THEN Backward(t) ELSE t
  BY DEF Instr
<1>2. Moves(pre[b], t, post[b])
  BY <1>1 DEF Framed
<1>3. PlainLine(t)
  BY <1>1 DEF PlainBlock
<1>4. PlainLine(FirstLine(p)) /\ PlainLine(FinalLine(p))
  BY DEF PlainBlock, FirstLine, FinalLine
<1>5. CASE rev
  BY <1>1, <1>2, <1>3, <1>4, <1>5, PlainBack DEF PlainLine
<1>6. CASE ~rev
  BY <1>1, <1>3, <1>4, <1>6 DEF PlainLine
<1> QED BY <1>5, <1>6

\* fr2 is the frame of p among g2 once its block has been parsed.
ParsedTo(p, fr, fr2, g2, o2) ==
  /\ Fits(Prepared(p), lock, g2, o2) /\ fr2 = g2[p] /\ fr2.globals = g2[Root].globals
  /\ \A v : Visible(fr, v) => Visible(fr2, v)
  /\ Instr(p).op = "upd" /\ Instr(p).dst.k = "new" => Visible(fr2, Instr(p).dst.v)

\* There is such a frame: fr, or the next one, if the block declares a variable.
LEMMA Parsed ==
  ASSUME NEW g, NEW o, NEW p, NEW fr, NEW to,
         Executing(g, p, fr), Fits(mem, lock, g, o), FrameOk(to), Moves(fr, Instr(p), to)
  PROVE  \E fr2, g2, o2 : ParsedTo(p, fr, fr2, g2, o2)
<1>1. PICK i, v : i = Instr(p) /\ v = i.dst.v
  OBVIOUS
<1>2. p \in Proc /\ fr = g[p] /\ fr.globals = g[Root].globals
  BY ExecutingIs
<1>3. ASSUME i.op = "upd" /\ i.dst.k = "new" => Visible(fr, v), Prepared(p) = mem
      PROVE  ParsedTo(p, fr, fr, g, o)
  BY <1>1, <1>2, <1>3 DEF ParsedTo
<1>4. CASE i.op # "upd"
  <2>1. Prepared(p) = mem
    BY <1>1, <1>4 DEF Prepared
  <2> QED BY <1>3, <1>4, <2>1
<1>5. CASE i.op = "upd"
  <2>1. Updates(fr, i, to)
    BY <1>1, <1>5 DEF Moves
  <2>2. Prepared(p) = IF Grows(p, i.dst) THEN Allocate(mem, p, v) ELSE mem
    BY <1>1, <1>5, PreparedIs
  <2>3. CASE TargetOk(fr, i.dst)
    <3>1. i.dst.k # "new"
      BY <2>3 DEF TargetOk
    <3>2. Prepared(p) = mem
      BY <2>2, <3>1 DEF Grows
    <3> QED BY <1>3, <3>1, <3>2
  <2>4. CASE i.dst.k = "new" /\ v \notin fr.locks /\ Declares(to, v, fr)
    <3>1. IsAllocatedLocal(mem, p, v) /\ Visible(fr, v)
      BY <2>4, DeclaredHere
    <3>2. Prepared(p) = mem
      BY <1>1, <2>2, <3>1 DEF Grows
    <3> QED BY <1>3, <3>1, <3>2
  <2>5. CASE i.dst.k = "new" /\ v \notin fr.locks /\ Declares(fr, v, to)
    <3>1. ~IsAllocatedLocal(mem, p, v) /\ Visible(to, v)
      BY <2>5, DeclaredHere
    <3>2. Prepared(p) = Allocate(mem, p, v)
      BY <1>1, <2>2, <2>5, <3>1 DEF Grows
    <3>3. PICK h, o2 : h = Moved(g, p, to) /\ Fits(Prepared(p), lock, h, o2)
      BY <2>5, <3>2, DeclareMoves
    <3>4. FrameOk(fr) /\ \A q \in Proc : FrameOk(g[q])
      BY <1>2 DEF Fits
    <3>5. PICK b : Opens(fr, v, b, to)
      BY <2>5, <3>4, DeclaresOpens
    <3>6. to.globals = fr.globals /\ DOMAIN fr.names \subseteq DOMAIN to.names
      BY <3>5 DEF Opens, Opened, Entered
    <3>7. to = h[p] /\ to.globals = h[Root].globals
      BY <1>2, <3>3, <3>4, <3>6, MovedIs, MovedGlobals
    <3>8. \A w : Visible(fr, w) => Visible(to, w)
      BY <3>6 DEF Visible
    <3>9. ParsedTo(p, fr, to, h, o2)
      BY <1>1, <3>1, <3>3, <3>7, <3>8 DEF ParsedTo
    <3> QED BY <3>9
  <2> QED BY <1>1, <2>1, <2>3, <2>4, <2>5 DEF Updates
<1> QED BY <1>4, <1>5

\* What a frame that fits sees.
LEMMA SeenHere ==
  ASSUME NEW m, NEW L, NEW g, NEW o, NEW p \in Proc, NEW fr, fr = g[p], fr.globals = g[Root].globals,
         Fits(m, L, g, o), NEW x, Seen(fr, x), x.k \in {"num", "ref", "elem", "new"}
  PROVE  Known(m, p, x) /\ (PlainOperand(x) => ~BelowZero(m, p, x))
<1>1. SeesAs(m, NamesOf(g), p, fr) /\ MemFits(m, NamesOf(g), DepthsOf(g), o)
  BY Sees DEF Fits
<1> QED BY <1>1, SeenLies

\* An instruction of a plain block panics on no value.
LEMMA NoInstrFaults ==
  ASSUME NEW pre, NEW post, Framed(file, pre, post), NEW p, Base(p) \in DOMAIN pre, PlainBlock(p),
         NEW g, NEW o, NEW fr, NEW to, Executing(g, p, fr), Fits(mem, lock, g, o),
         FrameOk(to), Moves(fr, Instr(p), to),
         NEW fr2, NEW g2, NEW o2, ParsedTo(p, fr, fr2, g2, o2)
  PROVE  ~InstrFaults(p)
<1>1. PICK i : i = Instr(p)
  OBVIOUS
<1>2. p \in Proc /\ fr = g[p] /\ fr.globals = g[Root].globals
  BY ExecutingIs
<1>3. /\ i.op = "upd" => /\ PlainOperand(i.e.l) /\ PlainOperand(i.e.r) /\ PlainOperand(i.dst)
                         /\ i.e.fn \in {"/", "%"} => i.e.r.k = "num" /\ i.e.r.n # 0
      /\ i.op = "swap" => PlainOperand(i.left) /\ PlainOperand(i.right)
  BY <1>1, PlainHere
<1>4. ASSUME NEW x, OperandOk(fr, x), PlainOperand(x)
      PROVE  /\ ~BelowZero(mem, p, x)
             /\ \A m : Fits(m, lock, g, o) => ~BelowZero(m, p, x)
  <2>1. Seen(fr, x) /\ x.k \in {"num", "ref", "elem", "new"}
    BY <1>4, AdmittedSeen
  <2> QED BY <1>2, <1>4, <2>1, SeenHere
<1>5. CASE i.op = "upd"
  <2>1. Updates(fr, i, to)
    BY <1>1, <1>5 DEF Moves
  <2>2. ~BelowZero(mem, p, i.e.l) /\ ~BelowZero(mem, p, i.e.r)
    BY <1>3, <1>4, <1>5, <2>1 DEF Updates
  <2>3. Seen(fr2, i.dst) /\ i.dst.k \in {"num", "ref", "elem", "new"}
    <3>1. CASE TargetOk(fr, i.dst)
      BY <3>1, AdmittedSeen DEF TargetOk, ParsedTo
    <3>2. CASE i.dst.k = "new"
      BY <1>1, <1>5, <3>2 DEF Seen, ParsedTo
    <3> QED BY <2>1, <3>1, <3>2 DEF Updates
  <2>4. ~BelowZero(Prepared(p), p, i.dst)
    BY <1>2, <1>3, <1>5, <2>3, SeenHere DEF ParsedTo
  <2>5. ~DividesByZero(i.e.fn, Value(mem, p, i.e.r))
    BY <1>3, <1>5 DEF DividesByZero, Value
  <2> QED BY <1>1, <1>5, <2>2, <2>4, <2>5 DEF InstrFaults
<1>6. CASE i.op = "swap"
  <2>1. TargetOk(fr, i.left) /\ TargetOk(fr, i.right)
    BY <1>1, <1>6 DEF Moves
  <2>2. Fits(HalfExchanged(p), lock, g, o)
    BY <1>1, <1>2, <2>1, HalfFits
  <2>3. /\ ~BelowZero(mem, p, i.left) /\ ~BelowZero(mem, p, i.right)
        /\ ~BelowZero(HalfExchanged(p), p, i.right)
    BY <1>3, <1>4, <1>6, <2>1, <2>2 DEF TargetOk
  <2> QED BY <1>1, <1>6, <2>3 DEF InstrFaults
<1>7. CASE i.op \in {"V", "P"}
  <2>1. PICK r : r = Ref(i.v)
    OBVIOUS
  <2>2. r.k = "ref" /\ r.v = i.v
    BY <2>1 DEF Ref
  <2>3. OperandOk(fr, r) /\ PlainOperand(r)
    BY <1>1, <1>7, <2>2 DEF Moves, OperandOk, PlainOperand
  <2> QED BY <1>1, <1>4, <1>7, <2>1, <2>3 DEF InstrFaults
<1>8. CASE i.op \in {"set", "unset"}
  <2>1. i.src.k = "ref"
    BY <1>1, <1>8 DEF Moves, Sets
  <2> QED BY <1>1, <1>8, <2>1 DEF InstrFaults, IndexBelowZero
<1>9. CASE i.op \notin {"upd", "swap", "V", "P", "set", "unset"}
  BY <1>1, <1>9 DEF InstrFaults
<1> QED BY <1>5, <1>6, <1>7, <1>8, <1>9

\* A block of a framed text does not panic on anything else than that, and on a value only
\* if a value is an index or a divisor in it.
LEMMA PanicsLeft ==
  ASSUME NEW pre, NEW post, NEW g, NEW o, NEW p, NEW fr, NEW to, NEW h, NEW m, NEW L2, NEW o2,
         MachInv, Framed(file, pre, post), Base(p) \in DOMAIN pre,
         p \in running, Executing(g, p, fr), Fits(mem, lock, g, o), Fits(m, L2, h, o2),
         FrameOk(to), Moves(fr, Instr(p), to), h[p] = to, to.globals = h[Root].globals,
         FirstOk(p, fr), FinalOk(pre, post, p, to), BlockPanics(m, p)
  PROVE  TraceDiffers(p) \/ (ValueFaults(m, p) /\ ~PlainBlock(p))
<1>1. p \in Proc /\ fr = g[p] /\ fr.globals = g[Root].globals
  BY ExecutingIs
<1>2. mem.nest[p] = fr.depth /\ m.nest[p] = to.depth
  BY <1>1 DEF Fits, MemFits, NamesFit, DepthsOf
<1>3. PICK fr2, g2, o3 : ParsedTo(p, fr, fr2, g2, o3)
  BY Parsed
<1>4. ASSUME Jumps(FirstLine(p))
      PROVE  LET x == FirstLine(p).cond IN
             Known(Prepared(p), p, x) /\ (PlainOperand(x) => ~BelowZero(Prepared(p), p, x))
  <2>1. PICK x : x = FirstLine(p).cond /\ OperandOk(fr, x)
    BY <1>4 DEF FirstOk
  <2>2. Seen(fr2, x) /\ x.k \in {"num", "ref", "elem", "new"}
    BY <1>3, <2>1, AdmittedSeen DEF ParsedTo
  <2>3. Known(Prepared(p), p, x) /\ (PlainOperand(x) => ~BelowZero(Prepared(p), p, x))
    BY <1>1, <1>3, <2>2, SeenHere DEF ParsedTo
  <2> QED BY <2>1, <2>3
<1>5. ASSUME Jumps(FinalLine(p))
      PROVE  LET x == FinalLine(p).cond IN
             Known(m, p, x) /\ (PlainOperand(x) => ~BelowZero(m, p, x))
  <2>1. PICK x : x = FinalLine(p).cond /\ OperandOk(to, x)
    BY <1>5 DEF FinalOk
  <2>2. Seen(to, x) /\ x.k \in {"num", "ref", "elem", "new"}
    BY <2>1, AdmittedSeen
  <2>3. Known(m, p, x) /\ (PlainOperand(x) => ~BelowZero(m, p, x))
    BY <1>1, <2>2, SeenHere
  <2> QED BY <2>1, <2>3
<1>6. CondKnown(Prepared(p), p, FirstLine(p)) /\ CondKnown(m, p, FinalLine(p))
  BY <1>4, <1>5 DEF CondKnown
<1>7. LabelKnown(FinalLine(p))
  <2>1. CASE Jumps(FinalLine(p))
    <3>1. PICK b : b = IF rev THEN HeadAfter(m, p) - 3 ELSE HeadAfter(m, p)
      OBVIOUS
    <3> QED BY <2>1, <3>1, JumpLands
  <2>2. CASE ~Jumps(FinalLine(p))
    BY <2>2 DEF LabelKnown
  <2> QED BY <2>1, <2>2
<1>8. ~(~Jumps(FirstLine(p)) /\ mem.nest[p] # 0) /\ ~(~Jumps(FinalLine(p)) /\ m.nest[p] # 0)
  BY <1>2 DEF FirstOk, FinalOk
<1>9. ASSUME PlainBlock(p) PROVE ~ValueFaults(m, p)
  <2>1. ~InstrFaults(p)
    BY <1>3, <1>9, NoInstrFaults
  <2>2. /\ Jumps(FirstLine(p)) => PlainOperand(FirstLine(p).cond)
        /\ Jumps(FinalLine(p)) => PlainOperand(FinalLine(p).cond)
    BY <1>9, PlainHere
  <2>3. ~CondFaults(Prepared(p), p, FirstLine(p)) /\ ~CondFaults(m, p, FinalLine(p))
    BY <1>4, <1>5, <2>2 DEF CondFaults
  <2> QED BY <2>1, <2>3 DEF ValueFaults
<1> QED BY <1>6, <1>7, <1>8, <1>9 DEF BlockPanics, TraceDiffers

\* What a process is at depends on its head.
LEMMA SameBlock ==
  ASSUME NEW q, head'[q] = head[q], rev' = rev, file' = file
  PROVE  /\ Base(q)' = Base(q) /\ Instr(q)' = Instr(q)
         /\ \A pre, post : Here(pre, post, q)' = Here(pre, post, q)
<1>1. Base(q)' = Base(q)
  BY DEF Base
<1>2. Instr(q)' = Instr(q)
  BY <1>1 DEF Instr, LineAt
<1> QED BY <1>1, <1>2 DEF Here

\* Who returns is left idle, with what it has been given.
LEMMA ReturnIdle ==
  ASSUME MachInv, NEW pre, NEW post, NEW g, NEW o, Framing(pre, post, g, o),
         NEW p, NEW fr, NEW to, Executing(g, p, fr), Keeps(p, fr, to), AtEndOf(pre, post, to),
         NEW h, h = Moved(g, p, to)
  PROVE  Idle(h, p)
<1>1. p \in Proc /\ fr = g[p] /\ p \in running
  BY ExecutingIs DEF Executing
<1>2. h[p] = to /\ \A q \in Proc : FrameOk(g[q])
  BY <1>1, MovedIs DEF Framing, Fits
<1>3. to.proc = ProcOf(p)
  BY DEF Keeps, Executing
<1>4. ASSUME NEW name, NEW globals, NEW names, to = Bare(name, globals, names)
      PROVE  to.depth = 0 /\ to.given = << >> /\ to.locks = {} /\ to.names = names
  BY <1>4 DEF Bare
<1>5. CASE p = Root
  <2>1. to.proc = "main"
    BY <1>3, <1>5 DEF ProcOf
  <2>2. \E globals, names : to = Bare("main", globals, names)
    <3>1. to = IF rev THEN pre[file.begin["main"]] ELSE post[file.end["main"] - 2]
      BY <2>1 DEF AtEndOf
    <3>2. /\ pre[file.begin["main"]] = Bare("main", << >>, << >>)
          /\ \E x : post[file.end["main"] - 2] = Bare("main", x, << >>)
      BY DEF Framing, Framed
    <3> QED BY <3>1, <3>2
  <2>3. to.depth = 0 /\ to.given = << >> /\ to.locks = {}
    BY <2>2, <1>4
  <2> QED BY <1>2, <1>5, <2>3 DEF Idle
<1>6. CASE p # Root
  <2>1. PICK f, name, bare : /\ f = Front(p) /\ name = ProcOf(p)
                             /\ bare = Bare(name, g[f].globals, Given(g[f], Last(p)))
    OBVIOUS
  <2>2. f \in waiting /\ CalledWith(pre, post, name, bare)
    BY <1>1, <1>6, <2>1, CalledBy
  <2>3. to = bare
    BY <1>3, <2>1, <2>2 DEF AtEndOf, CalledWith
  <2>4. to.depth = 0 /\ to.given = << >> /\ to.locks = {} /\ to.names = Given(g[f], Last(p))
    BY <1>4, <2>1, <2>3
  <2>5. h[f].given = g[f].given
    <3>1. f \in Proc /\ f # p
      <4>1. p \in Seq(Nat) /\ f \in Proc
        BY <1>1, <1>6, <2>1, ProcAssumption
      <4> QED BY <1>6, <2>1, <4>1, ParentShorter
    <3> QED BY <1>1, <1>2, <3>1, MovedIs
  <2>6. h[p].names = Given(h[f], Last(p))
    BY <1>2, <2>4, <2>5 DEF Given
  <2> QED BY <1>2, <2>1, <2>4, <2>6 DEF Idle
<1> QED BY <1>5, <1>6

\* Who has not been running is still idle.
LEMMA OthersIdle ==
  ASSUME NEW g, NEW p, NEW fr, NEW to, Executing(g, p, fr), \A q \in Proc : FrameOk(g[q]),
         NEW h, h = Moved(g, p, to), NEW q \in Proc \ running
  PROVE  Idle(h, q)
<1>1. p \in Proc /\ q # p /\ Idle(g, q)
  BY ExecutingIs DEF Executing
<1>2. h[q].depth = g[q].depth /\ h[q].given = g[q].given /\ h[q].locks = g[q].locks
  BY <1>1, MovedIs
<1>3. ASSUME q # Root PROVE h[q].names = Given(h[Front(q)], Last(q))
  <2>1. PICK f : f = Front(q) /\ f \in Proc
    BY <1>3, ProcAssumption
  <2>2. CASE f = p
    <3>1. h[p] = to
      BY <1>1, MovedIs
    <3>2. q \in Proc /\ q # p /\ q # Root /\ Front(q) = p
      BY <1>1, <1>3, <2>1, <2>2
    <3>3. h[q].names = Given(to, Last(q))
      BY <1>1, <3>2, MovedIs
    <3> QED BY <2>1, <2>2, <3>1, <3>3
  <2>3. CASE f # p
    <3>1. h[q] = g[q]
      BY <1>1, <2>1, <2>3, MovedIs
    <3>2. h[f].given = g[f].given
      BY <1>1, <2>1, <2>3, MovedIs
    <3>3. g[q].names = Given(g[f], Last(q))
      BY <1>1, <1>3, <2>1 DEF Idle
    <3> QED BY <2>1, <3>1, <3>2, <3>3 DEF Given
  <2> QED BY <2>2, <2>3
<1> QED BY <1>1, <1>2, <1>3 DEF Idle

\* p goes on from its border, in the frame fr, to the frame to, and leaves h.
Going(pre, post, g, o, p, fr, to, h) ==
  /\ Framing(pre, post, g, o) /\ Base(p) \in DOMAIN pre
  /\ fr = Here(pre, post, p) /\ to = There(pre, post, p)
  /\ Executing(g, p, fr) /\ Keeps(p, fr, to) /\ h = Moved(g, p, to)

\* What is known of the frames at both ends of a block.
LEMMA GoingIs ==
  ASSUME MachInv, NEW pre, NEW post, NEW g, NEW o, NEW p, NEW fr, NEW to, NEW h,
         Going(pre, post, g, o, p, fr, to, h)
  PROVE  /\ p \in running /\ p \in Proc /\ h[p] = to
         /\ \A q \in Proc : FrameOk(g[q])
         /\ \A q \in running : q # p => h[q] = g[q]
         /\ \A q \in running : h[q].globals = h[Root].globals
         /\ FirstOk(p, fr) /\ FinalOk(pre, post, p, to)
<1>1. Executing(g, p, fr) /\ Keeps(p, fr, to) /\ h = Moved(g, p, to) /\ Framing(pre, post, g, o)
  BY DEF Going
<1>2. p \in running /\ p \in Proc /\ running \subseteq Proc
  BY <1>1, ExecutingIs DEF Executing
<1>3. \A q \in Proc : FrameOk(g[q])
  BY <1>1 DEF Framing, Fits
<1>4. h[p] = to
  BY <1>1, <1>2, <1>3, MovedIs
<1>5. ASSUME NEW q \in running, q # p PROVE h[q] = g[q]
  <2>1. ~(q # Root /\ Front(q) = p)
    BY <1>1, <1>5 DEF Executing
  <2> QED BY <1>1, <1>2, <1>3, <1>5, <2>1, MovedIs
<1>6. \A q \in running : g[q].globals = g[Root].globals
  BY <1>1 DEF Framing, FramesFit
<1>7. \A q \in running : h[q].globals = h[Root].globals
  BY <1>1, <1>3, <1>6, GlobalsShared
<1>8. Framed(file, pre, post)
  BY <1>1 DEF Framing
<1>9. FirstOk(p, fr) /\ FinalOk(pre, post, p, to)
  BY <1>2, <1>8, BordersOk DEF Going
<1> QED BY <1>2, <1>3, <1>4, <1>5, <1>7, <1>9

\* After the block the frames fit, if the process has not panicked.
LEMMA FramesAfter ==
  ASSUME MachInv, NEW pre, NEW post, NEW g, NEW o, NEW p, NEW fr, NEW to, NEW h,
         Going(pre, post, g, o, p, fr, to, h),
         NEW m, Finish(p, m, TRUE), waiting' = waiting \ {p}, ~panicked'
  PROVE  FramesFit(h)'
<1>1. /\ p \in running /\ p \in Proc /\ h[p] = to
      /\ \A q \in Proc : FrameOk(g[q])
      /\ \A q \in running : q # p => h[q] = g[q]
      /\ \A q \in running : h[q].globals = h[Root].globals
      /\ FinalOk(pre, post, p, to)
  BY GoingIs
<1>2. Executing(g, p, fr) /\ Keeps(p, fr, to) /\ h = Moved(g, p, to) /\ Framing(pre, post, g, o)
  BY DEF Going
<1>3. /\ rev' = rev /\ file' = file
      /\ running' = IF Jumps(FinalLine(p)) THEN running ELSE running \ {p}
  BY DEF Finish
<1>4. ASSUME NEW q \in Proc, q # p PROVE Instr(q)' = Instr(q)
  <2>1. head'[q] = head[q]
    BY <1>4 DEF Finish, MachInv
  <2> QED BY <1>3, <2>1, SameBlock
<1>5. ASSUME NEW q \in Proc \ running' PROVE Idle(h, q)
  <2>1. CASE q \notin running
    BY <1>1, <1>2, <2>1, OthersIdle
  <2>2. CASE q \in running
    <3>1. q = p /\ ~Jumps(FinalLine(p))
      BY <1>3, <1>5, <2>2
    <3>2. AtEndOf(pre, post, to)
      BY <1>1, <3>1 DEF FinalOk
    <3> QED BY <1>2, <3>1, <3>2, ReturnIdle
  <2> QED BY <2>1, <2>2
<1>6. ASSUME NEW q \in running' PROVE h[q].globals = h[Root].globals /\ h[q].proc = ProcOf(q)'
  <2>1. q \in running /\ q \in Proc
    BY <1>3, <1>6 DEF MachInv
  <2>2. h[q].proc = ProcOf(q)
    <3>1. CASE q = p
      BY <1>1, <1>2, <3>1 DEF Keeps, Executing
    <3>2. CASE q # p
      <4>1. h[q] = g[q] /\ g[q].proc = ProcOf(q)
        BY <1>1, <1>2, <2>1, <3>2 DEF Framing, FramesFit
      <4> QED BY <4>1
    <3> QED BY <3>1, <3>2
  <2>3. ProcOf(q)' = ProcOf(q)
    <3>1. CASE q = Root
      BY <3>1 DEF ProcOf
    <3>2. CASE q # Root
      <4>1. PICK f : f = Front(q) /\ f # p /\ f \in Proc
        BY <1>2, <2>1, <3>2, ProcAssumption DEF Executing
      <4>2. Instr(f)' = Instr(f)
        BY <1>4, <4>1
      <4> QED BY <4>1, <4>2, <3>2 DEF ProcOf
    <3> QED BY <3>1, <3>2
  <2> QED BY <1>1, <2>1, <2>2, <2>3
<1>7. ASSUME NEW q \in waiting' PROVE Instr(q)'.op = "call"
  <2>1. q \in waiting /\ q # p /\ q \in Proc
    BY <1>7 DEF MachInv
  <2>2. Instr(q).op = "call"
    BY <1>2, <2>1 DEF Framing, FramesFit
  <2> QED BY <1>4, <2>1, <2>2
<1> QED BY <1>5, <1>6, <1>7 DEF FramesFit

\* ... and they are those of the borders where the processes are.
LEMMA LinkedAfter ==
  ASSUME MachInv, NEW pre, NEW post, NEW g, NEW o, NEW p, NEW fr, NEW to, NEW h,
         Going(pre, post, g, o, p, fr, to, h),
         NEW m, Finish(p, m, TRUE), ~panicked'
  PROVE  Linked(pre, post, h)'
<1>1. /\ p \in running /\ p \in Proc /\ h[p] = to
      /\ \A q \in running : q # p => h[q] = g[q]
      /\ FinalOk(pre, post, p, to)
  BY GoingIs
<1>2. Executing(g, p, fr) /\ Keeps(p, fr, to) /\ Linked(pre, post, g)
  BY DEF Going, Framing
<1>3. /\ rev' = rev /\ file' = file /\ head' = [head EXCEPT ![p] = HeadAfter(m, p)]
      /\ running' = IF Jumps(FinalLine(p)) THEN running ELSE running \ {p}
  BY DEF Finish
<1>4. ASSUME NEW q \in running' PROVE Base(q)' \in DOMAIN pre /\ h[q] = Here(pre, post, q)'
  <2>1. q \in running /\ q \in Proc
    BY <1>3, <1>4 DEF MachInv
  <2>2. CASE q # p
    <3>1. head'[q] = head[q]
      BY <1>3, <2>1, <2>2 DEF MachInv
    <3>2. Base(q)' = Base(q) /\ Here(pre, post, q)' = Here(pre, post, q)
      BY <1>3, <3>1, SameBlock
    <3>3. Base(q) \in DOMAIN pre /\ g[q] = Here(pre, post, q) /\ h[q] = g[q]
      BY <1>1, <1>2, <2>1, <2>2 DEF Linked
    <3> QED BY <3>2, <3>3
  <2>3. CASE q = p
    <3>1. PICK b : b = IF rev THEN HeadAfter(m, p) - 3 ELSE HeadAfter(m, p)
      OBVIOUS
    <3>2. Jumps(FinalLine(p))
      BY <1>3, <1>4, <2>3
    <3>3. b \in DOMAIN pre /\ to = IF rev THEN post[b] ELSE pre[b]
      BY <1>1, <3>1, <3>2, JumpLands
    <3>4. head'[p] = HeadAfter(m, p)
      BY <1>1, <1>3 DEF MachInv
    <3>5. Base(p)' = b
      BY <1>3, <3>1, <3>4 DEF Base
    <3>6. Here(pre, post, p)' = IF rev THEN post[b] ELSE pre[b]
      BY <1>3, <3>5 DEF Here
    <3> QED BY <1>1, <2>3, <3>3, <3>5, <3>6
  <2> QED BY <2>2, <2>3
<1>5. ASSUME Root \notin running'
      PROVE  h[Root] = IF rev' THEN pre[file'.begin["main"]] ELSE post[file'.end["main"] - 2]
  <2>1. Root \in running
    BY <1>1, NobodyLeft
  <2>2. p = Root /\ ~Jumps(FinalLine(p))
    BY <1>3, <1>5, <2>1
  <2>3. to.proc = "main"
    BY <1>2, <2>2 DEF Keeps, Executing, ProcOf
  <2>4. AtEndOf(pre, post, to)
    BY <1>1, <2>2 DEF FinalOk
  <2> QED BY <1>1, <1>3, <2>2, <2>3, <2>4 DEF AtEndOf
<1> QED BY <1>4, <1>5 DEF Linked

\* What is left for a block to panic on, m being the memory it leaves: the comparison of -e,
\* and the value of an index or a divisor.
Stumbles(m, p) == TraceDiffers(p) \/ (ValueFaults(m, p) /\ ~PlainBlock(p))

\* A panic is one of those.
LEMMA PanicAfter ==
  ASSUME MachInv, NEW pre, NEW post, NEW g, NEW o, NEW p, NEW fr, NEW to, NEW h,
         Going(pre, post, g, o, p, fr, to, h),
         NEW m, NEW o2, Finish(p, m, TRUE), Fits(m, lock', h, o2)
  PROVE  panicked' \in BOOLEAN /\ (panicked' => p \in running /\ Stumbles(mem', p))
<1>1. /\ p \in running /\ h[p] = to /\ to.globals = h[Root].globals
      /\ FirstOk(p, fr) /\ FinalOk(pre, post, p, to)
  BY GoingIs
<1>2. Executing(g, p, fr) /\ Fits(mem, lock, g, o) /\ Framed(file, pre, post) /\ Base(p) \in DOMAIN pre
  BY DEF Going, Framing
<1>3. panicked' = (~TRUE \/ BlockPanics(m, p)) /\ mem' = m
  BY DEF Finish
<1>4. FrameOk(to) /\ Moves(fr, Instr(p), to)
  BY <1>2, HereToThere DEF Going
<1>5. BlockPanics(m, p) => Stumbles(m, p)
  BY <1>1, <1>2, <1>4, PanicsLeft DEF Stumbles
<1> QED BY <1>1, <1>3, <1>5

-----------------------------------------------------------------------------
(* Steps *)

\* The frames fit, and are those of the borders where the processes are, until one panics.
FramesAt(pre, post, g, o) ==
  /\ Framed(file, pre, post) /\ Fits(mem, lock, g, o)
  /\ ~panicked => FramesFit(g) /\ Linked(pre, post, g)

\* Names, memory and locks are as the text says.
FrameInv ==
  /\ MachInv /\ panicked \in BOOLEAN
  /\ \E pre, post, g, o : FramesAt(pre, post, g, o)

\* A block that is executed legally keeps the invariant.
LEMMA DoneStep ==
  ASSUME MachInv, NEW pre, NEW post, NEW g, NEW o, NEW p, NEW fr, NEW to, NEW h,
         Going(pre, post, g, o, p, fr, to, h), Done(g, p, to), waiting' = waiting \ {p}
  PROVE  FrameInv' /\ (panicked' => p \in running /\ Stumbles(mem', p))
<1>1. PICK m, o2 : Finish(p, m, TRUE) /\ Fits(m, lock', Moved(g, p, to), o2)
  BY DEF Done
<1>2. h = Moved(g, p, to) /\ Executing(g, p, fr) /\ Framed(file, pre, post)
  BY DEF Going, Framing
<1>3. p \in running /\ \A c \in running \ {Root} : Front(c) # p
  BY <1>2 DEF Executing
<1>4. MachInv'
  BY <1>1, <1>3, FinishStep
<1>5. panicked' \in BOOLEAN /\ (panicked' => p \in running /\ Stumbles(mem', p))
  BY <1>1, <1>2, PanicAfter
<1>6. mem' = m /\ file' = file /\ rev' = rev
  BY <1>1 DEF Finish
<1>7. Framed(file', pre, post) /\ Fits(mem', lock', h, o2)
  BY <1>1, <1>2, <1>6
<1>8. ~panicked' => FramesFit(h)' /\ Linked(pre, post, h)'
  BY <1>1, FramesAfter, LinkedAfter
<1>9. FramesAt(pre, post, h, o2)'
  BY <1>7, <1>8 DEF FramesAt
<1> QED BY <1>4, <1>5, <1>9 DEF FrameInv

\* What a process goes on with.
LEMMA GoesOn ==
  ASSUME MachInv, NEW pre, NEW post, NEW g, NEW o, Framing(pre, post, g, o),
         NEW p \in running, \A c \in running \ {Root} : Front(c) # p,
         p \in waiting => Instr(p).op = "call"
  PROVE  \E fr, to, h :
           /\ Going(pre, post, g, o, p, fr, to, h)
           /\ FrameOk(to) /\ Moves(fr, Instr(p), to)
           /\ Instr(p).op \in {"setg", "unsetg"} => p = Root /\ running \subseteq {Root}
<1>1. PICK fr, to, h : fr = Here(pre, post, p) /\ to = There(pre, post, p) /\ h = Moved(g, p, to)
  OBVIOUS
<1>2. Executing(g, p, fr) /\ Base(p) \in DOMAIN pre
  BY <1>1, Ready
<1>3. FrameOk(fr) /\ FrameOk(to) /\ Moves(fr, Instr(p), to)
  BY <1>1, <1>2, HereToThere DEF Framing
<1>4. /\ to.proc = fr.proc
      /\ Instr(p).op \notin {"setg", "unsetg"} => to.globals = fr.globals
      /\ Instr(p).op \in {"setg", "unsetg"} => fr.proc = "main"
  BY <1>3, MovesKeeps
<1>5. ASSUME Instr(p).op \in {"setg", "unsetg"} PROVE p = Root /\ running \subseteq {Root}
  <2>1. p \notin waiting
    BY <1>5
  <2>2. g[p].proc = "main"
    BY <1>2, <1>4, <1>5, ExecutingIs
  <2> QED BY <2>1, <2>2, MainAlone
<1>6. Keeps(p, fr, to)
  BY <1>4, <1>5 DEF Keeps
<1>7. Going(pre, post, g, o, p, fr, to, h)
  BY <1>1, <1>2, <1>6 DEF Going
<1> QED BY <1>3, <1>5, <1>7

\* The steps of a process that execute a block.
Blocks(p) ==
  \/ Assign(p) \/ Exchange(p) \/ Nop(p) \/ Nest(p)
  \/ LockAddr(p) \/ UnlockAddr(p)
  \/ SetSym(p) \/ UnsetSym(p) \/ SetName(p) \/ UnsetName(p)
  \/ Semaphore(p)

\* A block keeps the invariant.
LEMMA BlockStep ==
  ASSUME MachInv, NEW pre, NEW post, NEW g, NEW o, Framing(pre, post, g, o), NEW p, Blocks(p)
  PROVE  FrameInv' /\ (panicked' => p \in running /\ Stumbles(mem', p))
<1>1. p \in running \ waiting /\ waiting' = waiting
  BY DEF Blocks, Assign, Exchange, Nop, Nest, LockAddr, UnlockAddr, SetSym, UnsetSym, SetName,
         UnsetName, Semaphore, At
<1>2. (\A c \in running \ {Root} : Front(c) # p) /\ \A q \in running : ~Under(p, q)
  BY <1>1, NoChildRuns
<1>3. PICK fr, to, h :
        /\ Going(pre, post, g, o, p, fr, to, h)
        /\ FrameOk(to) /\ Moves(fr, Instr(p), to)
        /\ Instr(p).op \in {"setg", "unsetg"} => p = Root /\ running \subseteq {Root}
  BY <1>1, <1>2, GoesOn
<1>4. Executing(g, p, fr) /\ Fits(mem, lock, g, o)
  BY <1>3 DEF Going, Framing
<1>5. Done(g, p, to)
  <2>1. CASE Assign(p)
    BY <1>2, <1>3, <1>4, <2>1, AssignDone
  <2>2. CASE Exchange(p)
    BY <1>3, <1>4, <2>2, ExchangeDone
  <2>3. CASE Nop(p)
    BY <1>3, <1>4, <2>3, NopDone
  <2>4. CASE Nest(p)
    BY <1>3, <1>4, <2>4, NestDone
  <2>5. CASE LockAddr(p)
    BY <1>3, <1>4, <2>5, LockDone
  <2>6. CASE UnlockAddr(p)
    BY <1>3, <1>4, <2>6, UnlockDone
  <2>7. CASE SetSym(p)
    BY <1>3, <1>4, <2>7, SetDone
  <2>8. CASE UnsetSym(p)
    BY <1>3, <1>4, <2>8, UnsetDone
  <2>9. CASE SetName(p)
    <3>1. Instr(p).op = "setg"
      BY <2>9 DEF SetName, At
    <3> QED BY <1>3, <1>4, <2>9, <3>1, SetNameDone
  <2>10. CASE UnsetName(p)
    <3>1. Instr(p).op = "unsetg"
      BY <2>10 DEF UnsetName, At
    <3> QED BY <1>3, <1>4, <2>10, <3>1, UnsetNameDone
  <2>11. CASE Semaphore(p)
    BY <1>3, <1>4, <2>11, SemaphoreDone
  <2> QED BY <2>1, <2>2, <2>3, <2>4, <2>5, <2>6, <2>7, <2>8, <2>9, <2>10, <2>11 DEF Blocks
<1>6. waiting' = waiting \ {p}
  BY <1>1
<1> QED BY <1>3, <1>5, <1>6, DoneStep

\* The return from a call keeps it.
LEMMA JoinStep ==
  ASSUME MachInv, NEW pre, NEW post, NEW g, NEW o, Framing(pre, post, g, o), NEW p, Join(p)
  PROVE  FrameInv' /\ (panicked' => p \in running /\ Stumbles(mem', p))
<1>1. p \in waiting /\ p \in running /\ waiting' = waiting \ {p} /\ lock' = lock
  BY DEF Join, MachInv
<1>2. ASSUME NEW c \in running \ {Root} PROVE Front(c) # p
  BY <1>2 DEF Join, MachInv
<1>3. Instr(p).op = "call"
  BY <1>1 DEF Framing, FramesFit
<1>4. PICK fr, to, h : Going(pre, post, g, o, p, fr, to, h) /\ Moves(fr, Instr(p), to)
  BY <1>1, <1>2, <1>3, GoesOn
<1>5. to = fr
  BY <1>3, <1>4, CallMoves
<1>6. Executing(g, p, fr) /\ Fits(mem, lock, g, o)
  BY <1>4 DEF Going, Framing
<1>7. Alike(mem, mem)
  BY <1>6 DEF Alike, Fits, MemFits, NamesFit
<1>8. Fits(mem, lock, Moved(g, p, to), o)
  BY <1>5, <1>6, <1>7, ValuesFit
<1>9. Done(g, p, to)
  BY <1>1, <1>8 DEF Done, Join
<1> QED BY <1>1, <1>4, <1>9, DoneStep

\* The frame a child starts with.
ChildFrame(fr, p, c) == Bare(Instr(p).procs[Last(c) + 1], fr.globals, Given(fr, Last(c)))

\* The children of p, in the frame fr, have theirs; nobody else's frame is another.
ForkedTo(g, p, fr, h) ==
  h = [q \in Proc |-> IF q \in Children(p) THEN ChildFrame(fr, p, q) ELSE g[q]]

\* A bare frame.
LEMMA BareIs ==
  ASSUME NEW name, NEW globals, NEW names, NEW fr, fr = Bare(name, globals, names),
         SlotsOk(names, 0), \A v \in DOMAIN globals : globals[v] \in BOOLEAN
  PROVE  /\ FrameOk(fr) /\ fr.proc = name /\ fr.depth = 0 /\ fr.globals = globals /\ fr.names = names
         /\ fr.given = << >> /\ fr.locks = {}
<1>1. /\ fr.proc = name /\ fr.depth = 0 /\ fr.globals = globals /\ fr.names = names
      /\ fr.given = << >> /\ fr.locks = {}
      /\ DOMAIN fr = {"proc", "depth", "globals", "names", "given", "locks"}
  BY DEF Bare
<1>2. OnceEach(fr.given)
  BY <1>1 DEF OnceEach
<1>3. fr.depth \in Nat /\ SlotsOk(fr.names, fr.depth) /\ \A v \in DOMAIN fr.globals : fr.globals[v] \in BOOLEAN
  BY <1>1
<1> QED BY <1>1, <1>2, <1>3, Zenon DEF FrameOk

\* What the children of a call are, before it.
LEMMA ChildrenAre ==
  ASSUME MachInv, NEW pre, NEW post, NEW g, NEW o, Framing(pre, post, g, o),
         NEW p \in running \ waiting, Instr(p).op = "call", Children(p) \subseteq Proc,
         NEW fr, fr = g[p], NEW h, ForkedTo(g, p, fr, h), NEW c \in Children(p)
  PROVE  /\ c \in Proc /\ c # Root /\ c # p /\ Front(c) = p /\ c \notin running /\ Idle(g, c)
         /\ h[c] = ChildFrame(fr, p, c) /\ FrameOk(h[c])
         /\ h[c].names = g[c].names /\ h[c].depth = g[c].depth /\ h[c].given = g[c].given
         /\ h[c].locks = g[c].locks /\ h[c].globals = fr.globals
         /\ h[c].proc = Instr(p).procs[Last(c) + 1]
<1>1. c \in Proc /\ c # Root /\ Front(c) = p /\ c # p
  BY ChildrenStart
<1>2. c \notin running
  BY <1>1, NoChildRuns
<1>3. Idle(g, c)
  BY <1>1, <1>2 DEF Framing, FramesFit
<1>4. h[c] = ChildFrame(fr, p, c)
  BY <1>1 DEF ForkedTo
<1>5. FrameOk(fr)
  BY DEF Framing, Fits, MachInv
<1>6. SlotsOk(Given(fr, Last(c)), 0)
  BY <1>5, GivenOk
<1>7. \A v \in DOMAIN fr.globals : fr.globals[v] \in BOOLEAN
  BY <1>5 DEF FrameOk
<1>8. PICK name, x, names : /\ name = Instr(p).procs[Last(c) + 1] /\ x = fr.globals
                            /\ names = Given(fr, Last(c))
  OBVIOUS
<1>9. h[c] = Bare(name, x, names)
  BY <1>4, <1>8 DEF ChildFrame
<1>10. /\ FrameOk(h[c]) /\ h[c].proc = name /\ h[c].depth = 0 /\ h[c].globals = x /\ h[c].names = names
       /\ h[c].given = << >> /\ h[c].locks = {}
  BY <1>6, <1>7, <1>8, <1>9, BareIs
<1>11. /\ g[c].depth = 0 /\ g[c].given = << >> /\ g[c].locks = {}
       /\ g[c].names = Given(g[Front(c)], Last(c))
  BY <1>1, <1>3 DEF Idle
<1>12. h[c].names = g[c].names
  BY <1>1, <1>8, <1>10, <1>11
<1>13. h[c].depth = g[c].depth /\ h[c].given = g[c].given /\ h[c].locks = g[c].locks
  BY <1>10, <1>11
<1>14. h[c].globals = fr.globals /\ h[c].proc = Instr(p).procs[Last(c) + 1]
  BY <1>8, <1>10
<1> QED BY <1>1, <1>2, <1>3, <1>4, <1>10, <1>12, <1>13, <1>14

\* A call changes nobody's names, depth or locks.
LEMMA ForkFits ==
  ASSUME MachInv, NEW pre, NEW post, NEW g, NEW o, Framing(pre, post, g, o),
         NEW p \in running \ waiting, Instr(p).op = "call", Children(p) \subseteq Proc,
         NEW fr, fr = g[p], NEW h, ForkedTo(g, p, fr, h)
  PROVE  Fits(mem, lock, h, o)
<1>1. Fits(mem, lock, g, o)
  BY DEF Framing
<1>2. ASSUME NEW q \in Proc
      PROVE  /\ FrameOk(h[q]) /\ h[q].names = g[q].names /\ h[q].depth = g[q].depth
             /\ h[q].locks = g[q].locks
  <2>1. CASE q \in Children(p)
    BY <2>1, ChildrenAre
  <2>2. CASE q \notin Children(p)
    <3>1. h[q] = g[q]
      BY <2>2 DEF ForkedTo
    <3> QED BY <1>1, <3>1 DEF Fits
  <2> QED BY <2>1, <2>2
<1>3. NamesOf(h) = NamesOf(g)
  BY <1>2, SameNames DEF NamesOf
<1>4. DepthsOf(h) = DepthsOf(g)
  BY <1>2, SameDepths DEF DepthsOf
<1>5. MemFits(mem, NamesOf(h), DepthsOf(h), o)
  BY <1>1, <1>3, <1>4 DEF Fits
<1>6. LocksFit(mem, lock, h)
  <2>1. LocksFit(mem, lock, g)
    BY <1>1 DEF Fits
  <2> QED BY <1>2, <2>1, LocksKept
<1>7. h[Root].globals = g[Root].globals
  <2>1. Root \notin Children(p)
    BY ChildrenAre
  <2> QED BY <2>1, ProcAssumption DEF ForkedTo
<1>8. DOMAIN mem.alloc = DOMAIN h[Root].globals
  BY <1>1, <1>7 DEF Fits
<1> QED BY <1>2, <1>5, <1>6, <1>8 DEF Fits

\* A call keeps the invariant.
LEMMA ForkKeeps ==
  ASSUME MachInv, NEW pre, NEW post, NEW g, NEW o, Framing(pre, post, g, o), NEW p, Fork(p),
         panicked = FALSE
  PROVE  FrameInv' /\ ~panicked'
<1>1. /\ p \in running \ waiting /\ Instr(p).op = "call" /\ Children(p) \subseteq Proc
      /\ running' = running \cup Children(p) /\ waiting' = waiting \cup {p}
      /\ file' = file /\ mem' = mem /\ lock' = lock /\ rev' = rev /\ panicked' = panicked
  BY DEF Fork, At
<1>2. /\ p \in Proc /\ running \subseteq Proc /\ Framed(file, pre, post)
      /\ Base(p) \in DOMAIN pre /\ g[p] = Here(pre, post, p)
  BY <1>1 DEF MachInv, Framing, Linked
<1>3. head' = [q \in Proc |-> IF q \in Children(p) THEN Start(Instr(p).procs[Last(q) + 1]) ELSE head[q]]
  BY DEF Fork, Start
<1>4. PICK fr : fr = g[p]
  OBVIOUS
<1>5. PICK h : ForkedTo(g, p, fr, h)
  BY DEF ForkedTo
<1>6. \A c \in Children(p) :
        /\ c \in Proc /\ c # Root /\ c # p /\ Front(c) = p /\ c \notin running /\ Idle(g, c)
        /\ h[c] = ChildFrame(fr, p, c) /\ h[c].given = g[c].given
        /\ h[c].globals = fr.globals /\ h[c].proc = Instr(p).procs[Last(c) + 1]
  BY <1>1, <1>4, <1>5, ChildrenAre
<1>7. \A q \in Proc : q \notin Children(p) => h[q] = g[q]
  BY <1>5 DEF ForkedTo
<1>8. \A q \in Proc : h[q].given = g[q].given
  BY <1>6, <1>7
<1>9. \A q \in running : q \in Proc /\ q \notin Children(p) /\ h[q] = g[q]
  BY <1>2, <1>6, <1>7
<1>10. ASSUME NEW q \in running
       PROVE  Instr(q)' = Instr(q) /\ Base(q)' = Base(q) /\ Here(pre, post, q)' = Here(pre, post, q)
  <2>1. head'[q] = head[q]
    BY <1>3, <1>9
  <2> QED BY <1>1, <2>1, SameBlock
<1>11. Root \in running
  BY <1>1, NobodyLeft
<1>12. h[Root].globals = g[Root].globals
  BY <1>9, <1>11
<1>13. /\ \A q \in Proc \ running : Idle(g, q)
       /\ \A q \in running : g[q].globals = g[Root].globals /\ g[q].proc = ProcOf(q)
       /\ \A q \in waiting : Instr(q).op = "call"
  BY DEF Framing, FramesFit
<1>14. ASSUME NEW q \in Proc \ running' PROVE Idle(h, q)
  <2>1. q \in Proc \ running /\ h[q] = g[q] /\ Idle(g, q)
    BY <1>1, <1>7, <1>13, <1>14
  <2>2. ASSUME q # Root PROVE h[q].names = Given(h[Front(q)], Last(q))
    <3>1. Front(q) \in Proc
      BY <2>1, <2>2, ProcAssumption
    <3>2. h[Front(q)].given = g[Front(q)].given
      BY <1>8, <3>1
    <3> QED BY <2>1, <2>2, <3>2 DEF Idle, Given
  <2> QED BY <2>1, <2>2 DEF Idle
<1>15. ASSUME NEW q \in running' PROVE h[q].globals = h[Root].globals /\ h[q].proc = ProcOf(q)'
  <2>1. CASE q \in running
    <3>1. h[q].globals = h[Root].globals /\ h[q].proc = ProcOf(q)
      BY <1>9, <1>12, <1>13, <2>1
    <3>2. ProcOf(q)' = ProcOf(q)
      <4>1. CASE q = Root
        BY <4>1 DEF ProcOf
      <4>2. CASE q # Root
        <5>1. PICK f : f = Front(q) /\ f \in running
          BY <2>1, <4>2 DEF MachInv
        <5>2. Instr(f)' = Instr(f)
          BY <1>10, <5>1
        <5> QED BY <4>2, <5>1, <5>2 DEF ProcOf
      <4> QED BY <4>1, <4>2
    <3> QED BY <3>1, <3>2
  <2>2. CASE q \in Children(p)
    <3>1. h[q].globals = h[Root].globals
      BY <1>1, <1>4, <1>6, <1>12, <1>13, <2>2
    <3>2. Instr(p)' = Instr(p)
      BY <1>1, <1>10
    <3>3. q # Root /\ Front(q) = p /\ h[q].proc = Instr(p).procs[Last(q) + 1]
      BY <1>6, <2>2
    <3> QED BY <3>1, <3>2, <3>3 DEF ProcOf
  <2> QED BY <1>1, <1>15, <2>1, <2>2
<1>16. ASSUME NEW q \in waiting' PROVE Instr(q)'.op = "call"
  <2>1. q \in running /\ Instr(q).op = "call"
    BY <1>1, <1>13, <1>16 DEF MachInv
  <2> QED BY <1>10, <2>1
<1>17. FramesFit(h)'
  BY <1>14, <1>15, <1>16 DEF FramesFit
<1>18. ASSUME NEW q \in running' PROVE Base(q)' \in DOMAIN pre /\ h[q] = Here(pre, post, q)'
  <2>1. CASE q \in running
    <3>1. Base(q) \in DOMAIN pre /\ g[q] = Here(pre, post, q)
      BY <2>1 DEF Framing, Linked
    <3> QED BY <1>9, <1>10, <2>1, <3>1
  <2>2. CASE q \in Children(p)
    <3>1. PICK name \in DOMAIN file.begin \cap DOMAIN file.end : name = Instr(p).procs[Last(q) + 1]
      BY <1>1, <2>2, ChildrenStart
    <3>2. CalledWith(pre, post, name, h[q])
      <4>1. fr = Here(pre, post, p)
        BY <1>2, <1>4
      <4>2. CalledWith(pre, post, name, Bare(name, fr.globals, Given(fr, Last(q))))
        BY <1>1, <1>2, <2>2, <3>1, <4>1, Called
      <4> QED BY <1>6, <2>2, <3>1, <4>2 DEF ChildFrame
    <3>3. head'[q] = Start(name)
      BY <1>3, <1>6, <2>2, <3>1
    <3>4. file.end[name] \in Int
      <4>1. PICK len \in Nat : FileIs(len)
        BY FileFacts DEF MachInv
      <4> QED BY <3>1, <4>1 DEF FileIs
    <3>5. Base(q)' = IF rev THEN file.end[name] - 2 ELSE file.begin[name]
      BY <1>1, <3>3, <3>4 DEF Base, Start
    <3>6. Here(pre, post, q)' = IF rev THEN post[file.end[name] - 2] ELSE pre[file.begin[name]]
      BY <1>1, <3>5 DEF Here
    <3> QED BY <3>2, <3>5, <3>6 DEF CalledWith
  <2> QED BY <1>1, <1>18, <2>1, <2>2
<1>19. Linked(pre, post, h)'
  BY <1>1, <1>11, <1>18 DEF Linked
<1>20. Fits(mem, lock, h, o)
  BY <1>1, <1>4, <1>5, ForkFits
<1>21. FramesAt(pre, post, h, o)'
  BY <1>1, <1>2, <1>17, <1>19, <1>20 DEF FramesAt
<1>22. MachInv'
  BY <1>2, ForkStep
<1> QED BY <1>1, <1>21, <1>22 DEF FrameInv

\* bwd or fwd, and run, keep it.
LEMMA TurnKeeps ==
  ASSUME MachInv, NEW pre, NEW post, NEW g, NEW o, Framing(pre, post, g, o), Turn,
         panicked = FALSE
  PROVE  FrameInv' /\ ~panicked'
<1>1. /\ Root \notin running /\ ~panicked /\ rev' = ~rev /\ running' = {Root}
      /\ head' = [head EXCEPT ![Root] = IF rev THEN file.begin["main"] ELSE file.end["main"] + 1]
      /\ file' = file /\ waiting' = waiting /\ mem' = mem /\ lock' = lock /\ panicked' = panicked
  BY DEF Turn, Stopped
<1>2. running = {} /\ waiting = {}
  BY <1>1, NobodyLeft
<1>3. Framed(file, pre, post) /\ Fits(mem, lock, g, o)
  BY DEF Framing
<1>4. PICK b0, b1 : b0 = file.begin["main"] /\ b1 = file.end["main"] - 2
  OBVIOUS
<1>5. /\ b0 \in DOMAIN pre /\ pre[b0] = Bare("main", << >>, << >>)
      /\ b1 \in DOMAIN pre /\ \E x : post[b1] = Bare("main", x, << >>)
  BY <1>3, <1>4 DEF Framed
<1>6. g[Root] = IF rev THEN pre[b0] ELSE post[b1]
  BY <1>1, <1>4 DEF Framing, Linked
<1>7. g[Root].proc = "main"
  BY <1>5, <1>6 DEF Bare
<1>8. FramesFit(g)'
  <2>1. \A q \in Proc \ running' : Idle(g, q)
    BY <1>2 DEF Framing, FramesFit
  <2>2. \A q \in running' : g[q].globals = g[Root].globals /\ g[q].proc = ProcOf(q)'
    BY <1>1, <1>7 DEF ProcOf
  <2>3. \A q \in waiting' : Instr(q)'.op = "call"
    BY <1>1, <1>2
  <2> QED BY <2>1, <2>2, <2>3 DEF FramesFit
<1>9. head'[Root] = IF rev THEN b0 ELSE file.end["main"] + 1
  BY <1>1, <1>4, ProcAssumption DEF MachInv
<1>10. file.end["main"] \in Int
  <2>1. PICK len \in Nat : FileIs(len)
    BY FileFacts DEF MachInv
  <2> QED BY <2>1 DEF FileIs
<1>11. rev \in BOOLEAN
  BY DEF MachInv
<1>12. Base(Root)' = IF rev THEN b0 ELSE b1
  <2>1. CASE rev
    <3>1. rev' = FALSE /\ head'[Root] = b0
      BY <1>1, <1>9, <2>1
    <3> QED BY <2>1, <3>1 DEF Base
  <2>2. CASE ~rev
    <3>1. rev' = TRUE /\ head'[Root] = file.end["main"] + 1
      BY <1>1, <1>9, <2>2
    <3>2. Base(Root)' = head'[Root] - 3
      BY <3>1 DEF Base
    <3>3. PICK e \in Int : e = file.end["main"]
      BY <1>10
    <3> QED BY <1>4, <2>2, <3>1, <3>2, <3>3
  <2> QED BY <2>1, <2>2
<1>13. Here(pre, post, Root)' = g[Root]
  BY <1>1, <1>6, <1>11, <1>12 DEF Here
<1>14. Linked(pre, post, g)'
  BY <1>1, <1>5, <1>12, <1>13 DEF Linked
<1>15. FramesAt(pre, post, g, o)'
  BY <1>1, <1>3, <1>8, <1>14 DEF FramesAt
<1>16. MachInv'
  BY TurnStep
<1> QED BY <1>1, <1>15, <1>16 DEF FrameInv

-----------------------------------------------------------------------------
(* Behaviours *)

\* The texts considered are in blocks and framed.
TextsFramed ==
  \A c \in Code : InBlocks(Lines(c)) /\ \E pre, post : Framed(Load(Lines(c)), pre, post)

\* The frame of everybody, before anything has run.
FirstFrame(q) == Bare(IF q = Root THEN "main" ELSE "", << >>, << >>)

\* Nothing is bound, and nothing is in use, at first.
LEMMA EmptyIs ==
  /\ MemIs(EmptyMemory) /\ EmptyMemory.var = << >> /\ EmptyMemory.alloc = << >>
  /\ \A q \in Proc : EmptyMemory.table[q] = << >> /\ EmptyMemory.nest[q] = 0
<1>1. PICK m : m = EmptyMemory
  OBVIOUS
<1>2. PICK e : e = << >>
  OBVIOUS
<1>3. DOMAIN e = {} /\ e = [c \in DOMAIN e |-> e[c]]
  BY <1>2
<1>4. /\ DOMAIN m = {"alloc", "table", "nest", "heap", "var"}
      /\ DOMAIN m.table = Proc /\ DOMAIN m.nest = Proc
      /\ m.var = e /\ m.alloc = e
      /\ \A q \in Proc : m.table[q] = e /\ m.nest[q] = 0
  BY <1>1, <1>2 DEF EmptyMemory
<1>5. MemIs(m)
  BY <1>3, <1>4 DEF MemIs
<1> QED BY <1>1, <1>2, <1>4, <1>5

\* The first frames fit.
LEMMA FirstFits ==
  ASSUME NEW g, g = [q \in Proc |-> FirstFrame(q)]
  PROVE  /\ \A o : Fits(EmptyMemory, << >>, g, o)
         /\ \A q \in Proc : Idle(g, q) /\ g[q].globals = << >>
<1>1. PICK e : e = << >>
  OBVIOUS
<1>2. DOMAIN e = {} /\ e = [c \in DOMAIN e |-> e[c]]
  BY <1>1
<1>3. SlotsOk(e, 0) /\ \A v \in DOMAIN e : e[v] \in BOOLEAN
  BY <1>2 DEF SlotsOk
<1>4. ASSUME NEW q \in Proc
      PROVE  /\ FrameOk(g[q]) /\ g[q].depth = 0 /\ g[q].globals = e /\ g[q].names = e
             /\ g[q].given = e /\ g[q].locks = {}
  <2>1. PICK name, fr : name = (IF q = Root THEN "main" ELSE "") /\ fr = g[q]
    OBVIOUS
  <2>2. fr = Bare(name, e, e)
    BY <1>1, <2>1 DEF FirstFrame
  <2>3. /\ FrameOk(fr) /\ fr.depth = 0 /\ fr.globals = e /\ fr.names = e
        /\ fr.given = << >> /\ fr.locks = {}
    BY <1>3, <2>2, BareIs
  <2> QED BY <1>1, <2>1, <2>3
<1>5. ASSUME NEW q \in Proc PROVE Idle(g, q)
  <2>1. ASSUME q # Root PROVE g[q].names = Given(g[Front(q)], Last(q))
    <3>1. PICK f : f = Front(q) /\ f \in Proc
      BY <2>1, ProcAssumption
    <3>2. Given(g[f], Last(q)) = e
      BY <1>1, <1>2, <1>4, <3>1 DEF Given
    <3> QED BY <1>4, <3>1, <3>2
  <2> QED BY <1>1, <1>4, <2>1 DEF Idle
<1>6. PICK m : m = EmptyMemory
  OBVIOUS
<1>7. MemIs(m) /\ m.var = e /\ m.alloc = e /\ \A q \in Proc : m.table[q] = e /\ m.nest[q] = 0
  BY <1>1, <1>6, EmptyIs
<1>8. ASSUME NEW o PROVE Fits(m, e, g, o)
  <2>1. PICK N, D : N = NamesOf(g) /\ D = DepthsOf(g)
    OBVIOUS
  <2>2. \A q \in Proc : N[q] = e /\ D[q] = 0
    BY <1>4, <2>1 DEF NamesOf, DepthsOf
  <2>3. TableFits(e, e)
    BY <1>2 DEF TableFits, Tabled, Stacks
  <2>4. NamesFit(m, N, D)
    BY <1>7, <2>2, <2>3 DEF NamesFit
  <2>5. CellsFit(m.table, DOMAIN m.var, N, o)
    <3>1. \A q, v, i : ~IsPlace(N, q, v, i)
      BY <1>2, <2>2 DEF IsPlace
    <3>2. DOMAIN m.var = {} /\ IsFiniteSet({})
      BY <1>2, <1>7, FS_EmptySet
    <3> QED BY <3>1, <3>2 DEF CellsFit
  <2>6. LocksFit(m, e, g)
    <3>1. \A q \in Proc : Symbols(m, q, g[q].locks) = {}
      BY <1>4 DEF Symbols
    <3> QED BY <1>2, <3>1 DEF LocksFit
  <2>7. DOMAIN m.alloc = DOMAIN g[Root].globals
    BY <1>4, <1>7, ProcAssumption
  <2> QED BY <1>4, <2>1, <2>4, <2>5, <2>6, <2>7 DEF Fits, MemFits
<1> QED BY <1>1, <1>4, <1>5, <1>6, <1>8

\* The invariant holds at the start.
LEMMA FrameInit ==
  ASSUME TextsFramed, Init
  PROVE  FrameInv
<1>1. /\ code \in Code /\ file = Load(Lines(code)) /\ running = {Root} /\ waiting = {}
      /\ head = [q \in Proc |-> IF q = Root THEN file.begin["main"] ELSE 0]
      /\ mem = EmptyMemory /\ lock = << >> /\ rev = FALSE /\ panicked = FALSE
  BY DEF Init
<1>2. MachInv
  BY MachInit DEF TextsFramed, TextsInBlocks
<1>3. PICK pre, post : Framed(file, pre, post)
  BY <1>1 DEF TextsFramed
<1>4. PICK g : g = [q \in Proc |-> FirstFrame(q)]
  OBVIOUS
<1>5. PICK o : TRUE
  OBVIOUS
<1>6. Fits(mem, lock, g, o) /\ \A q \in Proc : Idle(g, q) /\ g[q].globals = << >>
  BY <1>1, <1>4, FirstFits
<1>7. g[Root] = Bare("main", << >>, << >>)
  BY <1>4, ProcAssumption DEF FirstFrame
<1>8. g[Root].proc = "main"
  BY <1>7 DEF Bare
<1>9. FramesFit(g)
  BY <1>1, <1>6, <1>8 DEF FramesFit, ProcOf
<1>10. Base(Root) = file.begin["main"]
  BY <1>1, ProcAssumption DEF Base
<1>11. file.begin["main"] \in DOMAIN pre /\ pre[file.begin["main"]] = g[Root]
  BY <1>3, <1>7 DEF Framed
<1>12. Linked(pre, post, g)
  BY <1>1, <1>10, <1>11 DEF Linked, Here
<1>13. FramesAt(pre, post, g, o)
  BY <1>3, <1>6, <1>9, <1>12 DEF FramesAt
<1> QED BY <1>1, <1>2, <1>13 DEF FrameInv

\* A panic is that of somebody who undoes another block than it has done last, or who takes
\* a value for a divisor or an index.
OnTraceOrValue == panicked' => panicked \/ \E p \in running : Stumbles(mem', p)

\* Every step keeps the invariant.
LEMMA FrameStep ==
  ASSUME FrameInv, [Next]_vars
  PROVE  FrameInv' /\ OnTraceOrValue
<1>1. MachInv /\ panicked \in BOOLEAN
  BY DEF FrameInv
<1>2. PICK pre, post, g, o : FramesAt(pre, post, g, o)
  BY DEF FrameInv
<1>3. ASSUME ~panicked PROVE Framing(pre, post, g, o) /\ panicked = FALSE
  BY <1>1, <1>2, <1>3 DEF FramesAt, Framing
<1>4. CASE UNCHANGED vars
  <2>1. /\ file' = file /\ head' = head /\ running' = running /\ waiting' = waiting /\ mem' = mem
        /\ lock' = lock /\ rev' = rev /\ panicked' = panicked
    BY <1>4 DEF vars
  <2>2. \A q : Base(q)' = Base(q) /\ Instr(q)' = Instr(q) /\ Here(pre, post, q)' = Here(pre, post, q)
    BY <2>1, SameBlock
  <2>3. FramesFit(g) => FramesFit(g)'
    BY <2>1, <2>2 DEF FramesFit, ProcOf
  <2>4. Linked(pre, post, g) => Linked(pre, post, g)'
    BY <2>1, <2>2 DEF Linked
  <2>5. FramesAt(pre, post, g, o)'
    BY <1>2, <2>1, <2>3, <2>4 DEF FramesAt
  <2>6. MachInv'
    BY <1>1, MachStep
  <2> QED BY <1>1, <2>1, <2>5, <2>6 DEF FrameInv, OnTraceOrValue
<1>5. CASE Turn
  <2>1. ~panicked
    BY <1>5 DEF Turn, Stopped
  <2> QED BY <1>1, <1>3, <1>5, <2>1, TurnKeeps DEF OnTraceOrValue
<1>6. ASSUME NEW p \in Proc, Step(p) PROVE FrameInv' /\ OnTraceOrValue
  <2>1. ~panicked
    BY <1>6 DEF Step, Assign, Exchange, Nop, Nest, LockAddr, UnlockAddr, SetSym, UnsetSym, SetName,
       UnsetName, Semaphore, Fork, Join, At
  <2>2. CASE Blocks(p)
    BY <1>1, <1>3, <1>6, <2>1, <2>2, BlockStep DEF OnTraceOrValue
  <2>3. CASE Fork(p)
    BY <1>1, <1>3, <2>1, <2>3, ForkKeeps DEF OnTraceOrValue
  <2>4. CASE Join(p)
    BY <1>1, <1>3, <1>6, <2>1, <2>4, JoinStep DEF OnTraceOrValue
  <2> QED BY <1>6, <2>2, <2>3, <2>4 DEF Step, Blocks
<1> QED BY <1>4, <1>5, <1>6 DEF Next

\* The invariant holds in every behaviour.
LEMMA FrameAlways ==
  ASSUME TextsFramed
  PROVE  Spec => []FrameInv
<1>1. Init => FrameInv
  BY FrameInit
<1>2. FrameInv /\ [Next]_vars => FrameInv'
  BY FrameStep
<1> QED BY <1>1, <1>2, PTL DEF Spec

\* A function that is defined nowhere.
LEMMA NothingIn ==
  ASSUME NEW t, t = [v \in DOMAIN t |-> t[v]], DOMAIN t = {}
  PROVE  t = << >>
<1>1. PICK e : e = << >>
  OBVIOUS
<1>2. DOMAIN e = {} /\ e = [v \in DOMAIN e |-> e[v]]
  BY <1>1
<1>3. t = [v \in {} |-> e[v]]
  OBVIOUS
<1>4. e = [v \in {} |-> e[v]]
  BY <1>2
<1> QED BY <1>1, <1>3, <1>4

\* Frames that fit say what the types of names, memory and locks are.
LEMMA FittingTypes ==
  ASSUME MachInv, panicked \in BOOLEAN, NEW g, NEW o, Fits(mem, lock, g, o)
  PROVE  TypeOK
<1>1. PICK N, D : N = NamesOf(g) /\ D = DepthsOf(g)
  OBVIOUS
<1>2. ASSUME NEW p \in Proc
      PROVE  /\ mem.nest[p] \in Nat /\ TableFits(mem.table[p], N[p])
             /\ SlotsOk(N[p], g[p].depth)
  <2>1. FrameOk(g[p]) /\ mem.nest[p] = D[p] /\ TableFits(mem.table[p], N[p])
    BY <1>1 DEF Fits, MemFits, NamesFit
  <2>2. N[p] = g[p].names /\ D[p] = g[p].depth
    BY <1>1 DEF NamesOf, DepthsOf
  <2> QED BY <2>1, <2>2 DEF FrameOk
<1>3. ASSUME NEW p \in Proc, NEW v \in DOMAIN mem.table[p]
      PROVE  /\ mem.table[p][v] # << >>
             /\ \A i, j \in DOMAIN mem.table[p][v] :
                  i < j => mem.table[p][v][i].nest < mem.table[p][v][j].nest
  <2>1. PICK t, names : t = mem.table[p] /\ names = N[p]
    OBVIOUS
  <2>2. TableFits(t, names) /\ SlotsOk(names, g[p].depth)
    BY <1>2, <2>1
  <2>3. PICK s : s = t[v] /\ s \in Seq(Binding) /\ s # << >>
    BY <1>3, <2>1, <2>2 DEF TableFits, Tabled, Stacks
  <2>4. PICK n \in Nat : n = Len(s) /\ DOMAIN s = 1 .. n
    BY <2>3
  <2>5. v \in DOMAIN names /\ Len(names[v]) = n
    BY <1>3, <2>1, <2>2, <2>3, <2>4 DEF TableFits
  <2>6. \A i \in 1 .. n : s[i].nest = names[v][i].nest
    BY <2>2, <2>3, <2>5 DEF TableFits
  <2>7. \A i, j \in 1 .. n : i < j => names[v][i].nest < names[v][j].nest
    BY <2>2, <2>5 DEF SlotsOk
  <2> QED BY <2>1, <2>3, <2>4, <2>6, <2>7
<1>4. ASSUME NEW s \in DOMAIN lock PROVE lock[s] \in Nat \ {0}
  <2>1. PICK H : H = Holders(mem, g, s)
    OBVIOUS
  <2>2. IsFiniteSet(H) /\ H # {} /\ lock[s] = Cardinality(H)
    BY <2>1 DEF Fits, LocksFit
  <2>3. Cardinality(H) \in Nat /\ Cardinality(H) # 0
    BY <2>2, FS_CardinalityType, FS_EmptySet
  <2> QED BY <2>2, <2>3
<1>5. /\ head \in [Proc -> 0 .. Len(file.lines)] /\ running \subseteq Proc /\ waiting \subseteq running
      /\ rev \in BOOLEAN
  BY DEF MachInv
<1> QED BY <1>2, <1>3, <1>4, <1>5 DEF TypeOK

\* Every name is that of a cell in use.
LEMMA FittingCells ==
  ASSUME NEW g, NEW o, Fits(mem, lock, g, o)
  PROVE  NoDangling
<1>1. PICK N : N = NamesOf(g)
  OBVIOUS
<1>2. CellsFit(mem.table, DOMAIN mem.var, N, o) /\ \A p \in Proc : TableFits(mem.table[p], N[p])
  BY <1>1 DEF Fits, MemFits, NamesFit
<1>3. ASSUME NEW p \in Proc, NEW v \in DOMAIN mem.table[p], NEW i \in DOMAIN mem.table[p][v],
             ~mem.table[p][v][i].addr.glob
      PROVE  mem.table[p][v][i].addr.idx \in DOMAIN mem.var
  <2>1. PICK t : t = mem.table[p] /\ TableFits(t, N[p])
    BY <1>2
  <2>2. PICK s : s = t[v] /\ s \in Seq(Binding)
    BY <1>3, <2>1 DEF TableFits, Tabled, Stacks
  <2>3. i \in 1 .. Len(s)
    BY <1>3, <2>1, <2>2
  <2>4. IsPlace(N, p, v, i)
    BY <1>3, <2>1, <2>2, <2>3 DEF IsPlace, TableFits
  <2> QED BY <1>2, <1>3, <2>4 DEF CellsFit
<1> QED BY <1>3 DEF NoDangling

\* At both ends of a run nobody has a name, a cell, a depth or a lock, and at the start there
\* are no globals: the part of Tidy that depends on no value.
Tidied ==
  Stopped =>
    /\ mem.var = << >> /\ lock = << >>
    /\ \A p \in Proc : mem.table[p] = << >> /\ mem.nest[p] = 0
    /\ rev => mem.alloc = << >>

\* When nobody runs, frames are empty.
LEMMA FramesEmpty ==
  ASSUME MachInv, NEW pre, NEW post, NEW g, NEW o, Framing(pre, post, g, o), Root \notin running
  PROVE  /\ \A p \in Proc : /\ g[p].depth = 0 /\ g[p].given = << >> /\ g[p].locks = {}
                            /\ DOMAIN g[p].names = {}
         /\ rev => DOMAIN g[Root].globals = {}
<1>1. running = {}
  BY NobodyLeft
<1>2. \A p \in Proc : Idle(g, p)
  BY <1>1 DEF Framing, FramesFit
<1>3. PICK e : e = << >> /\ DOMAIN e = {}
  OBVIOUS
<1>4. ASSUME NEW x, NEW fr, fr = Bare("main", x, e) PROVE fr.names = e /\ fr.globals = x
  BY <1>4 DEF Bare
<1>5. g[Root].names = e /\ (rev => g[Root].globals = e)
  <2>1. g[Root] = IF rev THEN pre[file.begin["main"]] ELSE post[file.end["main"] - 2]
    BY DEF Framing, Linked
  <2>2. /\ pre[file.begin["main"]] = Bare("main", e, e)
        /\ \E x : post[file.end["main"] - 2] = Bare("main", x, e)
    BY <1>3 DEF Framing, Framed
  <2>3. CASE rev
    <3>1. g[Root] = Bare("main", e, e)
      BY <2>1, <2>2, <2>3
    <3> QED BY <1>4, <3>1
  <2>4. CASE ~rev
    <3>1. \E x : g[Root] = Bare("main", x, e)
      BY <2>1, <2>2, <2>4
    <3> QED BY <1>4, <2>4, <3>1
  <2> QED BY <2>3, <2>4
<1>6. ASSUME NEW p \in Proc PROVE g[p].names = e
  <2>1. CASE p = Root
    BY <1>5, <2>1
  <2>2. CASE p # Root
    <3>1. PICK f : f = Front(p) /\ f \in Proc
      BY <2>2, ProcAssumption
    <3>2. g[p].names = Given(g[f], Last(p)) /\ g[f].given = e
      BY <1>2, <1>3, <2>2, <3>1 DEF Idle
    <3>3. Given(g[f], Last(p)) = e
      BY <1>3, <3>2 DEF Given
    <3> QED BY <3>2, <3>3
  <2> QED BY <2>1, <2>2
<1> QED BY <1>2, <1>3, <1>5, <1>6 DEF Idle

\* A memory that fits empty frames is empty.
LEMMA FittingEmpty ==
  ASSUME FrameInv
  PROVE  Tidied
<1> SUFFICES ASSUME Stopped
             PROVE  /\ mem.var = << >> /\ lock = << >>
                    /\ \A p \in Proc : mem.table[p] = << >> /\ mem.nest[p] = 0
                    /\ rev => mem.alloc = << >>
  BY DEF Tidied
<1>1. PICK pre, post, g, o : Framing(pre, post, g, o)
  BY DEF FrameInv, FramesAt, Framing, Stopped
<1>2. /\ \A p \in Proc : g[p].depth = 0 /\ g[p].locks = {} /\ DOMAIN g[p].names = {}
      /\ rev => DOMAIN g[Root].globals = {}
  BY <1>1, FramesEmpty DEF Stopped, FrameInv
<1>3. PICK N, D : N = NamesOf(g) /\ D = DepthsOf(g)
  OBVIOUS
<1>4. \A p \in Proc : D[p] = 0 /\ DOMAIN N[p] = {}
  BY <1>2, <1>3 DEF NamesOf, DepthsOf
<1>5. /\ NamesFit(mem, N, D) /\ CellsFit(mem.table, DOMAIN mem.var, N, o) /\ LocksFit(mem, lock, g)
      /\ DOMAIN mem.alloc = DOMAIN g[Root].globals
  BY <1>1, <1>3 DEF Framing, Fits, MemFits
<1>6. ASSUME NEW p \in Proc PROVE mem.table[p] = << >> /\ mem.nest[p] = 0
  <2>1. PICK t : t = mem.table[p]
    OBVIOUS
  <2>2. TableFits(t, N[p]) /\ mem.nest[p] = 0
    BY <1>4, <1>5, <2>1 DEF NamesFit
  <2>3. t = [v \in DOMAIN t |-> t[v]] /\ DOMAIN t = {}
    BY <1>4, <2>2 DEF TableFits, Tabled
  <2>4. t = << >>
    BY <2>3, NothingIn
  <2> QED BY <2>1, <2>2, <2>4
<1>7. mem.var = << >>
  <2>1. PICK t : t = mem.var
    OBVIOUS
  <2>2. DOMAIN t = {}
    <3>1. \A q, v, i : ~IsPlace(N, q, v, i)
      BY <1>4 DEF IsPlace
    <3> QED BY <1>5, <2>1, <3>1 DEF CellsFit
  <2>3. t = [c \in DOMAIN t |-> t[c]]
    BY <1>5, <2>1 DEF NamesFit, MemIs
  <2>4. t = << >>
    BY <2>2, <2>3, NothingIn
  <2> QED BY <2>1, <2>4
<1>8. lock = << >>
  <2>1. PICK t : t = lock
    OBVIOUS
  <2>2. ASSUME NEW s \in DOMAIN t PROVE FALSE
    <3>1. Holders(mem, g, s) # {}
      BY <1>5, <2>1, <2>2 DEF LocksFit
    <3>2. \A p \in Proc : Symbols(mem, p, g[p].locks) = {}
      BY <1>2 DEF Symbols
    <3> QED BY <3>1, <3>2 DEF Holders
  <2>3. t = [c \in DOMAIN t |-> t[c]]
    BY <1>5, <2>1 DEF LocksFit
  <2>4. t = << >>
    BY <2>2, <2>3, NothingIn
  <2> QED BY <2>1, <2>4
<1>9. ASSUME rev PROVE mem.alloc = << >>
  <2>1. PICK t : t = mem.alloc
    OBVIOUS
  <2>2. DOMAIN t = {}
    BY <1>2, <1>5, <1>9, <2>1
  <2>3. t = [c \in DOMAIN t |-> t[c]]
    BY <1>5, <2>1 DEF NamesFit, MemIs
  <2>4. t = << >>
    BY <2>2, <2>3, NothingIn
  <2> QED BY <2>1, <2>4
<1> QED BY <1>6, <1>7, <1>8, <1>9

\* Names are bound at depths that grow, depths are never negative and lock words are
\* positive, whatever a framed text computes and in whichever order its processes go on.
THEOREM MachineTypes ==
  ASSUME TextsFramed
  PROVE  Spec => []TypeOK
<1>1. FrameInv => TypeOK
  <2> SUFFICES ASSUME FrameInv PROVE TypeOK
    OBVIOUS
  <2>1. MachInv /\ panicked \in BOOLEAN /\ \E g, o : Fits(mem, lock, g, o)
    BY DEF FrameInv, FramesAt
  <2> QED BY <2>1, FittingTypes
<1> QED BY <1>1, FrameAlways, PTL

\* No name outlives its cell, in either direction: what $x gives up (UnsetAddr,
\* symtab.go:279) nobody has been given by set.
THEOREM NamesHaveCells ==
  ASSUME TextsFramed
  PROVE  Spec => []NoDangling
<1>1. FrameInv => NoDangling
  <2> SUFFICES ASSUME FrameInv PROVE NoDangling
    OBVIOUS
  <2>1. \E g, o : Fits(mem, lock, g, o)
    BY DEF FrameInv, FramesAt
  <2> QED BY <2>1, FittingCells
<1> QED BY <1>1, FrameAlways, PTL

\* A step loads no other file, and does not turn a run that has panicked.
LEMMA StepKeepsFile ==
  ASSUME [Next]_vars
  PROVE  file' = file /\ code' = code /\ (panicked' => rev' = rev)
<1>1. CASE UNCHANGED vars
  BY <1>1 DEF vars
<1>2. CASE Turn
  BY <1>2 DEF Turn, Stopped
<1>3. ASSUME NEW p \in Proc, Step(p) PROVE file' = file /\ code' = code /\ rev' = rev
  <2>1. CASE Executes(p)
    BY <2>1 DEF Executes, Finish
  <2>2. CASE Fork(p)
    BY <2>2 DEF Fork
  <2>3. CASE Join(p)
    BY <2>3 DEF Join, Finish
  <2> QED BY <1>3, <2>1, <2>2, <2>3, StepExecutes
<1> QED BY <1>1, <1>2, <1>3 DEF Next

\* The texts considered divide by no variable and by no zero, and index by no variable.
TextsPlain == \A c \in Code : \A t \in TextLines(Lines(c)) : PlainLine(t)

\* Then the lines of the file are plain.
PlainFile == \A n \in 0 .. Len(file.lines) - 1 : PlainLine(LineAt(file, n))

\* What the loader adds is plain.
LEMMA AddedPlain ==
  ASSUME NEW t \in AddedLines
  PROVE  PlainLine(t)
<1>1. PICK l : t = Goto(l) \/ t = Come(l)
  BY DEF AddedLines
<1>2. t.op \in {"->", "<-"} /\ t.cond.k = "num"
  BY <1>1 DEF Goto, Come, Branch, Merge, Num
<1> QED BY <1>2 DEF PlainLine, PlainOperand

\* The file loaded from a plain text is plain.
LEMMA PlainLoaded ==
  ASSUME TextsPlain, MachInv, code \in Code
  PROVE  PlainFile
<1>1. PICK S, lines : /\ S = TextLines(Lines(code)) \cup AddedLines
                      /\ lines = file.lines /\ lines \in Seq(S)
  BY DEF MachInv, FileOk, Loaded, InThrees
<1>2. \A t \in S : PlainLine(t)
  BY <1>1, AddedPlain DEF TextsPlain
<1>3. ASSUME NEW n \in 0 .. Len(lines) - 1 PROVE lines[n + 1] \in S
  <2>1. n + 1 \in 1 .. Len(lines)
    BY <1>1
  <2> QED BY <1>1, <2>1
<1> QED BY <1>1, <1>2, <1>3 DEF PlainFile, LineAt

\* ... and so is every block that a process comes to.
LEMMA PlainBlocks ==
  ASSUME MachInv, PlainFile, NEW p \in running
  PROVE  PlainBlock(p)
<1>1. PICK len \in Nat : FileIs(len)
  BY FileFacts DEF MachInv
<1>2. PICK b \in Nat : b = Base(p) /\ b + 3 <= len
  BY <1>1, BlockOf
<1>3. {b, b + 1, b + 2} \subseteq 0 .. len - 1
  BY <1>2
<1>4. len = Len(file.lines)
  BY <1>1 DEF FileIs
<1> QED BY <1>2, <1>3, <1>4 DEF PlainBlock, PlainFile, Entry, Exit

\* No run forward panics: the panics of the symbol table, of locks, of depths and of unknown
\* labels (symtab.go, pc.go) are out of reach of a framed text, and those of division and of
\* cells below zero (expr.go:1004, symtab.go:31) of one where no value is a divisor or an index.
ForwardSafe == panicked => rev

\* ForwardSafe holds in every behaviour of texts that are framed and plain.
THEOREM NoPanicForward ==
  ASSUME TextsFramed, TextsPlain
  PROVE  Spec => []ForwardSafe
<1>1. Init => PlainFile /\ ForwardSafe
  <2> SUFFICES ASSUME Init PROVE PlainFile /\ ForwardSafe
    OBVIOUS
  <2>1. MachInv
    BY FrameInit DEF FrameInv
  <2> QED BY <2>1, PlainLoaded DEF Init, ForwardSafe
<1>2. FrameInv /\ PlainFile /\ ForwardSafe /\ [Next]_vars => PlainFile' /\ ForwardSafe'
  <2> SUFFICES ASSUME FrameInv, PlainFile, ForwardSafe, [Next]_vars PROVE PlainFile' /\ ForwardSafe'
    OBVIOUS
  <2>1. file' = file /\ (panicked' => rev' = rev) /\ OnTraceOrValue
    BY FrameStep, StepKeepsFile
  <2>2. \A p \in running : PlainBlock(p)
    BY PlainBlocks DEF FrameInv
  <2>3. ForwardSafe'
    BY <2>1, <2>2 DEF ForwardSafe, OnTraceOrValue, Stumbles, TraceDiffers
  <2>4. PlainFile'
    BY <2>1 DEF PlainFile, LineAt
  <2> QED BY <2>3, <2>4
<1> QED BY <1>1, <1>2, FrameAlways, PTL DEF Spec

\* Two panics are left: that of -e, backward, which finds that the block to be undone is not
\* the one that was done last (pc.go:247), and, in both directions, that of a division by zero
\* or of a cell below zero, in a block that divides by a variable or by zero or indexes by a
\* variable.
PanicsOnTraceOrValue == [][OnTraceOrValue]_vars

\* PanicsOnTraceOrValue holds in every behaviour of framed texts.
THEOREM TwoPanicsLeft ==
  ASSUME TextsFramed
  PROVE  Spec => PanicsOnTraceOrValue
<1>1. FrameInv /\ [Next]_vars => [OnTraceOrValue]_vars
  BY FrameStep
<1> QED BY <1>1, FrameAlways, PTL DEF Spec, PanicsOnTraceOrValue

\* Both ends of a run leave no name, no cell, no depth and no lock behind.
THEOREM RunsTidyUp ==
  ASSUME TextsFramed
  PROVE  Spec => []Tidied
<1>1. FrameInv => Tidied
  BY FittingEmpty
<1> QED BY <1>1, FrameAlways, PTL
=============================================================================

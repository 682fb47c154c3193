------------------------- MODULE BusyboxInitProofs -------------------------
(***************************************************************************)
(* What busybox init keeps true, for every set of pids, every inittab and  *)
(* every number of pending signals and orphans: the type invariant, that   *)
(* no process is lost or started twice, that the stages are kept apart,    *)
(* that the list is the file after a reload and that init does not sleep   *)
(* over a death.                                                           *)
(*                                                                         *)
(* The properties do not hold by themselves from step to step.  A process  *)
(* is not started twice because the entry that has its pid also has its    *)
(* command (Owned) and no other entry has that command (Distinct); an      *)
(* entry that gets a pid had none before (Control); and a reload puts      *)
(* the lines it has read so far into force, in order (FileInv).            *)
(***************************************************************************)
EXTENDS BusyboxInit, TLAPS, SequenceTheorems, WellFoundedInduction

Processes == {Nobody} \cup [st : {"alive", "zombie"}, cmd : Cmds \cup {"none"},
                            as : Types \cup {"orphan"}]

Typed == TypeOK /\ proc \in [Pids -> Processes]

\* What is known at a step of init.
Control ==
    /\ phase = "once" => pc = "run" /\ doing = "main"
    /\ pc \in {"check", "parse", "append", "sweep"} => doing = "main"
    /\ pc \in {"run", "assign", "parse", "append", "sweep"} => i >= 1
    /\ pc = "assign" => i \in DOMAIN list /\ list[i].pid = 0
    /\ pc = "wait" => got \in Pids
    /\ pc \in {"parse", "append"} => i <= Len(loaded) + 1
    /\ pc = "append" => held \in Entries /\ i \in DOMAIN loaded /\ held.cmd = loaded[i].cmd
    /\ pc # "append" => held = NoEntry

\* A command has one entry, on the list or off it for a moment.
OneEach(l) == \A j, k \in DOMAIN l : l[j].cmd = l[k].cmd => j = k
Distinct ==
    /\ OneEach(list)
    /\ pc = "append" => \A j \in DOMAIN list : list[j].cmd # held.cmd

\* The entry that has the pid of a RESPAWN process is the entry it was run for.
OwnedBy(p) ==
    \/ \E k \in DOMAIN list : list[k].pid = p /\ list[k].cmd = proc[p].cmd
    \/ pc = "append" /\ held.pid = p /\ held.cmd = proc[p].cmd
    \/ pc = "assign" /\ got = p /\ list[i].cmd = proc[p].cmd
Owned == \A p \in Pids : Alive(p) /\ proc[p].as = "respawn" => OwnedBy(p)

\* A process that init waits for is the one waitfor has.
WaitedFor ==
    \A p \in Pids : Alive(p) /\ proc[p].as \in Waited => pc = "wait" /\ got = p

\* The first n lines of the file f are in force in l, in their order, and
\* nothing else.
From(a, line) == InForce(a) /\ a.cmd = line.cmd /\ a.type = line.type
Follows(l, f, n) ==
    /\ \A k \in 1 .. n : InForce(f[k]) => \E j \in DOMAIN l : From(l[j], f[k])
    /\ \A j \in DOMAIN l : InForce(l[j]) =>
           \E k \in 1 .. n :
              /\ From(l[j], f[k])
              /\ \A h \in 1 .. j - 1, m \in k .. n : ~From(l[h], f[m])
LinesRead == IF pc \in {"parse", "append"} THEN i - 1 ELSE Len(loaded)
FileInv == Follows(list, loaded, LinesRead)

IInv == Typed /\ Control /\ Distinct /\ Owned /\ WaitedFor /\ FileInv

-----------------------------------------------------------------------------
(* The list.                                                               *)

\* A set of natural numbers has a least element.
LEMMA LeastNumber ==
    ASSUME NEW S \in SUBSET Nat, S # {}
    PROVE  \E m \in S : \A n \in S : m <= n
<1> DEFINE R == OpToRel(<, Nat)
<1>1. IsWellFoundedOn(R, Nat)
    BY NatLessThanWellFounded
<1>2. PICK m \in S : \A n \in S : ~(<<n, m>> \in R)
  <2> HIDE DEF R
  <2> QED
    BY <1>1, WFMin
<1>3. ASSUME NEW n \in S, n < m PROVE FALSE
    BY <1>2, <1>3 DEF OpToRel
<1> QED
    BY <1>3

\* The loop of new_init_action finds an entry of the line's command if there
\* is one.
LEMMA MatchFacts ==
    ASSUME NEW l \in Seq(Entries), NEW line
    PROVE  /\ Match(l, line) = 0 => \A j \in DOMAIN l : l[j].cmd # line.cmd
           /\ Match(l, line) # 0 => /\ Match(l, line) \in DOMAIN l
                                   /\ l[Match(l, line)].cmd = line.cmd
<1> DEFINE I == { n \in 1 .. Len(l) : l[n].cmd = line.cmd }
<1>1. Match(l, line) = IF I # {} THEN Min(I) ELSE 0
    BY DEF Match, SelectInSeq
<1>2. DOMAIN l = 1 .. Len(l) /\ Len(l) \in Nat
    OBVIOUS
<1>3. CASE I = {}
    BY <1>1, <1>2, <1>3
<1>4. CASE I # {}
  <2>1. I \in SUBSET Nat
    OBVIOUS
  <2>2. \E m \in I : \A n \in I : m <= n
    BY <1>4, <2>1, LeastNumber
  <2>3. Min(I) \in I
    BY <2>2 DEF Min
  <2>4. Min(I) # 0
    BY <2>3
  <2> QED
    BY <1>1, <1>2, <1>4, <2>3, <2>4
<1> QED
    BY <1>3, <1>4

\* mark_terminated clears the pid of at most one entry, which had this pid.
LEMMA MarkFacts ==
    ASSUME NEW l \in Seq(Entries), NEW p \in Pids
    PROVE  /\ mark_terminated(l, p) \in Seq(Entries)
           /\ Len(mark_terminated(l, p)) = Len(l)
           /\ \A j \in DOMAIN l :
                 /\ mark_terminated(l, p)[j].cmd = l[j].cmd
                 /\ mark_terminated(l, p)[j].type = l[j].type
                 /\ \/ mark_terminated(l, p)[j].pid = l[j].pid
                    \/ l[j].pid = p /\ mark_terminated(l, p)[j].pid = 0
<1> DEFINE I == { n \in 1 .. Len(l) : l[n].pid = p }
           k == IF I # {} THEN Min(I) ELSE 0
<1>1. mark_terminated(l, p) = IF k = 0 THEN l ELSE [l EXCEPT ![k].pid = 0]
    BY DEF mark_terminated, SelectInSeq
<1>2. k = 0 \/ k \in I
  <2>1. CASE I = {}
    BY <2>1
  <2>2. CASE I # {}
    <3>1. \E m \in I : \A n \in I : m <= n
      BY <2>2, I \in SUBSET Nat, LeastNumber
    <3> QED
      BY <2>2, <3>1 DEF Min
  <2> QED
    BY <2>1, <2>2
<1> HIDE DEF k
<1>3. CASE k = 0
    BY <1>1, <1>3
<1>4. CASE k # 0
  <2>1. k \in 1 .. Len(l) /\ l[k].pid = p
    BY <1>2, <1>4
  <2>2. l[k] \in Entries
    BY <2>1
  <2>3. [l[k] EXCEPT !.pid = 0] \in Entries
    BY <2>2 DEF Entries
  <2>4. mark_terminated(l, p) = [l EXCEPT ![k] = [l[k] EXCEPT !.pid = 0]]
    BY <1>1, <1>4
  <2>5. /\ mark_terminated(l, p) \in Seq(Entries)
        /\ Len(mark_terminated(l, p)) = Len(l)
    BY <2>1, <2>3, <2>4, ExceptSeq
  <2>6. ASSUME NEW j \in DOMAIN l
        PROVE  mark_terminated(l, p)[j] = IF j = k THEN [l[k] EXCEPT !.pid = 0] ELSE l[j]
    BY <2>4
  <2>7. /\ [l[k] EXCEPT !.pid = 0].cmd = l[k].cmd /\ [l[k] EXCEPT !.pid = 0].type = l[k].type
        /\ [l[k] EXCEPT !.pid = 0].pid = 0
    BY <2>2 DEF Entries
  <2> HIDE DEF mark_terminated
  <2> QED
    BY <2>1, <2>5, <2>6, <2>7
<1> QED
    BY <1>3, <1>4

\* An entry is taken off the list.
LEMMA RemoveFacts ==
    ASSUME NEW l \in Seq(Entries), NEW k \in DOMAIN l
    PROVE  /\ RemoveAt(l, k) \in Seq(Entries)
           /\ Len(RemoveAt(l, k)) = Len(l) - 1
           /\ \A j \in 1 .. Len(l) - 1 : RemoveAt(l, k)[j] = IF j < k THEN l[j] ELSE l[j + 1]
<1>1. k \in 1 .. Len(l) /\ Len(l) \in Nat
    OBVIOUS
<1>2. /\ SubSeq(l, 1, k - 1) \in Seq(Entries) /\ Len(SubSeq(l, 1, k - 1)) = k - 1
      /\ \A j \in 1 .. k - 1 : SubSeq(l, 1, k - 1)[j] = l[j]
    BY <1>1
<1>3. /\ SubSeq(l, k + 1, Len(l)) \in Seq(Entries)
      /\ Len(SubSeq(l, k + 1, Len(l))) = Len(l) - k
      /\ \A j \in 1 .. Len(l) - k : SubSeq(l, k + 1, Len(l))[j] = l[k + j]
    BY <1>1
<1> DEFINE a == SubSeq(l, 1, k - 1)
           b == SubSeq(l, k + 1, Len(l))
           c == a \o b
<1>4. /\ a \in Seq(Entries) /\ Len(a) = k - 1
      /\ b \in Seq(Entries) /\ Len(b) = Len(l) - k
      /\ \A j \in 1 .. k - 1 : a[j] = l[j]
      /\ \A j \in 1 .. Len(l) - k : b[j] = l[k + j]
    BY <1>2, <1>3
<1>5. RemoveAt(l, k) = c
    BY DEF RemoveAt
<1> HIDE DEF a, b
<1>6. c \in Seq(Entries) /\ Len(c) = Len(a) + Len(b)
    BY <1>4, ConcatProperties
<1>7. \A j \in 1 .. Len(a) + Len(b) : c[j] = IF j <= Len(a) THEN a[j] ELSE b[j - Len(a)]
    BY <1>4, ConcatProperties
<1> HIDE DEF c
<1>8. Len(a) + Len(b) = Len(l) - 1
    BY <1>1, <1>4
<1>9. ASSUME NEW j \in 1 .. Len(l) - 1
      PROVE  c[j] = IF j < k THEN l[j] ELSE l[j + 1]
  <2>0. c[j] = IF j <= Len(a) THEN a[j] ELSE b[j - Len(a)]
    BY <1>7, <1>8
  <2>1. CASE j < k
    <3>1. j <= Len(a) /\ j \in 1 .. k - 1
      BY <1>1, <1>4, <2>1
    <3> QED
      BY <1>4, <2>0, <2>1, <3>1
  <2>2. CASE ~(j < k)
    <3>1. j - (k - 1) \in 1 .. Len(l) - k /\ k + (j - (k - 1)) = j + 1
      BY <1>1, <2>2
    <3>2. ~(j <= Len(a)) /\ Len(a) = k - 1
      BY <1>1, <1>4, <2>2
    <3> QED
      BY <1>4, <2>0, <2>2, <3>1, <3>2
  <2> QED
    BY <2>1, <2>2
<1> QED
    BY <1>5, <1>6, <1>8, <1>9

LEMMA RemovedElsewhere ==
    ASSUME NEW l \in Seq(Entries), NEW r \in DOMAIN l, NEW j \in DOMAIN l, j # r
    PROVE  \E h \in DOMAIN RemoveAt(l, r) : RemoveAt(l, r)[h] = l[j]
<1> DEFINE s == RemoveAt(l, r)
           d == IF j < r THEN j ELSE j - 1
<1>1. /\ s \in Seq(Entries) /\ Len(s) = Len(l) - 1
      /\ \A k \in 1 .. Len(l) - 1 : s[k] = IF k < r THEN l[k] ELSE l[k + 1]
    BY RemoveFacts
<1>2. Len(l) \in Nat /\ r \in 1 .. Len(l) /\ j \in 1 .. Len(l)
    OBVIOUS
<1> HIDE DEF s
<1>3. DOMAIN s = 1 .. Len(l) - 1
    BY <1>1, <1>2
<1>4. d \in 1 .. Len(l) - 1 /\ (IF d < r THEN d = j ELSE d + 1 = j)
    BY <1>2
<1>5. s[d] = l[j]
    BY <1>1, <1>4
<1> QED
    BY <1>3, <1>4, <1>5 DEF s

\* The same commands with the same types, whatever the pids.
SameNames(l, s) ==
    /\ l \in Seq(Entries) /\ s \in Seq(Entries) /\ Len(s) = Len(l)
    /\ \A j \in DOMAIN l : s[j].cmd = l[j].cmd /\ s[j].type = l[j].type

LEMMA NamesFollow ==
    ASSUME NEW l, NEW s, SameNames(l, s), NEW f, NEW n, Follows(l, f, n)
    PROVE  Follows(s, f, n)
<1>1. DOMAIN s = DOMAIN l /\ DOMAIN l = 1 .. Len(l) /\ Len(l) \in Nat
    BY DEF SameNames
<1>2. \A j \in DOMAIN l : \A line : From(s[j], line) <=> From(l[j], line)
    BY DEF SameNames, From, InForce
<1>3. \A j \in DOMAIN l : InForce(s[j]) <=> InForce(l[j])
    BY DEF SameNames, InForce
<1>4. \A j \in DOMAIN l : \A h \in 1 .. j - 1 : h \in DOMAIN l
    BY <1>1
<1> QED
    BY <1>1, <1>2, <1>3, <1>4 DEF Follows

LEMMA NamesOneEach ==
    ASSUME NEW l, NEW s, SameNames(l, s), OneEach(l)
    PROVE  OneEach(s)
BY DEF SameNames, OneEach

\* Taking an entry off the list that is not in force changes nothing.
LEMMA RemoveFollow ==
    ASSUME NEW l \in Seq(Entries), NEW r \in DOMAIN l, ~InForce(l[r]),
           NEW f, NEW n, Follows(l, f, n)
    PROVE  Follows(RemoveAt(l, r), f, n)
<1> DEFINE s == RemoveAt(l, r)
           Up(j) == IF j < r THEN j ELSE j + 1
<1>1. /\ DOMAIN l = 1 .. Len(l) /\ Len(l) \in Nat /\ r \in 1 .. Len(l)
      /\ DOMAIN s = 1 .. Len(l) - 1
      /\ \A j \in DOMAIN s : s[j] = l[Up(j)]
  <2>1. DOMAIN l = 1 .. Len(l) /\ Len(l) \in Nat
    OBVIOUS
  <2>2. /\ s \in Seq(Entries) /\ Len(s) = Len(l) - 1
        /\ \A j \in 1 .. Len(l) - 1 : s[j] = IF j < r THEN l[j] ELSE l[j + 1]
    BY RemoveFacts
  <2> HIDE DEF s
  <2>3. DOMAIN s = 1 .. Len(l) - 1
    BY <2>1, <2>2
  <2>4. ASSUME NEW j \in DOMAIN s PROVE s[j] = l[Up(j)]
    BY <2>2, <2>3
  <2> QED
    BY <2>1, <2>3, <2>4
<1> HIDE DEF s
<1>2. ASSUME NEW k \in 1 .. n, InForce(f[k])
      PROVE  \E j \in DOMAIN s : From(s[j], f[k])
  <2>1. PICK j \in DOMAIN l : From(l[j], f[k])
    BY <1>2 DEF Follows
  <2>2. j # r
    BY <2>1 DEF From
  <2> DEFINE d == IF j < r THEN j ELSE j - 1
  <2>3. d \in DOMAIN s /\ Up(d) = j
    BY <1>1, <2>2
  <2> QED
    BY <1>1, <2>1, <2>3
<1>3. ASSUME NEW j \in DOMAIN s, InForce(s[j])
      PROVE  \E k \in 1 .. n :
                /\ From(s[j], f[k])
                /\ \A h \in 1 .. j - 1, m \in k .. n : ~From(s[h], f[m])
  <2>1. Up(j) \in DOMAIN l /\ s[j] = l[Up(j)]
    BY <1>1
  <2>2. PICK k \in 1 .. n : /\ From(l[Up(j)], f[k])
                            /\ \A h \in 1 .. Up(j) - 1, m \in k .. n : ~From(l[h], f[m])
    BY <1>3, <2>1 DEF Follows
  <2>3. ASSUME NEW h \in 1 .. j - 1 PROVE Up(h) \in 1 .. Up(j) - 1 /\ s[h] = l[Up(h)]
    BY <1>1
  <2> QED
    BY <2>1, <2>2, <2>3
<1> QED
    BY <1>2, <1>3 DEF Follows, s

LEMMA RemoveOneEach ==
    ASSUME NEW l \in Seq(Entries), NEW r \in DOMAIN l, OneEach(l)
    PROVE  /\ OneEach(RemoveAt(l, r))
           /\ \A j \in DOMAIN RemoveAt(l, r) : RemoveAt(l, r)[j].cmd # l[r].cmd
<1> DEFINE s == RemoveAt(l, r)
           Up(j) == IF j < r THEN j ELSE j + 1
<1>1. /\ DOMAIN l = 1 .. Len(l) /\ Len(l) \in Nat /\ r \in 1 .. Len(l)
      /\ DOMAIN s = 1 .. Len(l) - 1
      /\ \A j \in DOMAIN s : s[j] = l[Up(j)]
  <2>1. DOMAIN l = 1 .. Len(l) /\ Len(l) \in Nat
    OBVIOUS
  <2>2. /\ s \in Seq(Entries) /\ Len(s) = Len(l) - 1
        /\ \A j \in 1 .. Len(l) - 1 : s[j] = IF j < r THEN l[j] ELSE l[j + 1]
    BY RemoveFacts
  <2> HIDE DEF s
  <2>3. DOMAIN s = 1 .. Len(l) - 1
    BY <2>1, <2>2
  <2>4. ASSUME NEW j \in DOMAIN s PROVE s[j] = l[Up(j)]
    BY <2>2, <2>3
  <2> QED
    BY <2>1, <2>3, <2>4
<1> HIDE DEF s
<1>2. \A j \in DOMAIN s : Up(j) \in DOMAIN l /\ Up(j) # r
    BY <1>1
<1>3. \A j, k \in DOMAIN s : Up(j) = Up(k) => j = k
    BY <1>1
<1>4. OneEach(s)
    BY <1>1, <1>2, <1>3 DEF OneEach
<1>5. \A j \in DOMAIN s : s[j].cmd # l[r].cmd
    BY <1>1, <1>2 DEF OneEach
<1> QED
    BY <1>4, <1>5 DEF s

-----------------------------------------------------------------------------
(* The file.                                                               *)

LEMMA TableFacts ==
    ASSUME NEW f \in Tables
    PROVE  /\ f \in Seq(Lines) /\ Len(f) \in Nat /\ DOMAIN f = 1 .. Len(f)
           /\ \A k \in DOMAIN f : /\ f[k].cmd \in Cmds /\ f[k].type \in Types
                                  /\ new_init_action(f[k]) \in Entries
           /\ \A j, k \in DOMAIN f : f[j].cmd = f[k].cmd => j = k
<1>1. f \in Seq(Lines) /\ Len(f) \in Nat /\ DOMAIN f = 1 .. Len(f)
    BY InitAssumption
<1>2. \A j, k \in DOMAIN f : f[j].cmd = f[k].cmd => j = k
    BY InitAssumption
<1>3. ASSUME NEW k \in DOMAIN f
      PROVE  /\ f[k].cmd \in Cmds /\ f[k].type \in Types
             /\ new_init_action(f[k]) \in Entries
  <2>1. f[k] \in Lines
    BY <1>1
  <2>2. f[k].cmd \in Cmds
    BY DEF Cmds
  <2> QED
    BY <2>1, <2>2 DEF Lines, new_init_action, Entries
<1> QED
    BY <1>1, <1>2, <1>3

\* The first parse_inittab puts the file into force.
LEMMA ParseFacts ==
    ASSUME NEW f \in Tables
    PROVE  /\ parse_inittab(f) \in Seq(Entries)
           /\ OneEach(parse_inittab(f))
           /\ Follows(parse_inittab(f), f, Len(f))
<1> DEFINE l == parse_inittab(f)
<1>1. /\ DOMAIN l = 1 .. Len(f) /\ Len(f) \in Nat
      /\ \A k \in DOMAIN l : l[k] = new_init_action(f[k]) /\ l[k] \in Entries
      /\ \A j, k \in DOMAIN l : f[j].cmd = f[k].cmd => j = k
    BY TableFacts DEF parse_inittab
<1>2. l = [k \in 1 .. Len(f) |-> l[k]]
    BY TableFacts DEF parse_inittab
<1> HIDE DEF l
<1>3. l \in Seq(Entries)
    BY <1>1, <1>2, IsASeq
<1>4. \A k \in DOMAIN l : l[k].cmd = f[k].cmd /\ l[k].type = f[k].type
    BY <1>1 DEF new_init_action
<1>5. OneEach(l)
    BY <1>1, <1>4 DEF OneEach
<1>6. ASSUME NEW j \in DOMAIN l, InForce(l[j])
      PROVE  \A h \in 1 .. j - 1, m \in j .. Len(f) : ~From(l[h], f[m])
  <2>1. ASSUME NEW h \in 1 .. j - 1, NEW m \in j .. Len(f), From(l[h], f[m]) PROVE FALSE
    <3>1. h \in DOMAIN l /\ m \in DOMAIN l /\ h # m
      BY <1>1
    <3> QED
      BY <1>1, <1>4, <2>1, <3>1 DEF From
  <2> QED
    BY <2>1
<1>7. \A j \in DOMAIN l : InForce(l[j]) => From(l[j], f[j])
    BY <1>4 DEF From
<1>8. \A j \in DOMAIN l : InForce(f[j]) => From(l[j], f[j])
    BY <1>4 DEF From, InForce
<1>9. Follows(l, f, Len(f))
    BY <1>1, <1>6, <1>7, <1>8 DEF Follows
<1> QED
    BY <1>3, <1>5, <1>9 DEF l

\* reload_inittab's next line.
LEMMA AppendFollow ==
    ASSUME NEW l \in Seq(Entries), NEW f \in Tables, NEW k \in DOMAIN f,
           NEW e \in Entries, e.cmd = f[k].cmd, e.type = f[k].type,
           Follows(l, f, k - 1)
    PROVE  Follows(Append(l, e), f, k)
<1> DEFINE s == Append(l, e)
<1>1. /\ DOMAIN l = 1 .. Len(l) /\ Len(l) \in Nat /\ DOMAIN s = 1 .. Len(l) + 1
      /\ s[Len(l) + 1] = e
      /\ \A j \in DOMAIN l : s[j] = l[j]
    OBVIOUS
<1> HIDE DEF s
<1>2. /\ k \in 1 .. Len(f) /\ Len(f) \in Nat
      /\ \A j, m \in 1 .. Len(f) : f[j].cmd = f[m].cmd => j = m
    BY TableFacts
<1>3. ASSUME NEW h \in DOMAIN l, From(l[h], f[k]) PROVE FALSE
  <2>1. PICK m \in 1 .. k - 1 : From(l[h], f[m])
    BY <1>3 DEF Follows, From
  <2>2. m \in 1 .. Len(f) /\ m # k
    BY <1>2
  <2>3. f[m].cmd = f[k].cmd
    BY <1>3, <2>1 DEF From
  <2> QED
    BY <1>2, <2>2, <2>3
<1>4. ASSUME NEW m \in 1 .. k, InForce(f[m])
      PROVE  \E j \in DOMAIN s : From(s[j], f[m])
  <2>1. CASE m = k
    BY <1>1, <1>4, <2>1 DEF From, InForce
  <2>2. CASE m # k
    <3>1. m \in 1 .. k - 1
      BY <1>2, <2>2
    <3>2. PICK j \in DOMAIN l : From(l[j], f[m])
      BY <1>4, <3>1 DEF Follows
    <3> QED
      BY <1>1, <3>2
  <2> QED
    BY <2>1, <2>2
<1>5. ASSUME NEW j \in DOMAIN s, InForce(s[j])
      PROVE  \E m \in 1 .. k :
                /\ From(s[j], f[m])
                /\ \A h \in 1 .. j - 1, o \in m .. k : ~From(s[h], f[o])
  <2>1. CASE j = Len(l) + 1
    <3>1. From(s[j], f[k])
      BY <1>1, <1>5, <2>1 DEF From
    <3>2. ASSUME NEW h \in 1 .. j - 1, NEW o \in k .. k PROVE ~From(s[h], f[o])
      BY <1>1, <1>2, <1>3, <2>1
    <3> QED
      BY <1>2, <3>1, <3>2
  <2>2. CASE j # Len(l) + 1
    <3>1. j \in DOMAIN l /\ s[j] = l[j]
      BY <1>1, <2>2
    <3>2. PICK m \in 1 .. k - 1 :
              /\ From(l[j], f[m])
              /\ \A h \in 1 .. j - 1, o \in m .. k - 1 : ~From(l[h], f[o])
      BY <1>5, <3>1 DEF Follows
    <3>3. ASSUME NEW h \in 1 .. j - 1, NEW o \in m .. k PROVE ~From(s[h], f[o])
      <4>1. h \in DOMAIN l /\ s[h] = l[h]
        BY <1>1, <3>1
      <4>2. CASE o = k
        BY <1>3, <4>1, <4>2
      <4>3. CASE o # k
        <5>1. o \in m .. k - 1
          BY <1>2, <4>3
        <5> QED
          BY <3>2, <4>1, <5>1
      <4> QED
        BY <4>2, <4>3
    <3>4. m \in 1 .. k
      BY <1>2
    <3> QED
      BY <3>1, <3>2, <3>3, <3>4
  <2> QED
    BY <2>1, <2>2
<1> QED
    BY <1>4, <1>5 DEF Follows, s

LEMMA AppendOneEach ==
    ASSUME NEW l \in Seq(Entries), OneEach(l), NEW e \in Entries,
           \A j \in DOMAIN l : l[j].cmd # e.cmd
    PROVE  OneEach(Append(l, e))
<1> DEFINE s == Append(l, e)
<1>1. /\ DOMAIN l = 1 .. Len(l) /\ Len(l) \in Nat /\ DOMAIN s = 1 .. Len(l) + 1
      /\ s[Len(l) + 1] = e
      /\ \A j \in DOMAIN l : s[j] = l[j]
    OBVIOUS
<1> HIDE DEF s
<1>2. \A j \in DOMAIN s : j \in DOMAIN l \/ j = Len(l) + 1
    BY <1>1
<1>3. OneEach(s)
    BY <1>1, <1>2 DEF OneEach
<1> QED
    BY <1>3 DEF s

-----------------------------------------------------------------------------
(* The steps.  Steps that only move init along.                            *)

LEMMA QuietKeeps ==
    ASSUME IInv, UNCHANGED << list, loaded, proc, held >>, TypeOK', Control',
           LinesRead' = LinesRead,
           pc' = "append" <=> pc = "append",
           pc = "assign" => pc' = "assign" /\ got' = got /\ i' = i,
           \A p \in Pids : pc = "wait" /\ got = p /\ Alive(p) => pc' = "wait" /\ got' = p
    PROVE  IInv'
<1>1. Typed'
    BY DEF IInv, Typed
<1>2. Distinct'
    BY DEF IInv, Distinct, OneEach
<1>3. Owned'
  <2> SUFFICES ASSUME NEW p \in Pids, Alive(p), proc[p].as = "respawn"
               PROVE  OwnedBy(p)'
    BY DEF Owned, Alive
  <2>1. OwnedBy(p)
    BY DEF IInv, Owned
  <2> QED
    BY <2>1 DEF OwnedBy
<1>4. WaitedFor'
    BY DEF IInv, WaitedFor, Alive
<1>5. FileInv'
  <2>1. Follows(list, loaded, LinesRead)
    BY DEF IInv, FileInv
  <2> QED
    BY <2>1 DEF FileInv, Follows
<1> QED
    BY <1>1, <1>2, <1>3, <1>4, <1>5 DEF IInv

LEMMA SkipInv == ASSUME IInv, skip_action, UNCHANGED stopped PROVE IInv'
<1>1. /\ UNCHANGED << list, loaded, proc, held, pending, got, phase, doing, why, stopped >>
      /\ pc = "run" /\ pc' = "run" /\ i' = i + 1 /\ i \in Nat
    BY DEF skip_action, Goto, IInv, Typed, TypeOK
<1>2. TypeOK'
    BY <1>1 DEF IInv, Typed, TypeOK
<1>3. Control'
    BY <1>1 DEF IInv, Control
<1>4. LinesRead' = LinesRead
    BY <1>1 DEF LinesRead
<1> QED
    BY <1>1, <1>2, <1>3, <1>4, QuietKeeps

\* Where run_actions goes with a pid, or without one.
LEMMA RunCases ==
    ASSUME IInv, pc = "run", i <= Len(list), Selected(i),
           NEW pid \in Pids \cup {-1}, AfterRun(pid)
    PROVE  /\ i \in DOMAIN list /\ i \in Nat /\ i >= 1
           /\ Wanted \in Types
           /\ \/ /\ pc' = "assign" /\ i' = i /\ got' = pid
                 /\ Wanted = "respawn" /\ list[i].pid = 0 /\ phase # "once"
              \/ /\ pc' = "wait" /\ i' = i /\ got' = pid
                 /\ Wanted \in Waited /\ pid \in Pids /\ phase # "once"
              \/ /\ pc' = "run" /\ i' = i + 1 /\ got' = 0
                 /\ Wanted # "respawn" /\ (Wanted \in Waited => pid \notin Pids)
<1>1. i \in Nat /\ i >= 1 /\ list \in Seq(Entries)
    BY DEF IInv, Typed, TypeOK, Control
<1>2. i \in DOMAIN list
    BY <1>1
<1>3. Wanted \in Types /\ (phase = "once" => Wanted = "once")
    BY DEF IInv, Typed, TypeOK, Control, Wanted, Types, Waited
<1>4. pid \in Pids => pid > 0
    BY InitAssumption
<1>5. pid \notin Pids => ~(pid > 0)
    OBVIOUS
<1>6. CASE Wanted = "respawn"
    BY <1>1, <1>2, <1>3, <1>6 DEF AfterRun, Goto, Selected, Waited
<1>7. CASE Wanted # "respawn" /\ Wanted \in Waited /\ pid \in Pids
    BY <1>1, <1>2, <1>3, <1>4, <1>7 DEF AfterRun, Goto, Waited
<1>8. CASE Wanted # "respawn" /\ ~(Wanted \in Waited /\ pid \in Pids)
    BY <1>1, <1>2, <1>3, <1>4, <1>5, <1>8 DEF AfterRun, Goto, Waited
<1> QED
    BY <1>6, <1>7, <1>8

LEMMA RunFailsInv == ASSUME IInv, run_fails, UNCHANGED stopped PROVE IInv'
<1>1. /\ UNCHANGED << list, loaded, proc, held, pending, phase, doing, why, stopped >>
      /\ pc = "run" /\ i <= Len(list) /\ Selected(i) /\ AfterRun(-1)
    BY DEF run_fails
<1>2. -1 \notin Pids
    BY InitAssumption
<1>3. /\ i \in DOMAIN list /\ i \in Nat /\ i >= 1
      /\ \/ pc' = "assign" /\ i' = i /\ got' = -1 /\ list[i].pid = 0 /\ phase # "once"
         \/ pc' = "run" /\ i' = i + 1 /\ got' = 0
    BY <1>1, <1>2, RunCases
<1>4. TypeOK'
    BY <1>1, <1>3 DEF IInv, Typed, TypeOK
<1>5. Control'
    BY <1>1, <1>3 DEF IInv, Control
<1>6. LinesRead' = LinesRead
    BY <1>1, <1>3 DEF LinesRead
<1> QED
    BY <1>1, <1>3, <1>4, <1>5, <1>6, QuietKeeps

LEMMA NoChildInv == ASSUME IInv, waitfor_no_child, UNCHANGED stopped PROVE IInv'
<1>1. /\ UNCHANGED << list, loaded, proc, held, pending, phase, doing, why, stopped >>
      /\ pc = "wait" /\ pc' = "run" /\ i' = i + 1 /\ got' = 0 /\ i \in Nat
      /\ \A p \in Pids : ~Alive(p)
    BY DEF waitfor_no_child, WaitDone, Goto, Gone, Nobody, Alive, IInv, Typed, TypeOK
<1>2. TypeOK'
    BY <1>1 DEF IInv, Typed, TypeOK
<1>3. Control'
    BY <1>1 DEF IInv, Control
<1>4. LinesRead' = LinesRead
    BY <1>1 DEF LinesRead
<1> QED
    BY <1>1, <1>2, <1>3, <1>4, QuietKeeps

\* After check_delayed_sigs.
LEMMA CheckCases ==
    ASSUME IInv, AfterCheck, phase # "once"
    PROVE  \/ pc' = "run" /\ i' = 1 /\ phase' \in {"wait", "once"}
           \/ pc' = "reap" /\ i' = 0 /\ phase' = "loop"
<1>1. phase \in {"sysinit", "wait", "loop"}
    BY DEF IInv, Typed, TypeOK
<1> QED
    BY <1>1 DEF AfterCheck, Goto

\* Steps that end in AfterCheck and change nothing else of note.
LEMMA CheckKeeps ==
    ASSUME IInv, AfterCheck, phase # "once", doing' = "main", LinesRead = Len(loaded),
           UNCHANGED << list, loaded, proc, held, got, why >>,
           pending' \subseteq pending, stopped' \in BOOLEAN,
           pc \notin {"append", "assign", "wait"}
    PROVE  IInv'
<1>1. \/ pc' = "run" /\ i' = 1 /\ phase' \in {"wait", "once"}
      \/ pc' = "reap" /\ i' = 0 /\ phase' = "loop"
    BY CheckCases
<1>2. TypeOK'
    BY <1>1 DEF IInv, Typed, TypeOK
<1>3. Control'
    BY <1>1 DEF IInv, Control
<1>4. LinesRead' = LinesRead
    BY <1>1 DEF LinesRead
<1> QED
    BY <1>1, <1>2, <1>3, <1>4, QuietKeeps

LEMMA ActionsDoneInv == ASSUME IInv, actions_done, UNCHANGED stopped PROVE IInv'
<1>1. /\ UNCHANGED << list, loaded, pending, proc, got, why, held, stopped >>
      /\ pc = "run"
      /\ doing \in {"main", "ctrlaltdel", "shutdown"}
      /\ phase = "once" => doing = "main"
    BY DEF actions_done, IInv, Typed, TypeOK, Control
<1>2. LinesRead = Len(loaded)
    BY <1>1 DEF LinesRead
<1>3. CASE doing = "ctrlaltdel"
  <2>1. AfterCheck /\ doing' = "main" /\ phase # "once"
    BY <1>1, <1>3 DEF actions_done
  <2> QED
    BY <1>1, <1>2, <2>1, CheckKeeps DEF IInv, Typed, TypeOK
<1>4. CASE doing # "ctrlaltdel"
  <2>1. /\ doing' = doing
        /\ \/ pc' = "kill" /\ i' = 0 /\ phase' = phase /\ phase # "once"
           \/ pc' = "run" /\ i' = 1 /\ phase' = "loop"
           \/ pc' = "check" /\ i' = 0 /\ phase' = phase /\ phase # "once" /\ doing = "main"
    <3>1. CASE doing = "shutdown"
      BY <1>1, <3>1 DEF actions_done, Goto
    <3>2. CASE doing = "main" /\ phase = "once"
      BY <1>1, <3>2 DEF actions_done, Goto
    <3>3. CASE doing = "main" /\ phase # "once"
      BY <1>1, <3>3 DEF actions_done, Goto
    <3> QED
      BY <1>1, <1>4, <3>1, <3>2, <3>3
  <2>2. TypeOK'
    BY <1>1, <2>1 DEF IInv, Typed, TypeOK
  <2>3. Control'
    BY <1>1, <2>1 DEF IInv, Control
  <2>4. LinesRead' = LinesRead
    BY <1>1, <1>2, <2>1 DEF LinesRead
  <2> QED
    BY <1>1, <2>1, <2>2, <2>3, <2>4, QuietKeeps
<1> QED
    BY <1>3, <1>4

LEMMA NoSignalInv == ASSUME IInv, no_signal, UNCHANGED stopped PROVE IInv'
<1>1. /\ UNCHANGED << list, loaded, pending, proc, got, doing, why, held, stopped >>
      /\ pc = "check" /\ AfterCheck
    BY DEF no_signal
<1>2. phase # "once" /\ doing' = "main" /\ stopped' \in BOOLEAN
    BY <1>1 DEF IInv, Typed, TypeOK, Control
<1>3. LinesRead = Len(loaded)
    BY <1>1 DEF LinesRead
<1> QED
    BY <1>1, <1>2, <1>3, CheckKeeps

LEMMA LoopAgainInv == ASSUME IInv, loop_again, UNCHANGED stopped PROVE IInv'
<1>1. /\ UNCHANGED << list, loaded, proc, held, pending, got, phase, doing, why, stopped >>
      /\ pc = "reap" /\ pc' = "run" /\ i' = 1
    BY DEF loop_again, Goto
<1>2. TypeOK'
    BY <1>1 DEF IInv, Typed, TypeOK
<1>3. Control'
    BY <1>1 DEF IInv, Control
<1>4. LinesRead' = LinesRead
    BY <1>1 DEF LinesRead
<1> QED
    BY <1>1, <1>2, <1>3, <1>4, QuietKeeps

LEMMA ParsedInv == ASSUME IInv, reload_parsed, UNCHANGED stopped PROVE IInv'
<1>1. /\ UNCHANGED << list, loaded, proc, held, pending, got, phase, doing, why, stopped >>
      /\ pc = "parse" /\ i > Len(loaded) /\ pc' = "sweep" /\ i' = 1
    BY DEF reload_parsed, Goto
<1>2. TypeOK'
    BY <1>1 DEF IInv, Typed, TypeOK
<1>3. Control'
    BY <1>1 DEF IInv, Control
<1>4. LinesRead' = LinesRead
  <2>1. i \in Nat /\ Len(loaded) \in Nat /\ i <= Len(loaded) + 1
    BY <1>1, TableFacts DEF IInv, Typed, TypeOK, Control
  <2> QED
    BY <1>1, <2>1 DEF LinesRead
<1> QED
    BY <1>1, <1>2, <1>3, <1>4, QuietKeeps

LEMMA ReloadDoneInv == ASSUME IInv, reload_done, UNCHANGED stopped PROVE IInv'
<1>1. /\ UNCHANGED << list, loaded, pending, proc, got, doing, why, held, stopped >>
      /\ pc = "sweep" /\ AfterCheck
    BY DEF reload_done
<1>2. phase # "once" /\ doing' = "main" /\ stopped' \in BOOLEAN
    BY <1>1 DEF IInv, Typed, TypeOK, Control
<1>3. LinesRead = Len(loaded)
    BY <1>1 DEF LinesRead
<1> QED
    BY <1>1, <1>2, <1>3, CheckKeeps

\* SIGTSTP, SIGCONT and the signals that become pending.
LEMMA SigtstpInv == ASSUME IInv, SIGTSTP \/ \E s \in Signals : send(s) PROVE IInv'
<1>1. /\ UNCHANGED << list, loaded, proc, held, got, phase, doing, why, pc, i >>
      /\ pending' \subseteq Signals \cup {"CHLD"} /\ stopped' \in BOOLEAN
    BY DEF SIGTSTP, send, ctl, IInv, Typed, TypeOK
<1>2. TypeOK'
    BY <1>1 DEF IInv, Typed, TypeOK
<1>3. Control'
    BY <1>1 DEF IInv, Control
<1>4. LinesRead' = LinesRead
    BY <1>1 DEF LinesRead
<1> QED
    BY <1>1, <1>2, <1>3, <1>4, QuietKeeps

LEMMA SigcontInv == ASSUME IInv, SIGCONT PROVE IInv'
<1>1. /\ UNCHANGED << list, loaded, pending, proc, got, doing, why, held >>
      /\ stopped' = FALSE
    BY DEF SIGCONT
<1>2. CASE UNCHANGED << pc, i, phase >>
  <2>1. TypeOK'
    BY <1>1, <1>2 DEF IInv, Typed, TypeOK
  <2>2. Control'
    BY <1>1, <1>2 DEF IInv, Control
  <2>3. LinesRead' = LinesRead
    BY <1>1, <1>2 DEF LinesRead
  <2> QED
    BY <1>1, <1>2, <2>1, <2>2, <2>3, QuietKeeps
<1>3. CASE pc = "check" /\ AfterCheck
  <2>1. phase # "once" /\ doing' = "main"
    BY <1>1, <1>3 DEF IInv, Control
  <2>2. LinesRead = Len(loaded)
    BY <1>3 DEF LinesRead
  <2> QED
    BY <1>1, <1>3, <2>1, <2>2, CheckKeeps
<1> QED
    BY <1>2, <1>3 DEF SIGCONT

-----------------------------------------------------------------------------
(* Processes come and go.                                                  *)

LEMMA ProcessOf ==
    ASSUME Typed, NEW p \in Pids
    PROVE  proc[p] \in Processes
BY DEF Typed

LEMMA RunInv == ASSUME IInv, NEW p \in Pids, run(p), UNCHANGED stopped PROVE IInv'
<1>1. /\ UNCHANGED << list, loaded, held, pending, phase, doing, why, stopped >>
      /\ pc = "run" /\ i <= Len(list) /\ Selected(i) /\ AfterRun(p)
      /\ proc' = [proc EXCEPT ![p] = [st |-> "alive", cmd |-> list[i].cmd, as |-> Wanted]]
    BY DEF run
<1>2. /\ i \in DOMAIN list /\ i \in Nat /\ i >= 1 /\ Wanted \in Types
      /\ \/ /\ pc' = "assign" /\ i' = i /\ got' = p
            /\ Wanted = "respawn" /\ list[i].pid = 0 /\ phase # "once"
         \/ /\ pc' = "wait" /\ i' = i /\ got' = p
            /\ Wanted \in Waited /\ phase # "once"
         \/ /\ pc' = "run" /\ i' = i + 1 /\ got' = 0
            /\ Wanted # "respawn" /\ Wanted \notin Waited
    BY <1>1, RunCases
<1>3. /\ list \in Seq(Entries) /\ list[i].cmd \in Cmds
      /\ proc \in [Pids -> Processes]
  <2>1. list \in Seq(Entries) /\ proc \in [Pids -> Processes]
    BY DEF IInv, Typed, TypeOK
  <2>2. list[i] \in Entries
    BY <1>2, <2>1
  <2> QED
    BY <2>1, <2>2 DEF Entries
<1> DEFINE new == [st |-> "alive", cmd |-> list[i].cmd, as |-> Wanted]
<1>4. new \in Processes
    BY <1>2, <1>3 DEF Processes
<1>5. /\ proc' \in [Pids -> Processes]
      /\ proc'[p] = new
      /\ \A q \in Pids : q # p => proc'[q] = proc[q]
    BY <1>1, <1>3, <1>4
<1>6. new.st = "alive" /\ new.cmd = list[i].cmd /\ new.as = Wanted
    OBVIOUS
<1> HIDE DEF new
<1>7. Typed'
  <2>1. \A q \in Pids : proc'[q] \in Processes
    BY <1>5
  <2> QED
    BY <1>1, <1>2, <1>5, <2>1 DEF IInv, Typed, TypeOK, Processes
<1>8. Control'
    BY <1>1, <1>2 DEF IInv, Control
<1>9. Distinct'
    BY <1>1, <1>2 DEF IInv, Distinct, OneEach
<1>10. Owned'
  <2> SUFFICES ASSUME NEW q \in Pids, proc'[q].st = "alive", proc'[q].as = "respawn"
               PROVE  OwnedBy(q)'
    BY DEF Owned, Alive
  <2>1. CASE q = p
    BY <1>1, <1>2, <1>5, <1>6, <2>1 DEF OwnedBy, Waited
  <2>2. CASE q # p
    <3>1. OwnedBy(q)
      BY <1>5, <2>2 DEF IInv, Owned, Alive
    <3>2. \E k \in DOMAIN list : list[k].pid = q /\ list[k].cmd = proc[q].cmd
      BY <1>1, <3>1 DEF OwnedBy
    <3> QED
      BY <1>1, <1>5, <2>2, <3>2 DEF OwnedBy
  <2> QED
    BY <2>1, <2>2
<1>11. WaitedFor'
  <2> SUFFICES ASSUME NEW q \in Pids, proc'[q].st = "alive", proc'[q].as \in Waited
               PROVE  pc' = "wait" /\ got' = q
    BY DEF WaitedFor, Alive
  <2>1. q = p
    BY <1>1, <1>5 DEF IInv, WaitedFor, Alive
  <2> QED
    BY <1>2, <1>5, <1>6, <2>1 DEF Waited
<1>12. FileInv'
  <2>1. LinesRead' = LinesRead
    BY <1>1, <1>2 DEF LinesRead
  <2>2. Follows(list, loaded, LinesRead)
    BY DEF IInv, FileInv
  <2> QED
    BY <1>1, <2>1, <2>2 DEF FileInv, Follows
<1> QED
    BY <1>7, <1>8, <1>9, <1>10, <1>11, <1>12 DEF IInv

LEMMA StorePidInv == ASSUME IInv, store_pid, UNCHANGED stopped PROVE IInv'
<1>1. /\ UNCHANGED << loaded, proc, held, pending, phase, doing, why, stopped >>
      /\ pc = "assign" /\ pc' = "run" /\ i' = i + 1 /\ got' = 0
      /\ list' = [list EXCEPT ![i].pid = got]
    BY DEF store_pid, Goto
<1>2. /\ list \in Seq(Entries) /\ i \in DOMAIN list /\ i \in Nat /\ list[i].pid = 0
      /\ got \in Pids \cup {0, -1}
    BY <1>1 DEF IInv, Typed, TypeOK, Control
<1> DEFINE e == [list[i] EXCEPT !.pid = got]
<1>3. list[i] \in Entries
    BY <1>2
<1>4. e \in Entries /\ e.cmd = list[i].cmd /\ e.type = list[i].type /\ e.pid = got
    BY <1>2, <1>3 DEF Entries
<1>5. list' = [list EXCEPT ![i] = e]
    BY <1>1
<1> HIDE DEF e
<1>6. /\ list' \in Seq(Entries) /\ Len(list') = Len(list) /\ DOMAIN list' = DOMAIN list
      /\ list'[i] = e
      /\ \A j \in DOMAIN list : j # i => list'[j] = list[j]
    BY <1>2, <1>4, <1>5, ExceptSeq
<1>7. SameNames(list, list')
    BY <1>2, <1>4, <1>6 DEF SameNames
<1>8. Typed'
    BY <1>1, <1>2, <1>6 DEF IInv, Typed, TypeOK
<1>9. Control'
    BY <1>1, <1>2 DEF IInv, Control
<1>10. Distinct'
    BY <1>1, <1>7, NamesOneEach DEF IInv, Distinct
<1>11. Owned'
  <2> SUFFICES ASSUME NEW p \in Pids, Alive(p), proc[p].as = "respawn"
               PROVE  OwnedBy(p)'
    BY <1>1 DEF Owned, Alive
  <2>1. OwnedBy(p) /\ p # 0
    BY InitAssumption DEF IInv, Owned
  <2>2. CASE \E k \in DOMAIN list : list[k].pid = p /\ list[k].cmd = proc[p].cmd
    <3>1. PICK k \in DOMAIN list : list[k].pid = p /\ list[k].cmd = proc[p].cmd
      BY <2>2
    <3>2. k # i
      BY <1>2, <2>1, <3>1
    <3> QED
      BY <1>1, <1>6, <3>1, <3>2 DEF OwnedBy
  <2>3. CASE got = p /\ list[i].cmd = proc[p].cmd
    BY <1>1, <1>2, <1>4, <1>6, <2>3 DEF OwnedBy
  <2> QED
    BY <1>1, <2>1, <2>2, <2>3 DEF OwnedBy
<1>12. WaitedFor'
    BY <1>1 DEF IInv, WaitedFor, Alive
<1>13. FileInv'
  <2>1. LinesRead' = Len(loaded) /\ LinesRead = Len(loaded)
    BY <1>1 DEF LinesRead
  <2>2. Follows(list, loaded, Len(loaded))
    BY <2>1 DEF IInv, FileInv
  <2>3. Follows(list', loaded, Len(loaded))
    BY <1>7, <2>2, NamesFollow
  <2> QED
    BY <1>1, <2>1, <2>3 DEF FileInv
<1> QED
    BY <1>8, <1>9, <1>10, <1>11, <1>12, <1>13 DEF IInv

\* A zombie is reaped, by waitfor, by the main loop or by the handler.
LEMMA ReapKeeps ==
    ASSUME IInv, NEW q \in Pids, Reap(q),
           UNCHANGED << loaded, held, pending, phase, doing, why >>,
           stopped' \in BOOLEAN,
           \/ UNCHANGED << pc, i, got >>
           \/ /\ pc = "wait" /\ pc' = "run" /\ i' = i + 1 /\ got' = 0
              /\ q = got \/ Gone(got)
    PROVE  IInv'
<1>1. /\ list \in Seq(Entries) /\ proc \in [Pids -> Processes] /\ i \in Nat
      /\ got \in Pids \cup {0, -1}
    BY DEF IInv, Typed, TypeOK
<1>2. /\ proc' = [proc EXCEPT ![q] = Nobody] /\ list' = mark_terminated(list, q)
      /\ ~Alive(q)
    BY DEF Reap, Zombie, Alive
<1>3. /\ list' \in Seq(Entries) /\ Len(list') = Len(list)
      /\ \A j \in DOMAIN list :
            /\ list'[j].cmd = list[j].cmd /\ list'[j].type = list[j].type
            /\ list'[j].pid = list[j].pid \/ (list[j].pid = q /\ list'[j].pid = 0)
    BY <1>1, <1>2, MarkFacts
<1>4. DOMAIN list' = DOMAIN list /\ SameNames(list, list')
    BY <1>1, <1>3 DEF SameNames
<1>5. /\ proc' \in [Pids -> Processes] /\ proc'[q] = Nobody
      /\ \A p \in Pids : p # q => proc'[p] = proc[p]
    BY <1>1, <1>2 DEF Processes
<1>6. Typed'
  <2>1. \A p \in Pids : proc'[p] \in Processes
    BY <1>5
  <2> QED
    BY <1>1, <1>3, <1>5, <2>1 DEF IInv, Typed, TypeOK, Processes
<1>7. Control'
  <2>1. pc' = "assign" => i' \in DOMAIN list' /\ list'[i'].pid = 0
    BY <1>3, <1>4 DEF IInv, Control
  <2> QED
    BY <1>1, <2>1 DEF IInv, Control
<1>8. Distinct'
  <2>1. OneEach(list')
    BY <1>4, NamesOneEach DEF IInv, Distinct
  <2>2. pc' = "append" => \A j \in DOMAIN list' : list'[j].cmd # held'.cmd
    BY <1>3, <1>4 DEF IInv, Distinct
  <2> QED
    BY <2>1, <2>2 DEF Distinct
<1>9. Owned'
  <2> SUFFICES ASSUME NEW p \in Pids, proc'[p].st = "alive", proc'[p].as = "respawn"
               PROVE  OwnedBy(p)'
    BY DEF Owned, Alive
  <2>1. p # q /\ proc'[p] = proc[p]
    BY <1>5 DEF Nobody
  <2>2. OwnedBy(p)
    BY <2>1 DEF IInv, Owned, Alive
  <2>3. CASE \E k \in DOMAIN list : list[k].pid = p /\ list[k].cmd = proc[p].cmd
    BY <1>3, <1>4, <2>1, <2>3 DEF OwnedBy
  <2>4. CASE pc = "append" /\ held.pid = p /\ held.cmd = proc[p].cmd
    BY <2>1, <2>4 DEF OwnedBy
  <2>5. CASE pc = "assign" /\ got = p /\ list[i].cmd = proc[p].cmd
    <3>1. i \in DOMAIN list /\ i' = i /\ pc' = pc /\ got' = got
      BY <2>5 DEF IInv, Control
    <3> QED
      BY <1>3, <2>1, <2>5, <3>1 DEF OwnedBy
  <2> QED
    BY <2>2, <2>3, <2>4, <2>5 DEF OwnedBy
<1>10. WaitedFor'
  <2> SUFFICES ASSUME NEW p \in Pids, proc'[p].st = "alive", proc'[p].as \in Waited
               PROVE  pc' = "wait" /\ got' = p
    BY DEF WaitedFor, Alive
  <2>1. p # q /\ proc'[p] = proc[p]
    BY <1>5 DEF Nobody
  <2>2. pc = "wait" /\ got = p
    BY <2>1 DEF IInv, WaitedFor, Alive
  <2>3. ~Gone(got)
    BY <2>1, <2>2 DEF Gone, Nobody
  <2> QED
    BY <2>1, <2>2, <2>3
<1>11. FileInv'
  <2>1. LinesRead' = LinesRead
    BY DEF LinesRead
  <2> DEFINE n == LinesRead
  <2>2. Follows(list, loaded, n)
    BY DEF IInv, FileInv
  <2>3. Follows(list', loaded, n)
    BY <1>4, <2>2, NamesFollow
  <2> QED
    BY <2>1, <2>3 DEF FileInv
<1> QED
    BY <1>6, <1>7, <1>8, <1>9, <1>10, <1>11 DEF IInv

LEMMA WaitforInv == ASSUME IInv, NEW p \in Pids, waitfor(p), UNCHANGED stopped PROVE IInv'
BY ReapKeeps DEF waitfor, WaitDone, Goto, IInv, Typed, TypeOK

LEMMA ReapChildInv ==
    ASSUME IInv, NEW p \in Pids, reap_child(p), UNCHANGED stopped PROVE IInv'
BY ReapKeeps DEF reap_child, ctl, IInv, Typed, TypeOK

LEMMA StopHandlerInv == ASSUME IInv, NEW p \in Pids, stop_handler(p) PROVE IInv'
BY ReapKeeps DEF stop_handler, ctl, IInv, Typed, TypeOK

\* Processes that die or become init's children, while init stands still.
LEMMA ProcKeeps ==
    ASSUME IInv, UNCHANGED << list, loaded, held, pc, i, got, phase, doing, why, stopped >>,
           pending' \subseteq Signals \cup {"CHLD"}, proc' \in [Pids -> Processes],
           \A p \in Pids : proc'[p].st = "alive" /\ proc'[p].as \in Types =>
                               proc'[p] = proc[p]
    PROVE  IInv'
<1>1. Typed'
  <2>1. \A p \in Pids : proc'[p] \in Processes
    OBVIOUS
  <2> QED
    BY <2>1 DEF IInv, Typed, TypeOK, Processes
<1>2. Control' /\ Distinct'
    BY DEF IInv, Control, Distinct, OneEach
<1>3. Owned'
  <2> SUFFICES ASSUME NEW p \in Pids, proc'[p].st = "alive", proc'[p].as = "respawn"
               PROVE  OwnedBy(p)'
    BY DEF Owned, Alive
  <2>1. proc'[p] = proc[p]
    BY DEF Types
  <2>2. OwnedBy(p)
    BY <2>1 DEF IInv, Owned, Alive
  <2> QED
    BY <2>1, <2>2 DEF OwnedBy
<1>4. WaitedFor'
  <2> SUFFICES ASSUME NEW p \in Pids, proc'[p].st = "alive", proc'[p].as \in Waited
               PROVE  pc' = "wait" /\ got' = p
    BY DEF WaitedFor, Alive
  <2>1. proc'[p] = proc[p]
    BY DEF Types
  <2> QED
    BY <2>1 DEF IInv, WaitedFor, Alive
<1>5. FileInv'
  <2>1. LinesRead' = LinesRead
    BY DEF LinesRead
  <2>2. Follows(list, loaded, LinesRead)
    BY DEF IInv, FileInv
  <2> QED
    BY <2>1, <2>2 DEF FileInv, Follows
<1> QED
    BY <1>1, <1>2, <1>3, <1>4, <1>5 DEF IInv

LEMMA ExitInv == ASSUME IInv, NEW p \in Pids, exit(p) PROVE IInv'
<1>1. /\ UNCHANGED << list, loaded, held, pc, i, got, phase, doing, why, stopped >>
      /\ Alive(p) /\ proc' = [proc EXCEPT ![p].st = "zombie"]
      /\ pending' \subseteq Signals \cup {"CHLD"}
    BY DEF exit, ctl, IInv, Typed, TypeOK
<1>2. proc \in [Pids -> Processes] /\ proc[p] \in Processes /\ proc[p] # Nobody
    BY <1>1, ProcessOf DEF IInv, Typed, Alive, Nobody
<1> DEFINE z == [proc[p] EXCEPT !.st = "zombie"]
<1>3. z \in Processes /\ z.st = "zombie"
    BY <1>2 DEF Processes
<1>4. proc' = [proc EXCEPT ![p] = z]
    BY <1>1
<1> HIDE DEF z
<1>5. /\ proc' \in [Pids -> Processes] /\ proc'[p] = z
      /\ \A q \in Pids : q # p => proc'[q] = proc[q]
    BY <1>2, <1>3, <1>4
<1>6. \A q \in Pids : proc'[q].st = "alive" => proc'[q] = proc[q]
    BY <1>3, <1>5
<1> QED
    BY <1>1, <1>5, <1>6, ProcKeeps

LEMMA OrphanInv == ASSUME IInv, NEW p \in Pids, orphan(p) PROVE IInv'
<1> DEFINE o == [st |-> "alive", cmd |-> "none", as |-> "orphan"]
<1>1. /\ UNCHANGED << list, loaded, held, pc, i, got, phase, doing, why, stopped >>
      /\ proc' = [proc EXCEPT ![p] = o]
      /\ pending' \subseteq Signals \cup {"CHLD"}
    BY DEF orphan, ctl, IInv, Typed, TypeOK
<1>2. proc \in [Pids -> Processes]
    BY DEF IInv, Typed
<1>3. o \in Processes /\ o.as \notin Types
    BY DEF Processes, Types, Waited
<1> HIDE DEF o
<1>4. /\ proc' \in [Pids -> Processes] /\ proc'[p] = o
      /\ \A q \in Pids : q # p => proc'[q] = proc[q]
    BY <1>1, <1>2, <1>3
<1>5. \A q \in Pids : proc'[q].as \in Types => proc'[q] = proc[q]
    BY <1>3, <1>4
<1> QED
    BY <1>1, <1>4, <1>5, ProcKeeps

\* Nobody is left alive when init goes down or starts again.
LEMMA KillFacts ==
    ASSUME Typed, KillAll
    PROVE  /\ proc' \in [Pids -> Processes]
           /\ \A p \in Pids : proc'[p].st # "alive" /\ proc'[p].as = proc[p].as
<1>1. proc' = [p \in Pids |-> IF proc[p].st = "alive" THEN [proc[p] EXCEPT !.st = "zombie"]
                                                      ELSE proc[p]]
    BY DEF KillAll, Alive
<1>2. ASSUME NEW p \in Pids
      PROVE  proc'[p] \in Processes /\ proc'[p].st # "alive" /\ proc'[p].as = proc[p].as
  <2>1. proc[p] \in Processes
    BY ProcessOf
  <2>2. CASE proc[p].st = "alive"
    BY <1>1, <2>1, <2>2 DEF Processes, Nobody
  <2>3. CASE proc[p].st # "alive"
    BY <1>1, <2>1, <2>3
  <2> QED
    BY <2>2, <2>3
<1> QED
    BY <1>1, <1>2

LEMMA RebootInv == ASSUME IInv, low_level_reboot, UNCHANGED stopped PROVE IInv'
<1>1. /\ UNCHANGED << list, loaded, pending, got, phase, doing, why, held, stopped >>
      /\ pc = "kill" /\ pc' = "down" /\ i' = 0 /\ KillAll
    BY DEF low_level_reboot, Goto
<1>2. /\ proc' \in [Pids -> Processes]
      /\ \A p \in Pids : proc'[p].st # "alive" /\ proc'[p] \in Processes
    BY <1>1, KillFacts DEF IInv
<1>3. Typed'
    BY <1>1, <1>2 DEF IInv, Typed, TypeOK, Processes
<1>4. Control' /\ Distinct'
    BY <1>1 DEF IInv, Control, Distinct, OneEach
<1>5. Owned' /\ WaitedFor'
    BY <1>2 DEF Owned, WaitedFor, Alive
<1>6. FileInv'
  <2>1. LinesRead' = LinesRead
    BY <1>1 DEF LinesRead
  <2>2. Follows(list, loaded, LinesRead)
    BY DEF IInv, FileInv
  <2> QED
    BY <1>1, <2>1, <2>2 DEF FileInv, Follows
<1> QED
    BY <1>3, <1>4, <1>5, <1>6 DEF IInv

LEMMA RestartInv == ASSUME IInv, exec_restart, UNCHANGED stopped PROVE IInv'
<1>1. /\ UNCHANGED << pending, got, held, stopped >>
      /\ pc = "kill" /\ pc' = "run" /\ i' = 1 /\ KillAll
      /\ loaded' \in Tables /\ list' = parse_inittab(loaded')
      /\ phase' = "sysinit" /\ doing' = "main" /\ why' = "none"
    BY DEF exec_restart, Goto
<1>2. /\ proc' \in [Pids -> Processes]
      /\ \A p \in Pids : proc'[p].st # "alive" /\ proc'[p] \in Processes
    BY <1>1, KillFacts DEF IInv
<1>3. /\ list' \in Seq(Entries) /\ OneEach(list')
      /\ Follows(list', loaded', Len(loaded'))
    BY <1>1, ParseFacts
<1>4. Typed'
    BY <1>1, <1>2, <1>3 DEF IInv, Typed, TypeOK, Processes
<1>5. Control' /\ Distinct'
    BY <1>1, <1>3 DEF IInv, Control, Distinct
<1>6. Owned' /\ WaitedFor'
    BY <1>2 DEF Owned, WaitedFor, Alive
<1>7. FileInv'
    BY <1>1, <1>3 DEF FileInv, LinesRead
<1> QED
    BY <1>4, <1>5, <1>6, <1>7 DEF IInv

-----------------------------------------------------------------------------
(* Signals and the reload of inittab.                                      *)

\* SIGHUP: the entries are disabled, and the file is read.
LEMMA HangupInv ==
    ASSUME IInv, pc = "check", NEW s \in pending, pending' = pending \ {s},
           list' = [k \in DOMAIN list |-> [list[k] EXCEPT !.type = "none"]],
           loaded' \in Tables, pc' = "parse", i' = 1,
           UNCHANGED << phase, doing, why, proc, got, held, stopped >>
    PROVE  IInv'
<1>1. list \in Seq(Entries) /\ DOMAIN list = 1 .. Len(list) /\ Len(list) \in Nat
    BY DEF IInv, Typed, TypeOK
<1>2. ASSUME NEW k \in DOMAIN list
      PROVE  /\ list'[k] \in Entries /\ list'[k].cmd = list[k].cmd
             /\ list'[k].pid = list[k].pid /\ list'[k].type = "none"
  <2>1. list[k] \in Entries
    BY <1>1
  <2>2. list'[k] = [list[k] EXCEPT !.type = "none"]
    OBVIOUS
  <2> QED
    BY <2>1, <2>2 DEF Entries
<1>3. list' \in Seq(Entries) /\ DOMAIN list' = DOMAIN list
  <2>1. list' = [k \in 1 .. Len(list) |-> list'[k]]
    BY <1>1
  <2>2. \A k \in 1 .. Len(list) : list'[k] \in Entries
    BY <1>1, <1>2
  <2>3. list' \in Seq(Entries)
    BY <1>1, <2>1, <2>2, IsASeq
  <2> QED
    BY <2>3
<1>4. Typed'
    BY <1>3 DEF IInv, Typed, TypeOK
<1>5. Control'
  <2>1. Len(loaded') \in Nat
    BY TableFacts
  <2> QED
    BY <2>1 DEF IInv, Control
<1>6. Distinct'
    BY <1>2, <1>3 DEF IInv, Distinct, OneEach
<1>7. Owned'
  <2> SUFFICES ASSUME NEW p \in Pids, Alive(p), proc[p].as = "respawn"
               PROVE  OwnedBy(p)'
    BY DEF Owned, Alive
  <2>1. OwnedBy(p)
    BY DEF IInv, Owned
  <2> QED
    BY <1>2, <1>3, <2>1 DEF OwnedBy
<1>8. WaitedFor'
    BY DEF IInv, WaitedFor, Alive
<1>9. FileInv'
  <2>1. LinesRead' = 0
    BY DEF LinesRead
  <2>2. \A k \in DOMAIN list' : ~InForce(list'[k])
    BY <1>2, <1>3 DEF InForce
  <2>3. Follows(list', loaded', 0)
    BY <2>2 DEF Follows
  <2> QED
    BY <2>1, <2>3 DEF FileInv
<1> QED
    BY <1>4, <1>5, <1>6, <1>7, <1>8, <1>9 DEF IInv

\* SIGINT, or the head of a shutdown: run_actions begins.
LEMMA BeginInv ==
    ASSUME IInv, pc = "check", pc' = "run", i' = 1, pending' \subseteq pending,
           doing' \in {"ctrlaltdel", "shutdown"}, why' \in {"none", "restart", "halt"},
           UNCHANGED << list, loaded, phase, proc, got, held, stopped >>
    PROVE  IInv'
<1>1. phase # "once"
    BY DEF IInv, Control
<1>2. TypeOK'
    BY DEF IInv, Typed, TypeOK
<1>3. Control'
    BY <1>1 DEF IInv, Control
<1>4. LinesRead' = LinesRead
    BY DEF LinesRead
<1> QED
    BY <1>2, <1>3, <1>4, QuietKeeps

LEMMA SignalInv == ASSUME IInv, NEW s \in pending, signal(s), UNCHANGED stopped PROVE IInv'
<1>1. /\ pc = "check" /\ UNCHANGED << proc, got, held, stopped >>
      /\ doing = "main" /\ phase # "once" /\ stopped' \in BOOLEAN
      /\ why \in {"none", "restart", "halt"}
    BY DEF signal, IInv, Typed, TypeOK, Control
<1>2. CASE s = "HUP"
    BY <1>1, <1>2, HangupInv DEF signal, Goto
<1>3. CASE s = "INT"
    BY <1>1, <1>3, BeginInv DEF signal, Goto
<1>4. CASE s = "TERM"
    BY <1>1, <1>4, BeginInv DEF signal, Shutdown, Goto
<1>5. CASE s = "QUIT" /\ \E k \in DOMAIN list : list[k].type = "restart"
    BY <1>1, <1>5, BeginInv DEF signal, Shutdown, Goto
<1>6. CASE s \notin {"HUP", "INT", "TERM"} /\
           ~(s = "QUIT" /\ \E k \in DOMAIN list : list[k].type = "restart")
  <2>1. /\ pending' = pending \ {s} /\ AfterCheck
        /\ UNCHANGED << list, loaded, doing, why >>
    BY <1>6 DEF signal
  <2>2. LinesRead = Len(loaded)
    BY <1>1 DEF LinesRead
  <2> QED
    BY <1>1, <2>1, <2>2, CheckKeeps
<1> QED
    BY <1>2, <1>3, <1>4, <1>5, <1>6

\* A line of the file for which the list has no entry.
LEMMA NewLineInv ==
    ASSUME IInv, pc = "parse", i <= Len(loaded), Match(list, loaded[i]) = 0,
           list' = Append(list, new_init_action(loaded[i])), pc' = "parse", i' = i + 1,
           UNCHANGED << held, loaded, pending, proc, got, phase, doing, why, stopped >>
    PROVE  IInv'
<1>1. /\ list \in Seq(Entries) /\ loaded \in Tables /\ i \in Nat /\ i >= 1
      /\ OneEach(list) /\ Follows(list, loaded, i - 1)
    BY DEF IInv, Typed, TypeOK, Control, Distinct, FileInv, LinesRead
<1>2. i \in DOMAIN loaded /\ Len(loaded) \in Nat
    BY <1>1, TableFacts
<1> DEFINE e == new_init_action(loaded[i])
<1>3. /\ e \in Entries /\ e.cmd = loaded[i].cmd /\ e.type = loaded[i].type
    BY <1>1, <1>2, TableFacts DEF new_init_action
<1>4. \A j \in DOMAIN list : list[j].cmd # e.cmd
    BY <1>1, <1>3, MatchFacts
<1>5. list' = Append(list, e)
    OBVIOUS
<1> HIDE DEF e
<1>6. /\ list' \in Seq(Entries) /\ OneEach(list') /\ Follows(list', loaded, i)
    BY <1>1, <1>2, <1>3, <1>4, <1>5, AppendOneEach, AppendFollow
<1>7. \A j \in DOMAIN list : j \in DOMAIN list' /\ list'[j] = list[j]
    BY <1>1, <1>3, <1>5
<1>8. Typed'
    BY <1>1, <1>6 DEF IInv, Typed, TypeOK
<1>9. Control'
    BY <1>1, <1>2 DEF IInv, Control
<1>10. Distinct'
    BY <1>6 DEF Distinct
<1>11. Owned'
  <2> SUFFICES ASSUME NEW p \in Pids, Alive(p), proc[p].as = "respawn"
               PROVE  OwnedBy(p)'
    BY DEF Owned, Alive
  <2>1. OwnedBy(p)
    BY DEF IInv, Owned
  <2> QED
    BY <1>7, <2>1 DEF OwnedBy
<1>12. WaitedFor'
    BY DEF IInv, WaitedFor, Alive
<1>13. FileInv'
  <2>1. LinesRead' = i
    BY <1>1 DEF LinesRead
  <2> QED
    BY <1>6, <2>1 DEF FileInv
<1> QED
    BY <1>8, <1>9, <1>10, <1>11, <1>12, <1>13 DEF IInv

\* A line for which it has one: the entry is taken off the list.
LEMMA MovedLineInv ==
    ASSUME IInv, pc = "parse", i <= Len(loaded), NEW k, k = Match(list, loaded[i]), k # 0,
           list' = RemoveAt(list, k), held' = list[k], pc' = "append", i' = i,
           UNCHANGED << loaded, pending, proc, got, phase, doing, why, stopped >>
    PROVE  IInv'
<1>1. /\ list \in Seq(Entries) /\ loaded \in Tables /\ i \in Nat /\ i >= 1
      /\ OneEach(list) /\ Follows(list, loaded, i - 1) /\ doing = "main" /\ phase # "once"
    BY DEF IInv, Typed, TypeOK, Control, Distinct, FileInv, LinesRead
<1>2. /\ i \in DOMAIN loaded /\ i \in 1 .. Len(loaded) /\ Len(loaded) \in Nat
      /\ \A j, m \in 1 .. Len(loaded) : loaded[j].cmd = loaded[m].cmd => j = m
    BY <1>1, TableFacts
<1>3. k \in DOMAIN list /\ list[k].cmd = loaded[i].cmd
    BY <1>1, MatchFacts
<1>4. list[k] \in Entries
    BY <1>1, <1>3
<1>5. ~InForce(list[k])
  <2> SUFFICES ASSUME InForce(list[k]) PROVE FALSE
    OBVIOUS
  <2>1. PICK m \in 1 .. i - 1 : From(list[k], loaded[m])
    BY <1>1, <1>3 DEF Follows
  <2>2. m \in 1 .. Len(loaded) /\ m # i
    BY <1>2
  <2> QED
    BY <1>2, <1>3, <2>1, <2>2 DEF From
<1>6. /\ list' \in Seq(Entries) /\ OneEach(list') /\ Follows(list', loaded, i - 1)
      /\ \A j \in DOMAIN list' : list'[j].cmd # list[k].cmd
    BY <1>1, <1>3, <1>5, RemoveFacts, RemoveOneEach, RemoveFollow
<1>7. \A j \in DOMAIN list : j # k => \E h \in DOMAIN list' : list'[h] = list[j]
    BY <1>1, <1>3, RemovedElsewhere
<1>8. Typed'
    BY <1>4, <1>6 DEF IInv, Typed, TypeOK
<1>9. Control'
    BY <1>1, <1>2, <1>3, <1>4 DEF Control
<1>10. Distinct'
    BY <1>6 DEF Distinct
<1>11. Owned'
  <2> SUFFICES ASSUME NEW p \in Pids, Alive(p), proc[p].as = "respawn"
               PROVE  OwnedBy(p)'
    BY DEF Owned, Alive
  <2>1. OwnedBy(p)
    BY DEF IInv, Owned
  <2>2. PICK j \in DOMAIN list : list[j].pid = p /\ list[j].cmd = proc[p].cmd
    BY <2>1 DEF OwnedBy
  <2>3. CASE j = k
    BY <2>2, <2>3 DEF OwnedBy
  <2>4. CASE j # k
    BY <1>7, <2>2, <2>4 DEF OwnedBy
  <2> QED
    BY <2>3, <2>4
<1>12. WaitedFor'
    BY DEF IInv, WaitedFor, Alive
<1>13. FileInv'
  <2>1. LinesRead' = i - 1
    BY <1>1 DEF LinesRead
  <2> QED
    BY <1>6, <2>1 DEF FileInv
<1> QED
    BY <1>8, <1>9, <1>10, <1>11, <1>12, <1>13 DEF IInv

LEMMA ReloadLineInv == ASSUME IInv, reload_line, UNCHANGED stopped PROVE IInv'
<1> DEFINE k == Match(list, loaded[i])
<1>1. /\ pc = "parse" /\ i <= Len(loaded)
      /\ UNCHANGED << loaded, pending, proc, got, phase, doing, why, stopped >>
    BY DEF reload_line
<1>2. CASE /\ k = 0 /\ list' = Append(list, new_init_action(loaded[i]))
           /\ pc' = "parse" /\ i' = i + 1 /\ held' = held
    BY <1>1, <1>2, NewLineInv
<1>3. CASE /\ k # 0 /\ list' = RemoveAt(list, k) /\ held' = list[k]
           /\ pc' = "append" /\ i' = i
    BY <1>1, <1>3, MovedLineInv
<1> QED
    BY <1>2, <1>3 DEF reload_line, Goto

LEMMA ReloadAppendInv == ASSUME IInv, reload_append, UNCHANGED stopped PROVE IInv'
<1>1. /\ UNCHANGED << loaded, pending, proc, got, phase, doing, why, stopped >>
      /\ pc = "append" /\ pc' = "parse" /\ i' = i + 1 /\ held' = NoEntry
      /\ list' = Append(list, [held EXCEPT !.type = loaded[i].type])
    BY DEF reload_append, Goto
<1>2. /\ list \in Seq(Entries) /\ loaded \in Tables /\ i \in Nat /\ i >= 1
      /\ OneEach(list) /\ Follows(list, loaded, i - 1) /\ i \in DOMAIN loaded
      /\ held \in Entries /\ held.cmd = loaded[i].cmd
      /\ \A j \in DOMAIN list : list[j].cmd # held.cmd
    BY <1>1 DEF IInv, Typed, TypeOK, Control, Distinct, FileInv, LinesRead
<1>3. i \in 1 .. Len(loaded) /\ Len(loaded) \in Nat /\ loaded[i].type \in Types
    BY <1>2, TableFacts
<1> DEFINE e == [held EXCEPT !.type = loaded[i].type]
<1>4. /\ e \in Entries /\ e.cmd = held.cmd /\ e.type = loaded[i].type /\ e.pid = held.pid
    BY <1>2, <1>3 DEF Entries
<1>5. list' = Append(list, e)
    BY <1>1
<1> HIDE DEF e
<1>6. /\ list' \in Seq(Entries) /\ OneEach(list') /\ Follows(list', loaded, i)
    BY <1>2, <1>4, <1>5, AppendOneEach, AppendFollow
<1>7. /\ \A j \in DOMAIN list : j \in DOMAIN list' /\ list'[j] = list[j]
      /\ Len(list) + 1 \in DOMAIN list' /\ list'[Len(list) + 1] = e
    BY <1>2, <1>4, <1>5
<1>8. Typed'
    BY <1>1, <1>2, <1>6 DEF IInv, Typed, TypeOK
<1>9. Control'
    BY <1>1, <1>2, <1>3 DEF IInv, Control
<1>10. Distinct'
    BY <1>1, <1>6 DEF Distinct
<1>11. Owned'
  <2> SUFFICES ASSUME NEW p \in Pids, Alive(p), proc[p].as = "respawn"
               PROVE  OwnedBy(p)'
    BY <1>1 DEF Owned, Alive
  <2>1. OwnedBy(p)
    BY DEF IInv, Owned
  <2> QED
    BY <1>1, <1>4, <1>7, <2>1 DEF OwnedBy
<1>12. WaitedFor'
    BY <1>1 DEF IInv, WaitedFor, Alive
<1>13. FileInv'
  <2>1. LinesRead' = i
    BY <1>1, <1>2 DEF LinesRead
  <2> QED
    BY <1>1, <1>6, <2>1 DEF FileInv
<1> QED
    BY <1>8, <1>9, <1>10, <1>11, <1>12, <1>13 DEF IInv

LEMMA SweepInv ==
    ASSUME IInv, NEW k \in DOMAIN list, reload_sweep(k), UNCHANGED stopped PROVE IInv'
<1>1. /\ UNCHANGED << loaded, pending, proc, got, phase, doing, why, held, stopped >>
      /\ pc = "sweep" /\ pc' = "sweep" /\ i' = k /\ i <= k
      /\ Stale(list[k]) /\ list' = RemoveAt(list, k)
    BY DEF reload_sweep, Goto
<1>2. /\ list \in Seq(Entries) /\ i \in Nat /\ i >= 1
      /\ OneEach(list) /\ Follows(list, loaded, Len(loaded))
    BY <1>1 DEF IInv, Typed, TypeOK, Control, Distinct, FileInv, LinesRead
<1>3. ~InForce(list[k]) /\ list[k].pid = 0 /\ k \in Nat /\ k >= 1
    BY <1>1, <1>2 DEF Stale, InForce
<1>4. /\ list' \in Seq(Entries) /\ OneEach(list') /\ Follows(list', loaded, Len(loaded))
    BY <1>1, <1>2, <1>3, RemoveFacts, RemoveOneEach, RemoveFollow
<1>5. \A j \in DOMAIN list : j # k => \E h \in DOMAIN list' : list'[h] = list[j]
    BY <1>1, <1>2, RemovedElsewhere
<1>6. Typed'
    BY <1>1, <1>3, <1>4 DEF IInv, Typed, TypeOK
<1>7. Control'
    BY <1>1, <1>3 DEF IInv, Control
<1>8. Distinct'
    BY <1>1, <1>4 DEF Distinct
<1>9. Owned'
  <2> SUFFICES ASSUME NEW p \in Pids, Alive(p), proc[p].as = "respawn"
               PROVE  OwnedBy(p)'
    BY <1>1 DEF Owned, Alive
  <2>1. OwnedBy(p) /\ p # 0
    BY InitAssumption DEF IInv, Owned
  <2>2. PICK j \in DOMAIN list : list[j].pid = p /\ list[j].cmd = proc[p].cmd
    BY <1>1, <2>1 DEF OwnedBy
  <2>3. j # k
    BY <1>3, <2>1, <2>2
  <2> QED
    BY <1>1, <1>5, <2>2, <2>3 DEF OwnedBy
<1>10. WaitedFor'
    BY <1>1 DEF IInv, WaitedFor, Alive
<1>11. FileInv'
    BY <1>1, <1>4 DEF FileInv, LinesRead
<1> QED
    BY <1>6, <1>7, <1>8, <1>9, <1>10, <1>11 DEF IInv

-----------------------------------------------------------------------------
LEMMA InitInv == Init => IInv
<1> SUFFICES ASSUME Init PROVE IInv
    OBVIOUS
<1>1. /\ list \in Seq(Entries) /\ OneEach(list) /\ Follows(list, loaded, Len(loaded))
    BY ParseFacts DEF Init
<1>2. \A p \in Pids : proc[p] = Nobody
    BY DEF Init
<1>3. Typed
    BY <1>1, <1>2 DEF Init, Typed, TypeOK, Processes
<1>4. Control /\ Distinct
    BY <1>1 DEF Init, Control, Distinct
<1>5. Owned /\ WaitedFor
    BY <1>2 DEF Owned, WaitedFor, Alive, Nobody
<1>6. FileInv
    BY <1>1 DEF Init, FileInv, LinesRead
<1> QED
    BY <1>3, <1>4, <1>5, <1>6 DEF IInv

LEMMA StutterInv == ASSUME IInv, UNCHANGED vars PROVE IInv'
<1>1. /\ UNCHANGED << list, loaded, proc, held, pending, got, phase, doing, why, stopped >>
      /\ pc' = pc /\ i' = i
    BY DEF vars, ctl
<1>2. TypeOK'
    BY <1>1 DEF IInv, Typed, TypeOK
<1>3. Control'
    BY <1>1 DEF IInv, Control
<1>4. LinesRead' = LinesRead
    BY <1>1 DEF LinesRead
<1> QED
    BY <1>1, <1>2, <1>3, <1>4, QuietKeeps

LEMMA MainInv == ASSUME IInv, Main PROVE IInv'
<1>1. CASE skip_action
    BY <1>1, SkipInv DEF Main
<1>2. CASE run_fails
    BY <1>2, RunFailsInv DEF Main
<1>3. CASE store_pid
    BY <1>3, StorePidInv DEF Main
<1>4. CASE waitfor_no_child
    BY <1>4, NoChildInv DEF Main
<1>5. CASE actions_done
    BY <1>5, ActionsDoneInv DEF Main
<1>6. CASE no_signal
    BY <1>6, NoSignalInv DEF Main
<1>7. CASE loop_again
    BY <1>7, LoopAgainInv DEF Main
<1>8. CASE reload_line
    BY <1>8, ReloadLineInv DEF Main
<1>9. CASE reload_append
    BY <1>9, ReloadAppendInv DEF Main
<1>10. CASE reload_parsed
    BY <1>10, ParsedInv DEF Main
<1>11. CASE reload_done
    BY <1>11, ReloadDoneInv DEF Main
<1>12. CASE low_level_reboot
    BY <1>12, RebootInv DEF Main
<1>13. CASE exec_restart
    BY <1>13, RestartInv DEF Main
<1>14. ASSUME NEW p \in Pids, run(p) \/ waitfor(p) \/ reap_child(p) PROVE IInv'
    BY <1>14, RunInv, WaitforInv, ReapChildInv DEF Main
<1>15. ASSUME NEW s \in pending, signal(s) PROVE IInv'
    BY <1>15, SignalInv DEF Main
<1>16. ASSUME NEW k \in DOMAIN list, reload_sweep(k) PROVE IInv'
    BY <1>16, SweepInv DEF Main
<1> QED
    BY <1>1, <1>2, <1>3, <1>4, <1>5, <1>6, <1>7, <1>8, <1>9, <1>10, <1>11, <1>12,
       <1>13, <1>14, <1>15, <1>16 DEF Main

LEMMA StepInv == IInv /\ [Next]_vars => IInv'
<1> SUFFICES ASSUME IInv, [Next]_vars PROVE IInv'
    OBVIOUS
<1>1. CASE Main
    BY <1>1, MainInv
<1>2. CASE Handler
    BY <1>2, SigcontInv, StopHandlerInv DEF Handler
<1>3. CASE Others
    BY <1>3, SigtstpInv, ExitInv, OrphanInv DEF Others
<1>4. CASE UNCHANGED vars
    BY <1>4, StutterInv
<1> QED
    BY <1>1, <1>2, <1>3, <1>4 DEF Next, halted

LEMMA Invariance == Spec => []IInv
BY InitInv, StepInv, PTL DEF Spec

-----------------------------------------------------------------------------
(* The theorems.                                                           *)

\* The list holds entries of the files that were read, with pids init was
\* given, and init's own variables stay in their types.
THEOREM TypeCorrect == Spec => []TypeOK
<1>1. IInv => TypeOK
    BY DEF IInv, Typed
<1> QED
    BY Invariance, <1>1, PTL

\* Tracked: a running RESPAWN process is never lost, whatever deaths, reloads and
\* SIGTSTP come between run() and a->pid, or while its entry is moved.
THEOREM NobodyLost == Spec => []Tracked
<1>1. IInv => Tracked
    BY DEF IInv, Owned, OwnedBy, Tracked
<1> QED
    BY Invariance, <1>1, PTL

\* NoDuplicate: a command of a RESPAWN entry runs once, also after its line was
\* removed from inittab and added again.
THEOREM RunsOnce == Spec => []NoDuplicate
<1>1. IInv => NoDuplicate
  <2> SUFFICES ASSUME IInv, NEW p \in Pids, NEW q \in Pids,
                      Alive(p), proc[p].as = "respawn", Alive(q), proc[q].as = "respawn",
                      proc[p].cmd = proc[q].cmd
               PROVE  p = q
    BY DEF NoDuplicate
  <2>1. OwnedBy(p) /\ OwnedBy(q) /\ p # 0 /\ q # 0
    BY InitAssumption DEF IInv, Owned
  <2>2. pc = "assign" => i \in DOMAIN list /\ list[i].pid = 0
    BY DEF IInv, Control
  <2>3. \A j, k \in DOMAIN list : list[j].cmd = list[k].cmd => j = k
    BY DEF IInv, Distinct, OneEach
  <2>4. pc = "append" => \A j \in DOMAIN list : list[j].cmd # held.cmd
    BY DEF IInv, Distinct
  <2> QED
    BY <2>1, <2>2, <2>3, <2>4 DEF OwnedBy
<1> QED
    BY Invariance, <1>1, PTL

\* ListMatchesFile: what is in force after a reload is what the file says, in its
\* order.
THEOREM ReloadIsExact == Spec => []ListMatchesFile
<1>1. IInv => ListMatchesFile
  <2> SUFFICES ASSUME IInv, pc \notin {"parse", "append"}
               PROVE  /\ \A k \in DOMAIN loaded :
                            InForce(loaded[k]) => \E j \in DOMAIN list : Made(j, k)
                      /\ \A j \in DOMAIN list : InForce(list[j]) =>
                            \E k \in DOMAIN loaded :
                               /\ Made(j, k)
                               /\ \A h \in 1 .. j - 1, m \in k .. Len(loaded) : ~Made(h, m)
    BY DEF ListMatchesFile
  <2>1. Follows(list, loaded, Len(loaded)) /\ DOMAIN loaded = 1 .. Len(loaded)
    BY TableFacts DEF IInv, FileInv, LinesRead, Typed, TypeOK
  <2> QED
    BY <2>1 DEF Follows, From, Made
<1> QED
    BY Invariance, <1>1, PTL

\* StagesInOrder: while a SYSINIT, WAIT, CTRLALTDEL or SHUTDOWN process runs, init
\* starts nothing and kills nobody, whoever reaps its children.
THEOREM StagesKeptApart == Spec => StagesInOrder
<1> DEFINE A == \A q \in Pids : Alive(q) /\ proc[q].as \in Waited =>
                    /\ \A p \in Pids : Gone(p) => proc'[p].as \notin Types
                    /\ pc # "kill"
<1>1. IInv /\ [Next]_vars => [A]_vars
  <2> SUFFICES ASSUME IInv, Next, NEW q \in Pids, Alive(q), proc[q].as \in Waited
               PROVE  /\ \A p \in Pids : Gone(p) => proc'[p].as \notin Types
                      /\ pc # "kill"
    OBVIOUS
  <2>1. pc = "wait" /\ got = q
    BY DEF IInv, WaitedFor
  <2> SUFFICES ASSUME NEW p \in Pids, Gone(p) PROVE proc'[p].as \notin Types
    BY <2>1
  <2>2. proc \in [Pids -> Processes] /\ proc[p].as \notin Types
    BY DEF IInv, Typed, Gone, Nobody, Types, Waited
  <2>3. CASE UNCHANGED proc
    BY <2>2, <2>3
  <2>4. ASSUME NEW z \in Pids, Reap(z) PROVE proc'[p].as \notin Types
    BY <2>2, <2>4 DEF Reap, Nobody, Types, Waited
  <2>5. ASSUME NEW z \in Pids, exit(z) PROVE proc'[p].as \notin Types
    <3>1. z # p /\ proc' = [proc EXCEPT ![z].st = "zombie"]
      BY <2>5 DEF exit, Alive, Gone, Nobody
    <3> QED
      BY <2>2, <3>1
  <2>6. ASSUME NEW z \in Pids, orphan(z) PROVE proc'[p].as \notin Types
    BY <2>2, <2>6 DEF orphan, Types, Waited
  <2>7. Main => UNCHANGED proc \/ \E z \in Pids : Reap(z)
    BY <2>1 DEF Main, skip_action, run_fails, store_pid, waitfor_no_child, actions_done,
                no_signal, loop_again, reload_line, reload_append, reload_parsed,
                reload_done, low_level_reboot, exec_restart, run, waitfor, reap_child,
                signal, reload_sweep
  <2>8. Handler => UNCHANGED proc \/ \E z \in Pids : Reap(z)
    BY DEF Handler, SIGCONT, stop_handler
  <2>9. Others => UNCHANGED proc \/ \E z \in Pids : exit(z) \/ orphan(z)
    BY DEF Others, SIGTSTP, send
  <2>10. halted => UNCHANGED proc
    BY DEF halted, vars
  <2> QED
    BY <2>3, <2>4, <2>5, <2>6, <2>7, <2>8, <2>9, <2>10 DEF Next
<1> QED
    BY Invariance, <1>1, PTL DEF Spec, StagesInOrder

-----------------------------------------------------------------------------
(* No death is slept over.                                                 *)

\* Some entry has the pid p, or is about to get it.
Has(p) ==
    \/ \E k \in DOMAIN list : list[k].pid = p
    \/ held.pid = p
    \/ pc = "assign" /\ got = p

\* The waitpid loop comes before init waits for a signal again.
ReapComes ==
    phase = "loop" /\ (pc \in {"parse", "append", "sweep", "reap"} \/ doing = "ctrlaltdel")

GoingDown == doing = "shutdown" \/ pc = "down"

\* A process that has an entry was started by the main loop; when it is dead and
\* not yet waited for, SIGCHLD is pending or the waitpid loop comes first.
DeathKnown(p) ==
    Has(p) => /\ phase = "loop"
              /\ Zombie(p) => "CHLD" \in pending \/ ReapComes \/ GoingDown

\* When sigtimedwait has nothing to say of a dead child, no entry has its pid: init
\* does not go to sleep over the death of a process it has to restart.
SleepsOverNobody ==
    pc = "check" /\ "CHLD" \notin pending =>
        \A k \in DOMAIN list : \A p \in Pids : list[k].pid = p => ~Zombie(p)

\* A step that starts nobody, kills nobody and takes no signal.
LEMMA DeathSame ==
    ASSUME NEW p \in Pids, DeathKnown(p), UNCHANGED << phase, pending >>,
           Has(p)' => Has(p), Zombie(p)' => Zombie(p),
           ReapComes => ReapComes', GoingDown => GoingDown'
    PROVE  DeathKnown(p)'
BY DEF DeathKnown

\* A step that ends in AfterCheck: in the main loop the waitpid loop is next.
LEMMA DeathChecked ==
    ASSUME IInv, NEW p \in Pids, DeathKnown(p), AfterCheck, phase # "once",
           Has(p)' => Has(p)
    PROVE  DeathKnown(p)'
<1>1. phase = "loop" => phase' = "loop" /\ pc' = "reap"
    BY DEF AfterCheck, Goto
<1> QED
    BY <1>1 DEF DeathKnown, ReapComes

\* A zombie is reaped: the others are where they were.
LEMMA DeathReaped ==
    ASSUME IInv, NEW p \in Pids, DeathKnown(p), NEW q \in Pids, Reap(q),
           UNCHANGED << phase, pending, doing, held >>,
           UNCHANGED << pc, got >> \/ (pc = "wait" /\ pc' = "run")
    PROVE  DeathKnown(p)'
<1>1. list \in Seq(Entries) /\ proc \in [Pids -> Processes] /\ p # 0
    BY InitAssumption DEF IInv, Typed, TypeOK
<1>2. list' = mark_terminated(list, q) /\ proc' = [proc EXCEPT ![q] = Nobody]
    BY DEF Reap
<1>3. /\ DOMAIN list' = DOMAIN list
      /\ \A j \in DOMAIN list : list'[j].pid = list[j].pid \/ list'[j].pid = 0
  <2>1. list' \in Seq(Entries) /\ Len(list') = Len(list)
    BY <1>1, <1>2, MarkFacts
  <2>2. \A j \in DOMAIN list : list'[j].pid = list[j].pid \/ list'[j].pid = 0
    BY <1>1, <1>2, MarkFacts
  <2> QED
    BY <1>1, <2>1, <2>2
<1>4. Has(p)' => Has(p)
    BY <1>1, <1>3 DEF Has
<1>5. Zombie(p)' => Zombie(p)
    BY <1>1, <1>2 DEF Zombie, Nobody
<1> QED
    BY <1>4, <1>5, DeathSame DEF ReapComes, GoingDown

\* run() gives the pid to a process that is alive, and to an entry in the main loop
\* only.
LEMMA DeathRun ==
    ASSUME IInv, NEW p \in Pids, DeathKnown(p), NEW q \in Pids, run(q)
    PROVE  DeathKnown(p)'
<1>1. /\ UNCHANGED << list, pending, phase, doing, held >>
      /\ pc = "run" /\ i <= Len(list) /\ Selected(i) /\ AfterRun(q)
      /\ proc' = [proc EXCEPT ![q] = [st |-> "alive", cmd |-> list[i].cmd, as |-> Wanted]]
    BY DEF run
<1>2. \/ pc' = "assign" /\ got' = q /\ Wanted = "respawn"
      \/ pc' \in {"wait", "run"}
    BY <1>1, RunCases
<1>3. Wanted = "respawn" => phase = "loop"
    BY DEF Wanted, IInv, Typed, TypeOK
<1>4. proc \in [Pids -> Processes]
    BY DEF IInv, Typed
<1>5. CASE q = p
  <2>1. ~Zombie(p)'
    BY <1>1, <1>4, <1>5 DEF Zombie
  <2>2. Has(p)' => Has(p) \/ phase = "loop"
    BY <1>1, <1>2, <1>3 DEF Has
  <2> QED
    BY <1>1, <2>1, <2>2 DEF DeathKnown
<1>6. CASE q # p
  <2>1. Has(p)' => Has(p)
    BY <1>1, <1>2, <1>6 DEF Has
  <2>2. Zombie(p)' => Zombie(p)
    BY <1>1, <1>4, <1>6 DEF Zombie
  <2>3. (ReapComes => ReapComes') /\ (GoingDown => GoingDown')
    BY <1>1 DEF ReapComes, GoingDown
  <2> QED
    BY <1>1, <2>1, <2>2, <2>3, DeathSame
<1> QED
    BY <1>5, <1>6

\* The steps of init that change no entry, no process and no pending signal.
LEMMA DeathQuiet ==
    ASSUME IInv, NEW p \in Pids, DeathKnown(p),
           \/ skip_action \/ run_fails \/ waitfor_no_child \/ actions_done \/ no_signal
           \/ loop_again \/ reload_parsed \/ reload_done
    PROVE  DeathKnown(p)'
<1>1. /\ p # -1 /\ p # 0
      /\ pc \in {"check", "sweep"} => phase # "once"
      /\ phase = "once" => doing = "main"
      /\ doing \in {"main", "ctrlaltdel", "shutdown"}
    BY InitAssumption DEF IInv, Control, Typed, TypeOK
<1>2. /\ UNCHANGED << list, proc, pending, held >>
      /\ Zombie(p)' => Zombie(p)
    BY DEF Zombie, skip_action, run_fails, waitfor_no_child, actions_done, no_signal,
           loop_again, reload_parsed, reload_done
<1>3. CASE skip_action
    BY <1>2, <1>3, DeathSame DEF skip_action, Goto, Has, ReapComes, GoingDown
<1>4. CASE run_fails
  <2>1. /\ pc = "run" /\ UNCHANGED << phase, doing >>
        /\ pc' = "assign" => got' = -1
    BY <1>4 DEF run_fails, AfterRun, Goto
  <2>2. Has(p)' => Has(p)
    BY <1>1, <1>2, <2>1 DEF Has
  <2> QED
    BY <1>2, <2>1, <2>2, DeathSame DEF ReapComes, GoingDown
<1>5. CASE waitfor_no_child
    BY <1>2, <1>5, DeathSame DEF waitfor_no_child, WaitDone, Goto, Has, ReapComes, GoingDown
<1>6. CASE actions_done
  <2>1. pc = "run" /\ pc' # "assign"
    BY <1>1, <1>6, CheckCases DEF actions_done, Goto
  <2>2. Has(p)' => Has(p)
    BY <1>2, <2>1 DEF Has
  <2>3. CASE doing = "ctrlaltdel"
    <3>1. AfterCheck /\ phase # "once"
      BY <1>1, <1>6, <2>3 DEF actions_done
    <3> QED
      BY <2>2, <3>1, DeathChecked
  <2>4. CASE doing # "ctrlaltdel"
    <3>1. doing' = doing /\ (phase' = phase \/ phase = "once")
      BY <1>1, <1>6, <2>4 DEF actions_done
    <3> QED
      BY <1>2, <2>1, <2>2, <2>4, <3>1 DEF DeathKnown, ReapComes, GoingDown
  <2> QED
    BY <2>3, <2>4
<1>7. CASE no_signal
  <2>1. AfterCheck /\ phase # "once"
    BY <1>1, <1>7 DEF no_signal
  <2>2. pc' # "assign"
    BY <2>1, CheckCases
  <2> QED
    BY <1>2, <2>1, <2>2, DeathChecked DEF Has
<1>8. CASE loop_again
  <2>1. ~Zombie(p)' /\ phase' = phase /\ pc' = "run"
    BY <1>2, <1>8 DEF loop_again, Goto, Zombie
  <2> QED
    BY <1>2, <2>1 DEF DeathKnown, Has
<1>9. CASE reload_parsed
    BY <1>2, <1>9, DeathSame DEF reload_parsed, Goto, Has, ReapComes, GoingDown
<1>10. CASE reload_done
  <2>1. AfterCheck /\ phase # "once"
    BY <1>1, <1>10 DEF reload_done
  <2>2. pc' # "assign"
    BY <2>1, CheckCases
  <2> QED
    BY <1>2, <2>1, <2>2, DeathChecked DEF Has
<1> QED
    BY <1>3, <1>4, <1>5, <1>6, <1>7, <1>8, <1>9, <1>10

\* a->pid = run(a): the entry has what it was about to get.
LEMMA DeathStored ==
    ASSUME IInv, NEW p \in Pids, DeathKnown(p), store_pid
    PROVE  DeathKnown(p)'
<1>1. /\ UNCHANGED << proc, pending, phase, doing, held >>
      /\ pc = "assign" /\ pc' = "run" /\ list' = [list EXCEPT ![i].pid = got]
      /\ list \in Seq(Entries) /\ i \in DOMAIN list
    BY DEF store_pid, Goto, IInv, Typed, TypeOK, Control
<1>2. /\ DOMAIN list' = DOMAIN list
      /\ \A j \in DOMAIN list : list'[j] = IF j = i THEN [list[i] EXCEPT !.pid = got] ELSE list[j]
    BY <1>1
<1>3. list[i] \in Entries
    BY <1>1
<1>4. [list[i] EXCEPT !.pid = got].pid = got
    BY <1>3 DEF Entries
<1>5. Has(p)' => Has(p)
    BY <1>1, <1>2, <1>4 DEF Has
<1> QED
    BY <1>1, <1>5, DeathSame DEF Zombie, ReapComes, GoingDown

\* An entry that is moved, made or removed by a reload takes its pid along.
LEMMA DeathReload ==
    ASSUME IInv, NEW p \in Pids, DeathKnown(p),
           reload_line \/ reload_append \/ \E k \in DOMAIN list : reload_sweep(k)
    PROVE  DeathKnown(p)'
<1>1. list \in Seq(Entries) /\ p # 0
    BY InitAssumption DEF IInv, Typed, TypeOK
<1>2. ASSUME NEW k \in DOMAIN list, list' = RemoveAt(list, k), NEW j \in DOMAIN list'
      PROVE  \E h \in DOMAIN list : list'[j] = list[h]
  <2>1. /\ list' \in Seq(Entries) /\ Len(list') = Len(list) - 1
        /\ \A h \in 1 .. Len(list) - 1 : list'[h] = IF h < k THEN list[h] ELSE list[h + 1]
    BY <1>1, <1>2, RemoveFacts
  <2>2. j \in 1 .. Len(list) - 1 /\ Len(list) \in Nat /\ DOMAIN list = 1 .. Len(list)
    BY <1>1, <2>1
  <2>3. j \in DOMAIN list /\ j + 1 \in DOMAIN list
    BY <2>2
  <2> QED
    BY <2>1, <2>2, <2>3
<1>3. ASSUME NEW e, e \in Entries, list' = Append(list, e), NEW j \in DOMAIN list'
      PROVE  list'[j] = e \/ \E h \in DOMAIN list : list'[j] = list[h]
    BY <1>1, <1>3
<1>4. /\ UNCHANGED << proc, pending, phase, doing >>
      /\ pc \in {"parse", "append", "sweep"} /\ pc' \in {"parse", "append", "sweep"}
    BY DEF reload_line, reload_append, reload_sweep, Goto
<1>5. Has(p)' => Has(p)
  <2>1. CASE reload_line
    <3> DEFINE k == Match(list, loaded[i])
    <3>1. CASE k = 0
      <4>1. list' = Append(list, new_init_action(loaded[i])) /\ held' = held
        BY <2>1, <3>1 DEF reload_line
      <4>2. i \in DOMAIN loaded /\ loaded \in Tables
        BY <2>1, TableFacts DEF reload_line, IInv, Typed, TypeOK, Control
      <4>3. new_init_action(loaded[i]) \in Entries /\ new_init_action(loaded[i]).pid = 0
        BY <4>2, TableFacts DEF new_init_action
      <4> QED
        BY <1>1, <1>3, <1>4, <4>1, <4>3 DEF Has
    <3>2. CASE k # 0
      <4>1. list' = RemoveAt(list, k) /\ held' = list[k]
        BY <2>1, <3>2 DEF reload_line
      <4>2. k \in DOMAIN list
        BY <1>1, <3>2, MatchFacts
      <4> HIDE DEF k
      <4> QED
        BY <1>2, <1>4, <4>1, <4>2 DEF Has
    <3> QED
      BY <3>1, <3>2
  <2>2. CASE reload_append
    <3> DEFINE e == [held EXCEPT !.type = loaded[i].type]
    <3>1. /\ list' = Append(list, e) /\ held' = NoEntry
          /\ held \in Entries /\ i \in DOMAIN loaded /\ loaded \in Tables
      BY <2>2 DEF reload_append, IInv, Typed, TypeOK, Control
    <3>2. loaded[i].type \in Types
      BY <3>1, TableFacts
    <3>3. e \in Entries /\ e.pid = held.pid
      BY <3>1, <3>2 DEF Entries
    <3> HIDE DEF e
    <3> QED
      BY <1>1, <1>3, <1>4, <3>1, <3>3 DEF Has, NoEntry
  <2>3. ASSUME NEW k \in DOMAIN list, reload_sweep(k) PROVE Has(p)' => Has(p)
    <3>1. list' = RemoveAt(list, k) /\ held' = held
      BY <2>3 DEF reload_sweep
    <3> QED
      BY <1>2, <1>4, <3>1 DEF Has
  <2> QED
    BY <2>1, <2>2, <2>3
<1> QED
    BY <1>4, <1>5, DeathSame DEF Zombie, ReapComes, GoingDown

\* Whatever signal is fetched, SIGCHLD too, the waitpid loop comes before the next
\* one, unless the system goes down.
LEMMA DeathSignal ==
    ASSUME IInv, NEW p \in Pids, DeathKnown(p), NEW s \in pending, signal(s)
    PROVE  DeathKnown(p)'
<1>1. /\ pc = "check" /\ UNCHANGED << proc, got, held >>
      /\ doing = "main" /\ phase # "once" /\ list \in Seq(Entries)
    BY DEF signal, IInv, Typed, TypeOK, Control
<1>2. CASE s = "HUP"
  <2>1. /\ list' = [k \in DOMAIN list |-> [list[k] EXCEPT !.type = "none"]]
        /\ pc' = "parse" /\ phase' = phase
    BY <1>2 DEF signal, Goto
  <2>2. DOMAIN list' = DOMAIN list /\ \A k \in DOMAIN list : list'[k].pid = list[k].pid
    <3>1. ASSUME NEW k \in DOMAIN list PROVE list'[k].pid = list[k].pid
      <4>1. list[k] \in Entries
        BY <1>1
      <4>2. list'[k] = [list[k] EXCEPT !.type = "none"]
        BY <2>1
      <4> QED
        BY <4>1, <4>2 DEF Entries
    <3> QED
      BY <2>1, <3>1
  <2>3. Has(p)' => Has(p)
    BY <1>1, <2>1, <2>2 DEF Has
  <2> QED
    BY <2>1, <2>3 DEF DeathKnown, ReapComes
<1>3. CASE s = "INT"
  <2>1. pc' = "run" /\ doing' = "ctrlaltdel" /\ UNCHANGED << list, phase >>
    BY <1>3 DEF signal, Goto
  <2> QED
    BY <1>1, <2>1 DEF DeathKnown, ReapComes, Has
<1>4. CASE \/ s = "TERM"
           \/ s = "QUIT" /\ \E k \in DOMAIN list : list[k].type = "restart"
  <2>1. pc' = "run" /\ doing' = "shutdown" /\ UNCHANGED << list, phase >>
    BY <1>4 DEF signal, Shutdown, Goto
  <2> QED
    BY <1>1, <2>1 DEF DeathKnown, GoingDown, Has
<1>5. CASE s \notin {"HUP", "INT", "TERM"} /\
           ~(s = "QUIT" /\ \E k \in DOMAIN list : list[k].type = "restart")
  <2>1. AfterCheck /\ list' = list
    BY <1>5 DEF signal
  <2>2. pc' # "assign"
    BY <1>1, <2>1, CheckCases
  <2> QED
    BY <1>1, <2>1, <2>2, DeathChecked DEF Has
<1> QED
    BY <1>2, <1>3, <1>4, <1>5

\* The system goes down, or a new init begins with no process of its own.
LEMMA DeathEnd ==
    ASSUME IInv, NEW p \in Pids, DeathKnown(p), low_level_reboot \/ exec_restart
    PROVE  DeathKnown(p)'
<1>1. CASE low_level_reboot
    BY <1>1 DEF low_level_reboot, Goto, DeathKnown, Has, GoingDown
<1>2. CASE exec_restart
  <2>1. /\ pc' = "run" /\ held' = NoEntry /\ p # 0
        /\ loaded' \in Tables /\ list' = parse_inittab(loaded')
    BY <1>2, InitAssumption DEF exec_restart, Goto, IInv, Control
  <2>2. \A k \in DOMAIN list' : list'[k].pid = 0
    BY <2>1 DEF parse_inittab, new_init_action
  <2>3. ~Has(p)'
    BY <2>1, <2>2 DEF Has, NoEntry
  <2> QED
    BY <2>3 DEF DeathKnown
<1> QED
    BY <1>1, <1>2

\* What the others do: a death makes SIGCHLD pending as long as init listens.
LEMMA DeathOthers ==
    ASSUME IInv, NEW p \in Pids, DeathKnown(p), Others \/ SIGCONT
    PROVE  DeathKnown(p)'
<1>1. proc \in [Pids -> Processes] /\ (pc = "check" => phase # "once")
    BY DEF IInv, Typed, Control
<1>2. CASE SIGTSTP
    BY <1>2, DeathSame DEF SIGTSTP, ctl, Has, Zombie, ReapComes, GoingDown
<1>3. ASSUME NEW s \in Signals, send(s) PROVE DeathKnown(p)'
    BY <1>3 DEF send, ctl, DeathKnown, Has, Zombie, ReapComes, GoingDown
<1>4. ASSUME NEW q \in Pids, exit(q) PROVE DeathKnown(p)'
  <2>1. /\ UNCHANGED << list, held, pc, got, phase, doing >>
        /\ pending' = IF Listening THEN pending \cup {"CHLD"} ELSE pending
    BY <1>4 DEF exit, ctl
  <2>2. "CHLD" \in pending' \/ GoingDown'
    BY <2>1 DEF Listening, GoingDown
  <2> QED
    BY <2>1, <2>2 DEF DeathKnown, Has
<1>5. ASSUME NEW q \in Pids, orphan(q) PROVE DeathKnown(p)'
  <2>1. /\ UNCHANGED << list, held, pc, got, phase, doing, pending >>
        /\ Zombie(p)' => Zombie(p)
    BY <1>1, <1>5 DEF orphan, ctl, Zombie
  <2> QED
    BY <2>1, DeathSame DEF Has, ReapComes, GoingDown
<1>6. CASE SIGCONT
  <2>1. UNCHANGED << list, pending, proc, got, doing, held >>
    BY <1>6 DEF SIGCONT
  <2>2. CASE UNCHANGED << pc, i, phase >>
    BY <2>1, <2>2, DeathSame DEF Has, Zombie, ReapComes, GoingDown
  <2>3. CASE pc = "check" /\ AfterCheck
    <3>1. pc' # "assign"
      BY <1>1, <2>3, CheckCases
    <3> QED
      BY <1>1, <2>1, <2>3, <3>1, DeathChecked DEF Has
  <2> QED
    BY <1>6, <2>2, <2>3 DEF SIGCONT
<1> QED
    BY <1>2, <1>3, <1>4, <1>5, <1>6 DEF Others

\* Every step of everybody.
LEMMA DeathStep ==
    ASSUME IInv, [Next]_vars, NEW p \in Pids, DeathKnown(p)
    PROVE  DeathKnown(p)'
<1>1. CASE Main
  <2>1. ASSUME NEW q \in Pids, waitfor(q) \/ reap_child(q) PROVE DeathKnown(p)'
    BY <2>1, DeathReaped DEF waitfor, reap_child, WaitDone, Goto, ctl
  <2> QED
    BY <1>1, <2>1, DeathQuiet, DeathStored, DeathReload, DeathEnd, DeathRun, DeathSignal
       DEF Main
<1>2. CASE Handler
  <2>1. ASSUME NEW q \in Pids, stop_handler(q) PROVE DeathKnown(p)'
    BY <2>1, DeathReaped DEF stop_handler, ctl
  <2> QED
    BY <1>2, <2>1, DeathOthers DEF Handler
<1>3. CASE Others
    BY <1>3, DeathOthers
<1>4. CASE UNCHANGED vars
    BY <1>4, DeathSame DEF vars, ctl, Has, Zombie, ReapComes, GoingDown
<1> QED
    BY <1>1, <1>2, <1>3, <1>4 DEF Next, halted

\* The death of a process that has an entry makes SIGCHLD pending or is followed by
\* the waitpid loop before init sleeps, and it stays so whatever signals are fetched
\* in between, however often init is stopped or reads inittab again, until the
\* process is reaped or the system goes down.  So init never waits for a signal with
\* such a death unannounced: the safety half of Noticed.
THEOREM NoDeathSleptOver == Spec => [](SleepsOverNobody /\ \A p \in Pids : DeathKnown(p))
<1> DEFINE Known == \A p \in Pids : DeathKnown(p)
<1>1. Init => Known
  <2> SUFFICES ASSUME Init, NEW p \in Pids PROVE ~Has(p)
    BY DEF DeathKnown
  <2>1. p # 0 /\ \A k \in DOMAIN list : list[k].pid = 0
    BY InitAssumption DEF Init, parse_inittab, new_init_action
  <2> QED
    BY <2>1 DEF Init, Has, NoEntry
<1>2. IInv /\ Known /\ [Next]_vars => Known'
    BY DeathStep
<1>3. IInv /\ Known => SleepsOverNobody
  <2> SUFFICES ASSUME IInv, Known, pc = "check", "CHLD" \notin pending,
                      NEW k \in DOMAIN list, NEW p \in Pids, list[k].pid = p
               PROVE  ~Zombie(p)
    BY DEF SleepsOverNobody
  <2>1. Has(p) /\ DeathKnown(p)
    BY DEF Has
  <2>2. ~ReapComes /\ ~GoingDown
    BY DEF ReapComes, GoingDown, IInv, Control
  <2> QED
    BY <2>1, <2>2 DEF DeathKnown
<1> QED
    BY Invariance, <1>1, <1>2, <1>3, PTL DEF Spec

=============================================================================

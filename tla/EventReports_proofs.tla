------------------------ MODULE EventReports_proofs ------------------------
(***************************************************************************)
(* Proofs about the reports of events, for any clients, users, channels    *)
(* and event files: a file is reported as a whole, summaries grow and are  *)
(* in the order of the dates, records are held under the names their       *)
(* reports give, plain reports survive the way through both parsers, and   *)
(* every store holds exactly what was reported and read, well-formed.      *)
(***************************************************************************)
EXTENDS EventReports, TLAPS, SequenceTheorems, FiniteSetTheorems

IsList(s) == s \in Seq(ToSet(s))

(* What a client has sent and has still to send is one of its files.       *)
FileOf(c) ==
  \/ job[c] = <<>> /\ reported[c] = <<>>
  \/ \E f \in Files[c] : reported[c] \o job[c] = RecordsOf(c, f)

JobsOK ==
  /\ job = [c \in Clients |-> job[c]] /\ reported = [c \in Clients |-> reported[c]]
  /\ \A c \in Clients : IsList(job[c]) /\ IsList(reported[c]) /\ FileOf(c)

-----------------------------------------------------------------------------
(* Lists, by their entries.                                                *)
LEMMA Entries ==
  ASSUME NEW s, IsList(s)
  PROVE  Len(s) \in Nat /\ DOMAIN s = 1 .. Len(s)
BY LenProperties DEF IsList

LEMMA NoEntries == DOMAIN <<>> = {}
OBVIOUS

LEMMA Listed ==
  ASSUME NEW S, NEW s \in Seq(S)
  PROVE  IsList(s)
<1>1. \A i \in 1 .. Len(s) : s[i] \in ToSet(s)
  BY LenProperties DEF ToSet
<1> QED BY <1>1, LenProperties, SeqDef DEF IsList

LEMMA Longer ==
  ASSUME NEW s, IsList(s), NEW e
  PROVE  /\ IsList(Append(s, e))
         /\ DOMAIN s = 1 .. Len(s) /\ Len(s) \in Nat
         /\ DOMAIN Append(s, e) = 1 .. Len(s) + 1
         /\ \A i \in DOMAIN s : Append(s, e)[i] = s[i]
         /\ Append(s, e)[Len(s) + 1] = e
<1>1. s \in Seq(ToSet(s) \cup {e})
  BY DEF IsList
<1>2. Append(s, e) \in Seq(ToSet(s) \cup {e})
  BY <1>1
<1>3. DOMAIN s = 1 .. Len(s) /\ Len(s) \in Nat
  BY <1>1, LenProperties
<1>4. /\ Len(Append(s, e)) = Len(s) + 1
      /\ \A i \in 1 .. Len(s) : Append(s, e)[i] = s[i]
      /\ Append(s, e)[Len(s) + 1] = e
  BY <1>1, AppendProperties
<1>5. DOMAIN Append(s, e) = 1 .. Len(s) + 1
  BY <1>2, <1>4, LenProperties
<1> QED BY <1>2, <1>3, <1>4, <1>5, Listed

LEMMA Shorter ==
  ASSUME NEW s, IsList(s), s # <<>>
  PROVE  /\ IsList(Tail(s))
         /\ s = <<Head(s)>> \o Tail(s)
         /\ DOMAIN s = 1 .. Len(s) /\ Len(s) \in Nat \ {0}
         /\ Head(s) = s[1]
         /\ DOMAIN Tail(s) = 1 .. Len(s) - 1
         /\ \A i \in DOMAIN Tail(s) : Tail(s)[i] = s[i + 1]
<1>1. s \in Seq(ToSet(s)) /\ Len(s) \in Nat \ {0} /\ DOMAIN s = 1 .. Len(s)
  BY EmptySeq, LenProperties DEF IsList
<1>2. Head(s) = s[1] /\ Head(s) \in ToSet(s) /\ Tail(s) \in Seq(ToSet(s))
  BY <1>1, HeadTailProperties, ElementOfSeq
<1>3. s = <<Head(s)>> \o Tail(s)
  BY <1>1, <1>2, HeadTailProperties
<1> QED BY <1>1, <1>2, <1>3, Listed, HeadTailProperties, LenProperties
(* The first of the second list becomes the last of the first.             *)
LEMMA Moved ==
  ASSUME NEW s, NEW t, IsList(s), IsList(t), t # <<>>
  PROVE  Append(s, Head(t)) \o Tail(t) = s \o t
<1> DEFINE S == ToSet(s) \cup ToSet(t)
<1>1. s \in Seq(S) /\ t \in Seq(S)
  BY DEF IsList
<1>2. Head(t) \in S /\ Tail(t) \in Seq(S) /\ t = <<Head(t)>> \o Tail(t)
  BY <1>1, HeadTailProperties
<1>3. Append(s, Head(t)) = s \o <<Head(t)>> /\ <<Head(t)>> \in Seq(S)
  BY <1>1, <1>2, AppendIsConcat
<1> QED BY <1>1, <1>2, <1>3, ConcatAssociative

Join(s, t) == s \o t

LEMMA Joined ==
  ASSUME NEW s, NEW t, IsList(s), IsList(t)
  PROVE  /\ IsList(Join(s, t)) /\ Len(Join(s, t)) = Len(s) + Len(t)
         /\ Len(s) \in Nat /\ Len(t) \in Nat
         /\ DOMAIN Join(s, t) = 1 .. Len(s) + Len(t)
         /\ \A i \in 1 .. Len(s) : Join(s, t)[i] = s[i]
         /\ \A i \in 1 .. Len(t) : Join(s, t)[Len(s) + i] = t[i]
<1> DEFINE S == ToSet(s) \cup ToSet(t)
           u == Join(s, t)
<1>1. s \in Seq(S) /\ t \in Seq(S)
  BY DEF IsList
<1> HIDE DEF S
<1>2. /\ u \in Seq(S) /\ Len(u) = Len(s) + Len(t)
      /\ Len(s) \in Nat /\ Len(t) \in Nat
      /\ \A i \in 1 .. Len(s) + Len(t) :
           u[i] = IF i <= Len(s) THEN s[i] ELSE t[i - Len(s)]
  BY <1>1, ConcatProperties, LenProperties DEF Join
<1> HIDE DEF u
<1>3. IsList(u) /\ DOMAIN u = 1 .. Len(s) + Len(t)
  BY <1>2, Listed, LenProperties
<1>4. ASSUME NEW i \in 1 .. Len(s) PROVE u[i] = s[i]
  BY <1>2
<1>5. ASSUME NEW i \in 1 .. Len(t) PROVE u[Len(s) + i] = t[i]
  <2>1. /\ Len(s) + i \in 1 .. Len(s) + Len(t) /\ ~(Len(s) + i <= Len(s))
        /\ Len(s) + i - Len(s) = i
    BY <1>2
  <2> QED BY <1>2, <2>1
<1> QED BY <1>2, <1>3, <1>4, <1>5 DEF u

LEMMA Cut ==
  ASSUME NEW s, IsList(s), NEW k \in 0 .. Len(s)
  PROVE  LET t == SubSeq(s, k + 1, Len(s))
         IN  /\ IsList(t) /\ Len(t) = Len(s) - k /\ DOMAIN t = 1 .. Len(s) - k
             /\ \A i \in 1 .. Len(s) - k : t[i] = s[k + i]
<1> DEFINE t == SubSeq(s, k + 1, Len(s))
<1>1. s \in Seq(ToSet(s)) /\ Len(s) \in Nat /\ k \in Nat /\ k <= Len(s)
  BY LenProperties DEF IsList
<1>2. t \in Seq(ToSet(s))
  BY <1>1, SubSeqProperties
<1>3. Len(t) = Len(s) - k
  BY <1>1, SubSeqProperties
<1>4. \A i \in 1 .. Len(s) - k : t[i] = s[k + i]
  BY <1>1, SubSeqProperties
<1> HIDE DEF t
<1>5. IsList(t) /\ DOMAIN t = 1 .. Len(s) - k
  BY <1>2, <1>3, Listed, LenProperties
<1> QED BY <1>3, <1>4, <1>5 DEF t

LEMMA SameLists ==
  ASSUME NEW s, NEW t, IsList(s), IsList(t), Len(s) = Len(t),
         \A i \in 1 .. Len(s) : s[i] = t[i]
  PROVE  s = t
<1>1. s = [i \in 1 .. Len(s) |-> s[i]] /\ t = [i \in 1 .. Len(t) |-> t[i]]
  BY SeqDef, LenProperties DEF IsList
<1> QED BY <1>1

LEMMA ListFrom ==
  ASSUME NEW n \in Nat, NEW f, f = [i \in 1 .. n |-> f[i]]
  PROVE  IsList(f) /\ Len(f) = n /\ DOMAIN f = 1 .. n
<1>1. f \in Seq({f[i] : i \in 1 .. n})
  BY SeqDef
<1>2. IsList(f)
  BY <1>1, Listed
<1>3. DOMAIN f = 1 .. n
  OBVIOUS
<1> QED BY <1>1, <1>2, <1>3, LenProperties

LEMMA OneLine ==
  ASSUME NEW a
  PROVE  IsList(<<a>>) /\ Len(<<a>>) = 1 /\ <<a>>[1] = a
<1>1. <<a>> \in Seq({a})
  OBVIOUS
<1> QED BY <1>1, Listed

LEMMA ThreeLines ==
  ASSUME NEW a, NEW b, NEW c
  PROVE  IsList(<<a, b, c>>) /\ Len(<<a, b, c>>) = 3
<1>1. <<a, b, c>> \in Seq({a, b, c})
  OBVIOUS
<1> QED BY <1>1, Listed

LEMMA FiveLines ==
  ASSUME NEW a, NEW b, NEW c, NEW d, NEW e
  PROVE  IsList(<<a, b, c, d, e>>) /\ Len(<<a, b, c, d, e>>) = 5
<1>1. <<a, b, c, d, e>> \in Seq({a, b, c, d, e})
  OBVIOUS
<1> QED BY <1>1, Listed

LEMMA Grown ==
  ASSUME NEW s, IsList(s)
  PROVE  /\ SubSeq(s, 1, Len(s)) = s
         /\ \A i \in 0 .. Len(s) - 1 :
              SubSeq(s, 1, i + 1) = Append(SubSeq(s, 1, i), s[i + 1])
<1>1. s \in Seq(ToSet(s)) /\ Len(s) \in Nat /\ DOMAIN s = 1 .. Len(s)
  BY LenProperties DEF IsList
<1>2. ASSUME NEW i \in 0 .. Len(s)
      PROVE  LET t == SubSeq(s, 1, i)
             IN  IsList(t) /\ Len(t) = i /\ \A j \in 1 .. i : t[j] = s[j]
  <2> DEFINE t == SubSeq(s, 1, i)
  <2>1. t \in Seq(ToSet(s)) /\ Len(t) = i /\ \A j \in 1 .. i : t[j] = s[j]
    BY <1>1, SubSeqProperties
  <2> HIDE DEF t
  <2>2. IsList(t)
    BY <2>1, Listed
  <2> QED BY <2>1, <2>2 DEF t
<1>3. SubSeq(s, 1, Len(s)) = s
  BY <1>1, <1>2, SameLists
<1>4. ASSUME NEW i \in 0 .. Len(s) - 1
      PROVE  SubSeq(s, 1, i + 1) = Append(SubSeq(s, 1, i), s[i + 1])
  <2> DEFINE t == SubSeq(s, 1, i)
             u == SubSeq(s, 1, i + 1)
             v == Append(t, s[i + 1])
  <2>1. i \in 0 .. Len(s) /\ i + 1 \in 0 .. Len(s)
    BY <1>1
  <2>2. IsList(t) /\ Len(t) = i /\ \A j \in 1 .. i : t[j] = s[j]
    BY <1>2, <2>1
  <2>3. IsList(u) /\ Len(u) = i + 1 /\ \A j \in 1 .. i + 1 : u[j] = s[j]
    BY <1>2, <2>1
  <2> HIDE DEF t, u
  <2>4. /\ IsList(v) /\ DOMAIN v = 1 .. i + 1 /\ v[i + 1] = s[i + 1]
        /\ \A j \in 1 .. i : v[j] = t[j]
    BY <2>2, Longer
  <2> HIDE DEF v
  <2>5. Len(v) = i + 1
    BY <2>4, Entries, LenProperties DEF IsList
  <2>6. \A j \in 1 .. i + 1 : u[j] = v[j]
    BY <2>2, <2>3, <2>4
  <2>7. u = v
    BY <2>3, <2>4, <2>5, <2>6, SameLists
  <2> QED BY <2>7 DEF t, u, v
<1> QED BY <1>3, <1>4

LEMMA AppendedLast ==
  ASSUME NEW s, NEW t, IsList(s), IsList(t), NEW e
  PROVE  Append(s \o t, e) = s \o Append(t, e)
<1> DEFINE S == ToSet(s) \cup ToSet(t) \cup {e}
<1>1. s \in Seq(S) /\ t \in Seq(S) /\ e \in S /\ <<e>> \in Seq(S)
  BY DEF IsList
<1> HIDE DEF S
<1>2. s \o t \in Seq(S)
  BY <1>1
<1>3. Append(s \o t, e) = (s \o t) \o <<e>> /\ Append(t, e) = t \o <<e>>
  BY <1>1, <1>2, AppendIsConcat
<1> QED BY <1>1, <1>3, ConcatAssociative

-----------------------------------------------------------------------------
(* A client goes through one file from its first event to its last.        *)
LEMMA JobsStart == Init => JobsOK
<1>1. IsList(<<>>)
  BY DEF IsList
<1> QED BY <1>1 DEF Init, JobsOK, FileOf

LEMMA JobsStay ==
  ASSUME JobsOK, [Next]_vars
  PROVE  JobsOK'
<1>1. ASSUME NEW c \in Clients, ReportStarts(c)
      PROVE  JobsOK'
  <2>1. PICK f \in Files[c] : job' = [job EXCEPT ![c] = RecordsOf(c, f)]
    BY <1>1 DEF ReportStarts
  <2>2. RecordsOf(c, f) \in Seq({Record(c, f.channel, ev) : ev \in ToSet(f.events)})
    <3>1. Len(f.events) \in Nat /\ DOMAIN f.events = 1 .. Len(f.events)
      BY EventAssumption, LenProperties
    <3>2. \A i \in DOMAIN f.events : f.events[i] \in ToSet(f.events)
      BY DEF ToSet
    <3> QED BY <3>1, <3>2, SeqDef DEF RecordsOf
  <2>3. IsList(RecordsOf(c, f))
    BY <2>2, Listed
  <2>4. job'[c] = RecordsOf(c, f) /\ reported'[c] = <<>>
    BY <1>1, <2>1 DEF ReportStarts, JobsOK
  <2>5. reported'[c] \o job'[c] = RecordsOf(c, f)
    BY <2>2, <2>4, ConcatEmptySeq
  <2> QED BY <1>1, <2>1, <2>3, <2>5 DEF ReportStarts, JobsOK, FileOf
<1>2. ASSUME NEW c \in Clients, ReportNext(c)
      PROVE  JobsOK'
  <2>1. /\ job' = [job EXCEPT ![c] = Tail(@)] /\ job[c] # <<>>
        /\ reported' = [reported EXCEPT ![c] = Append(@, Head(job[c]))]
    BY <1>2 DEF ReportNext
  <2>2. IsList(job[c]) /\ IsList(reported[c]) /\ FileOf(c)
    BY DEF JobsOK
  <2>3. IsList(job'[c]) /\ IsList(reported'[c])
    BY <2>1, <2>2, Longer, Shorter DEF JobsOK
  <2>4. reported'[c] \o job'[c] = reported[c] \o job[c]
    BY <2>1, <2>2, Moved DEF JobsOK
  <2>5. FileOf(c)'
    BY <2>1, <2>2, <2>4 DEF FileOf
  <2> QED BY <2>1, <2>3, <2>5 DEF JobsOK, FileOf
<1>3. CASE UNCHANGED <<job, reported>>
  BY <1>3 DEF JobsOK, FileOf
<1> QED BY <1>1, <1>2, <1>3 DEF Next, ReceiveMessage, Summary, vars

(* A file is reported as a whole or not at all (WholeFilesOnly).           *)
THEOREM WholeFiles == Spec => []WholeFilesOnly
<1>1. JobsOK => WholeFilesOnly
  <2> SUFFICES ASSUME JobsOK, NEW c \in Clients, job[c] = <<>>,
                      reported[c] # <<>>
               PROVE  \E f \in Files[c] : reported[c] = RecordsOf(c, f)
    BY DEF WholeFilesOnly
  <2>1. PICK f \in Files[c] : reported[c] \o job[c] = RecordsOf(c, f)
    BY DEF JobsOK, FileOf
  <2>2. reported[c] \o <<>> = reported[c]
    BY ConcatEmptySeq DEF JobsOK, IsList
  <2> QED BY <2>1, <2>2
<1>2. Spec => []JobsOK
  BY JobsStart, JobsStay, PTL DEF Spec
<1> QED BY <1>1, <1>2, PTL
-----------------------------------------------------------------------------
(* All entries of s are in t, as often at least.                           *)
Embeds(s, t) ==
  \E e \in Injection(DOMAIN s, DOMAIN t) : \A i \in DOMAIN s : s[i] = t[e[i]]

LEMMA EmbedsMore ==
  ASSUME NEW s, NEW t, NEW n, IsList(t), Embeds(s, t)
  PROVE  Embeds(s, Append(t, n))
<1>1. PICK e \in Injection(DOMAIN s, DOMAIN t) :
        \A i \in DOMAIN s : s[i] = t[e[i]]
  BY DEF Embeds
<1>2. DOMAIN t \subseteq DOMAIN Append(t, n)
      /\ \A i \in DOMAIN t : Append(t, n)[i] = t[i]
  BY Longer
<1>3. e \in Injection(DOMAIN s, DOMAIN Append(t, n))
  BY <1>1, <1>2 DEF Injection, IsInjective
<1>4. \A i \in DOMAIN s : e[i] \in DOMAIN t
  BY <1>1 DEF Injection
<1> QED BY <1>1, <1>2, <1>3, <1>4 DEF Embeds

LEMMA EmbedsThrough ==
  ASSUME NEW s, NEW t, NEW r, Embeds(s, t), Embeds(t, r)
  PROVE  Embeds(s, r)
<1>1. PICK e \in Injection(DOMAIN s, DOMAIN t) :
        \A i \in DOMAIN s : s[i] = t[e[i]]
  BY DEF Embeds
<1>2. PICK g \in Injection(DOMAIN t, DOMAIN r) :
        \A i \in DOMAIN t : t[i] = r[g[i]]
  BY DEF Embeds
<1> DEFINE h == [i \in DOMAIN s |-> g[e[i]]]
<1>3. \A i \in DOMAIN s : e[i] \in DOMAIN t /\ h[i] \in DOMAIN r
  BY <1>1, <1>2 DEF Injection
<1>4. \A i, j \in DOMAIN s : h[i] = h[j] => i = j
  BY <1>1, <1>2, <1>3 DEF Injection, IsInjective
<1>5. h \in Injection(DOMAIN s, DOMAIN r)
  BY <1>3, <1>4 DEF Injection, IsInjective
<1>6. \A i \in DOMAIN s : s[i] = r[h[i]]
  BY <1>1, <1>2, <1>3
<1> QED BY <1>5, <1>6 DEF Embeds

(* Places in s count no more than those in t that have the same entries.   *)
LEMMA EmbedsCounts ==
  ASSUME NEW s, NEW t, IsList(t), Embeds(s, t),
         NEW A \in SUBSET DOMAIN s, NEW B \in SUBSET DOMAIN t,
         \A i \in A, j \in DOMAIN t : s[i] = t[j] => j \in B
  PROVE  Cardinality(A) <= Cardinality(B)
<1>1. PICK e \in Injection(DOMAIN s, DOMAIN t) :
        \A i \in DOMAIN s : s[i] = t[e[i]]
  BY DEF Embeds
<1> DEFINE g == [i \in A |-> e[i]]
<1>2. g \in Injection(A, B)
  BY <1>1 DEF Injection, IsInjective
<1>3. IsFiniteSet(B)
  <2>1. IsFiniteSet(DOMAIN t)
    BY Entries, FS_Interval
  <2> QED BY <2>1, FS_Subset
<1> QED BY <1>2, <1>3, FS_Injection

LEMMA OccursMore ==
  ASSUME NEW s, NEW t, IsList(t), Embeds(s, t), NEW r
  PROVE  Occurs(s, r) <= Occurs(t, r)
<1> DEFINE A == {i \in DOMAIN s : s[i] = r}
           B == {i \in DOMAIN t : t[i] = r}
<1>1. /\ A \in SUBSET DOMAIN s /\ B \in SUBSET DOMAIN t
      /\ \A i \in A, j \in DOMAIN t : s[i] = t[j] => j \in B
  OBVIOUS
<1> HIDE DEF A, B
<1>2. Cardinality(A) <= Cardinality(B)
  BY <1>1, EmbedsCounts
<1> QED BY <1>2 DEF Occurs, A, B

LEMMA CountsMore ==
  ASSUME NEW s, NEW t, IsList(t), Embeds(s, t), NEW key
  PROVE  CountTrue(s, key) <= CountTrue(t, key)
<1> DEFINE A == {i \in DOMAIN s : key \in DOMAIN s[i].info
                                    /\ s[i].info[key] = "true"}
           B == {i \in DOMAIN t : key \in DOMAIN t[i].info
                                    /\ t[i].info[key] = "true"}
<1>1. /\ A \in SUBSET DOMAIN s /\ B \in SUBSET DOMAIN t
      /\ \A i \in A, j \in DOMAIN t : s[i] = t[j] => j \in B
  OBVIOUS
<1> HIDE DEF A, B
<1>2. Cardinality(A) <= Cardinality(B)
  BY <1>1, EmbedsCounts
<1> QED BY <1>2 DEF CountTrue, A, B

(* Sorting keeps the records, each as often as it was there.               *)
LEMMA SortingKeeps ==
  ASSUME NEW s, IsList(s), NEW t \in SortedAlike(s)
  PROVE  IsList(t) /\ Embeds(s, t) /\ Embeds(t, s)
<1> DEFINE D == DOMAIN s
<1>1. PICK p \in Bijection(D, D) : t = [i \in D |-> s[p[i]]]
  BY DEF SortedAlike
<1>2. /\ p \in [D -> D] /\ \A i, j \in D : p[i] = p[j] => i = j
      /\ \A i \in D : \E j \in D : p[j] = i
  BY <1>1 DEF Bijection, Injection, Surjection, IsInjective
<1>3. IsList(t)
  <2>1. Len(s) \in Nat /\ D = 1 .. Len(s)
    BY Entries
  <2>2. \A i \in D : t[i] \in ToSet(s)
    BY <1>1, <1>2 DEF ToSet
  <2>3. t \in Seq(ToSet(s))
    BY <1>1, <2>1, <2>2, SeqDef
  <2> QED BY <2>3, Listed
<1>4. Embeds(t, s)
  BY <1>1, <1>2 DEF Embeds, Injection, IsInjective
<1>5. Embeds(s, t)
  <2> DEFINE q == [i \in D |-> CHOOSE j \in D : p[j] = i]
  <2>1. \A i \in D : q[i] \in D /\ p[q[i]] = i
    BY <1>2
  <2>2. q \in Injection(D, D)
    <3>1. \A i, j \in D : q[i] = q[j] => i = j
      BY <2>1
    <3> HIDE DEF q
    <3>2. q \in [D -> D]
      BY <2>1 DEF q
    <3> QED BY <3>1, <3>2 DEF Injection, IsInjective
  <2>3. DOMAIN t = D /\ \A i \in D : s[i] = t[q[i]]
    BY <1>1, <2>1
  <2> QED BY <2>2, <2>3 DEF Embeds
<1> QED BY <1>3, <1>4, <1>5
-----------------------------------------------------------------------------
(* A store: the records of every user on every channel, and what holds of  *)
(* each of them.                                                           *)
IsStore(events) ==
  /\ events = [ch \in Channels |-> [u \in Users |-> events[ch][u]]]
  /\ \A ch \in Channels, u \in Users : IsList(events[ch][u])

StoresOK ==
  /\ store = [c \in Clients |-> store[c]]
  /\ \A c \in Clients : IsStore(store[c])

(* A summary is of records that are still there, in their order.           *)
Sorted(s) == \A i, j \in DOMAIN s : i < j => ~Before(s[j], s[i])

SummaryOK(w, events) ==
  \/ w = NoSummary
  \/ /\ w.channel \in Channels /\ w.user \in Users
     /\ Embeds(w.reports, events[w.channel][w.user])
     /\ Sorted(w.reports)
     /\ w.active = CountTrue(w.reports, "active")
     /\ w.forces = CountTrue(w.reports, "forces_arrival_at_scene")

SummariesOK ==
  /\ written = [c \in Clients |-> written[c]]
  /\ \A c \in Clients : SummaryOK(written[c], store[c])

(* Storing a record adds it where its channel and user say.                *)
LEMMA StoredPlace ==
  ASSUME NEW events, IsStore(events), NEW r, NEW ch \in Channels, NEW u \in Users
  PROVE  Stored(events, r)[ch][u]
           = IF ch = r.channel /\ u = r.user
             THEN Append(events[ch][u], r) ELSE events[ch][u]
<1>1. Stored(events, r)
        = [c \in Channels |->
             IF c = r.channel THEN [events[c] EXCEPT ![r.user] = Append(@, r)]
             ELSE events[c]]
  BY DEF Stored, IsStore
<1>2. Stored(events, r)[ch]
        = IF ch = r.channel THEN [events[ch] EXCEPT ![r.user] = Append(@, r)]
          ELSE events[ch]
  BY <1>1
<1>3. events[ch] = [v \in Users |-> events[ch][v]]
  BY DEF IsStore
<1>4. CASE ch = r.channel
  <2> DEFINE f == events[ch]
             new == Append(f[r.user], r)
  <2>1. Stored(events, r)[ch] = [f EXCEPT ![r.user] = new]
    BY <1>2, <1>4
  <2>2. f = [v \in Users |-> f[v]]
    BY <1>3
  <2> HIDE DEF f, new
  <2>3. Stored(events, r)[ch][u] = IF u = r.user THEN new ELSE f[u]
    BY <2>1, <2>2
  <2>4. u = r.user => new = Append(f[u], r)
    BY DEF new
  <2>5. CASE u = r.user
    <3>1. Stored(events, r)[ch][u] = new
      BY <2>3, <2>5
    <3> QED BY <1>4, <2>4, <2>5, <3>1 DEF f
  <2>6. CASE u # r.user
    <3>1. Stored(events, r)[ch][u] = f[u]
      BY <2>3, <2>6
    <3> QED BY <1>4, <2>6, <3>1 DEF f
  <2> QED BY <2>5, <2>6
<1>5. CASE ch # r.channel
  BY <1>2, <1>5
<1> QED BY <1>4, <1>5

(* Storing a record adds it at the end of one list, or of none.            *)
LEMMA StoredAdds ==
  ASSUME NEW events, IsStore(events), NEW r
  PROVE  /\ IsStore(Stored(events, r))
         /\ \A ch \in Channels, u \in Users :
              \/ Stored(events, r)[ch][u] = events[ch][u]
              \/ /\ Stored(events, r)[ch][u] = Append(events[ch][u], r)
                 /\ ch = r.channel /\ u = r.user
<1> DEFINE after == Stored(events, r)
<1>1. after = [ch \in Channels |->
                 IF ch = r.channel
                 THEN [events[ch] EXCEPT ![r.user] = Append(@, r)]
                 ELSE events[ch]]
  BY DEF Stored, IsStore
<1>2. ASSUME NEW ch \in Channels
      PROVE  after[ch] = [u \in Users |->
                            IF ch = r.channel /\ u = r.user
                            THEN Append(events[ch][u], r) ELSE events[ch][u]]
  BY <1>1, <1>2 DEF IsStore
<1> HIDE DEF after
<1>3. ASSUME NEW ch \in Channels, NEW u \in Users
      PROVE  /\ \/ after[ch][u] = events[ch][u]
                \/ /\ after[ch][u] = Append(events[ch][u], r)
                   /\ ch = r.channel /\ u = r.user
             /\ IsList(after[ch][u])
  <2>1. \/ after[ch][u] = events[ch][u]
        \/ /\ after[ch][u] = Append(events[ch][u], r)
           /\ ch = r.channel /\ u = r.user
    <3> DEFINE new == Append(events[ch][u], r)
    <3>1. after[ch][u] = IF ch = r.channel /\ u = r.user
                         THEN new ELSE events[ch][u]
      <4>1. Stored(events, r)[ch][u]
              = IF ch = r.channel /\ u = r.user
                THEN Append(events[ch][u], r) ELSE events[ch][u]
        BY StoredPlace
      <4> QED BY <4>1, Zenon DEF after
    <3> HIDE DEF new
    <3>2. \/ after[ch][u] = events[ch][u]
          \/ after[ch][u] = new /\ ch = r.channel /\ u = r.user
      BY <3>1
    <3> QED BY <3>2 DEF new
  <2>2. IsList(events[ch][u])
    BY DEF IsStore
  <2>3. IsList(Append(events[ch][u], r))
    BY <2>2, Longer
  <2> QED BY <2>1, <2>2, <2>3
<1>4. \A ch \in Channels, u \in Users : IsList(after[ch][u])
  BY <1>3
<1>5. after = [ch \in Channels |-> [u \in Users |-> after[ch][u]]]
  <2>1. \A ch \in Channels : after[ch] = [u \in Users |-> after[ch][u]]
    BY <1>2
  <2>2. after = [ch \in Channels |-> after[ch]]
    BY <1>1
  <2> QED BY <2>1, <2>2
<1>6. IsStore(after)
  BY <1>4, <1>5 DEF IsStore
<1> QED BY <1>3, <1>6 DEF after

(* How a step may change the store of a client.                            *)
LEMMA StoresGrow ==
  ASSUME StoresOK, [Next]_vars, NEW c \in Clients
  PROVE  store'[c] = store[c] \/ \E r : store'[c] = Stored(store[c], r)
<1>1. ASSUME NEW b \in Clients, ReportNext(b)
      PROVE  store'[c] = store[c] \/ \E r : store'[c] = Stored(store[c], r)
  <2>1. store' = [store EXCEPT ![b] = Stored(@, Head(job[b]))]
    BY <1>1 DEF ReportNext
  <2>2. c = b => store'[c] = Stored(store[c], Head(job[b]))
    BY <2>1 DEF StoresOK
  <2>3. c # b => store'[c] = store[c]
    BY <2>1 DEF StoresOK
  <2> QED BY <2>2, <2>3
<1>2. ASSUME NEW b \in Clients, NEW d \in Clients, ReceiveMessage(b, d)
      PROVE  store'[c] = store[c] \/ \E r : store'[c] = Stored(store[c], r)
  <2> DEFINE r == ParseEvent(Head(wire[b][d]))
  <2>1. store' = store \/ store' = [store EXCEPT ![d] = Stored(@, r)]
    BY <1>2 DEF ReceiveMessage
  <2>2. c = d => store'[c] = store[c] \/ store'[c] = Stored(store[c], r)
    BY <2>1 DEF StoresOK
  <2>3. c # d => store'[c] = store[c]
    BY <2>1 DEF StoresOK
  <2> QED BY <2>2, <2>3
<1> QED BY <1>1, <1>2 DEF Next, ReportStarts, Summary, vars

LEMMA StoresStay ==
  ASSUME StoresOK, [Next]_vars
  PROVE  StoresOK'
<1>1. store' = [c \in Clients |-> store'[c]]
  <2>1. ASSUME NEW b \in Clients, NEW d \in Clients, ReceiveMessage(b, d)
        PROVE  store' = [c \in Clients |-> store'[c]]
    <3> DEFINE r == ParseEvent(Head(wire[b][d]))
    <3>1. store' = store \/ store' = [store EXCEPT ![d] = Stored(@, r)]
      BY <2>1 DEF ReceiveMessage
    <3> HIDE DEF r
    <3> QED BY <3>1 DEF StoresOK
  <2> QED BY <2>1 DEF StoresOK, Next, ReportStarts, ReportNext, Summary, vars
<1>2. \A c \in Clients : IsStore(store'[c])
  BY StoresGrow, StoredAdds DEF StoresOK
<1> QED BY <1>1, <1>2 DEF StoresOK

(* A summary of a store is one of the store as it grows.                   *)
LEMMA SummaryStays ==
  ASSUME StoresOK, [Next]_vars, NEW c \in Clients, NEW w,
         SummaryOK(w, store[c])
  PROVE  SummaryOK(w, store'[c])
<1>1. CASE w = NoSummary
  BY <1>1 DEF SummaryOK
<1>2. CASE w # NoSummary
  <2> DEFINE s == store[c][w.channel][w.user]
  <2>1. /\ w.channel \in Channels /\ w.user \in Users
        /\ Embeds(w.reports, s) /\ IsList(s)
    BY <1>2 DEF SummaryOK, StoresOK, IsStore
  <2>2. \/ store'[c][w.channel][w.user] = s
        \/ \E r : store'[c][w.channel][w.user] = Append(s, r)
    <3>1. CASE store'[c] = store[c]
      BY <3>1
    <3>2. ASSUME NEW r, store'[c] = Stored(store[c], r)
          PROVE  \/ store'[c][w.channel][w.user] = s
                 \/ store'[c][w.channel][w.user] = Append(s, r)
      <4> DEFINE e == store[c]
      <4>1. IsStore(e)
        BY DEF StoresOK
      <4> HIDE DEF e
      <4>2. \A x \in Channels, y \in Users :
              \/ Stored(e, r)[x][y] = e[x][y]
              \/ Stored(e, r)[x][y] = Append(e[x][y], r)
        BY <4>1, StoredAdds
      <4>3. \/ Stored(e, r)[w.channel][w.user] = e[w.channel][w.user]
            \/ Stored(e, r)[w.channel][w.user] = Append(e[w.channel][w.user], r)
        BY <2>1, <4>2
      <4> QED BY <3>2, <4>3 DEF e
    <3> QED BY <3>1, <3>2, StoresGrow
  <2> HIDE DEF s
  <2>3. Embeds(w.reports, store'[c][w.channel][w.user])
    BY <2>1, <2>2, EmbedsMore
  <2> QED BY <1>2, <2>3 DEF SummaryOK
<1> QED BY <1>1, <1>2

(* What a new summary has.                                                 *)
LEMMA Summarised ==
  ASSUME StoresOK, SummariesOK, NEW c \in Clients, NEW ch \in Channels,
         NEW u \in Users, Summary(c, ch, u)
  PROVE  /\ store' = store
         /\ written' = [written EXCEPT ![c] = written'[c]]
         /\ written'[c].channel = ch /\ written'[c].user = u
         /\ IsList(written'[c].reports)
         /\ Embeds(store[c][ch][u], written'[c].reports)
         /\ SummaryOK(written'[c], store[c])
         /\ written'[c].active = CountTrue(written'[c].reports, "active")
         /\ written'[c].forces = CountTrue(written'[c].reports,
                                           "forces_arrival_at_scene")
<1> DEFINE s == store[c][ch][u]
           New(t) == [channel |-> ch, user |-> u, reports |-> t,
                      active |-> CountTrue(t, "active"),
                      forces |-> CountTrue(t, "forces_arrival_at_scene")]
<1>1. PICK t \in SortedAlike(s) : written' = [written EXCEPT ![c] = New(t)]
  BY DEF Summary
<1>2. written'[c] = New(t) /\ store' = store
  BY <1>1 DEF SummariesOK, Summary
<1>3. IsList(s)
  BY DEF StoresOK, IsStore
<1> HIDE DEF s
<1>4. IsList(t) /\ Embeds(s, t) /\ Embeds(t, s)
  BY <1>1, <1>3, SortingKeeps
<1>5. Sorted(t)
  BY <1>1 DEF SortedAlike, Sorted
<1>6. SummaryOK(New(t), store[c])
  BY <1>4, <1>5 DEF SummaryOK, s
<1>7. /\ New(t).channel = ch /\ New(t).user = u /\ New(t).reports = t
      /\ New(t).active = CountTrue(t, "active")
      /\ New(t).forces = CountTrue(t, "forces_arrival_at_scene")
  OBVIOUS
<1> HIDE DEF New
<1> QED BY <1>1, <1>2, <1>4, <1>6, <1>7 DEF s

LEMMA SummariesStay ==
  ASSUME StoresOK, SummariesOK, [Next]_vars
  PROVE  SummariesOK'
<1>1. ASSUME NEW c \in Clients, NEW ch \in Channels, NEW u \in Users,
             Summary(c, ch, u)
      PROVE  SummariesOK'
  BY <1>1, Summarised DEF SummariesOK
<1>2. CASE UNCHANGED written
  BY <1>2, SummaryStays DEF SummariesOK
<1> QED BY <1>1, <1>2 DEF Next, ReportStarts, ReportNext, ReceiveMessage, vars

LEMMA SummariesStart == Init => StoresOK /\ SummariesOK
<1>1. IsList(<<>>)
  BY DEF IsList
<1> QED BY <1>1 DEF Init, StoresOK, IsStore, SummariesOK, SummaryOK

LEMMA SummariesHold == Spec => [](StoresOK /\ SummariesOK)
BY SummariesStart, StoresStay, SummariesStay, PTL DEF Spec
(* What a summary counts are numbers.                                      *)
LEMMA Numbers ==
  ASSUME NEW s, NEW t, IsList(t), Embeds(s, t)
  PROVE  /\ \A key : CountTrue(s, key) \in Nat
         /\ \A r : Occurs(s, r) \in Nat
<1>1. IsFiniteSet(DOMAIN t)
  BY Entries, FS_Interval
<1>2. IsFiniteSet(DOMAIN s)
  BY <1>1, FS_Injection DEF Embeds
<1>3. ASSUME NEW A \in SUBSET DOMAIN s PROVE Cardinality(A) \in Nat
  BY <1>2, <1>3, FS_Subset, FS_CardinalityType
<1>4. ASSUME NEW key PROVE CountTrue(s, key) \in Nat
  <2> DEFINE A == {i \in DOMAIN s : key \in DOMAIN s[i].info
                                      /\ s[i].info[key] = "true"}
  <2>1. A \in SUBSET DOMAIN s
    OBVIOUS
  <2> HIDE DEF A
  <2>2. Cardinality(A) \in Nat
    BY <1>3, <2>1
  <2> QED BY <2>2 DEF CountTrue, A
<1>5. ASSUME NEW r PROVE Occurs(s, r) \in Nat
  <2> DEFINE A == {i \in DOMAIN s : s[i] = r}
  <2>1. A \in SUBSET DOMAIN s
    OBVIOUS
  <2> HIDE DEF A
  <2>2. Cardinality(A) \in Nat
    BY <1>3, <2>1
  <2> QED BY <2>2 DEF Occurs, A
<1> QED BY <1>4, <1>5

LEMMA SummaryCounts ==
  ASSUME StoresOK, NEW c \in Clients, NEW w, SummaryOK(w, store[c])
  PROVE  /\ w.active \in Nat /\ w.forces \in Nat
         /\ \A i \in DOMAIN w.reports : Occurs(w.reports, w.reports[i]) \in Nat
<1>1. CASE w = NoSummary
  BY <1>1, NoEntries DEF NoSummary
<1>2. CASE w # NoSummary
  <2>1. /\ Embeds(w.reports, store[c][w.channel][w.user])
        /\ IsList(store[c][w.channel][w.user])
    BY <1>2 DEF SummaryOK, StoresOK, IsStore
  <2> QED BY <1>2, <2>1, Numbers DEF SummaryOK
<1> QED BY <1>1, <1>2

(* A later summary of the same user has all reports an earlier one had and *)
(* counts no less (SummariesGrow).                                         *)
THEOREM SummariesGrowing == Spec => SummariesGrow
<1>1. ASSUME StoresOK, SummariesOK, [Next]_vars, NEW c \in Clients
      PROVE  SummaryGrows(c)
  <2> DEFINE old == written[c]
             new == written'[c]
  <2>1. /\ SummaryOK(old, store[c])
        /\ old.active \in Nat /\ old.forces \in Nat
        /\ \A i \in DOMAIN old.reports :
             Occurs(old.reports, old.reports[i]) \in Nat
    BY <1>1, SummaryCounts DEF SummariesOK
  <2>2. CASE new = old
    BY <2>1, <2>2 DEF SummaryGrows
  <2>3. ASSUME NEW ch \in Channels, NEW u \in Users, Summary(c, ch, u)
        PROVE  SummaryGrows(c)
    <3> DEFINE s == store[c][ch][u]
    <3>1. /\ new.channel = ch /\ new.user = u /\ IsList(new.reports)
          /\ Embeds(s, new.reports) /\ SummaryOK(new, store[c])
          /\ new.active = CountTrue(new.reports, "active")
          /\ new.forces = CountTrue(new.reports, "forces_arrival_at_scene")
      BY <1>1, <2>3, Summarised
    <3>2. new.active \in Nat /\ new.forces \in Nat
      BY <1>1, <3>1, SummaryCounts
    <3>3. CASE old = NoSummary
      <4>1. old.active = 0 /\ old.forces = 0 /\ DOMAIN old.reports = {}
        <5>1. /\ NoSummary.active = 0 /\ NoSummary.forces = 0
              /\ DOMAIN NoSummary.reports = {}
          BY NoEntries DEF NoSummary
        <5> QED BY <3>3, <5>1
      <4> QED BY <3>2, <4>1 DEF SummaryGrows
    <3>4. CASE old # NoSummary /\ old.channel = ch /\ old.user = u
      <4>1. /\ Embeds(old.reports, s)
            /\ old.active = CountTrue(old.reports, "active")
            /\ old.forces = CountTrue(old.reports, "forces_arrival_at_scene")
        BY <2>1, <3>4 DEF SummaryOK
      <4>2. Embeds(old.reports, new.reports)
        BY <3>1, <4>1, EmbedsThrough
      <4>3. /\ old.active <= new.active /\ old.forces <= new.forces
            /\ \A r : Occurs(old.reports, r) <= Occurs(new.reports, r)
        BY <3>1, <4>1, <4>2, CountsMore, OccursMore
      <4> QED BY <4>3 DEF SummaryGrows
    <3>5. CASE old.channel # ch \/ old.user # u
      BY <3>1, <3>5 DEF SummaryGrows
    <3> QED BY <3>3, <3>4, <3>5
  <2>4. ASSUME NEW b \in Clients, NEW ch \in Channels, NEW u \in Users,
               Summary(b, ch, u), b # c
        PROVE  new = old
    BY <1>1, <2>4, Summarised DEF SummariesOK
  <2>5. CASE UNCHANGED written
    BY <2>2, <2>5
  <2> QED
    BY <1>1, <2>2, <2>3, <2>4, <2>5
       DEF Next, ReportStarts, ReportNext, ReceiveMessage, vars
<1>2. StoresOK /\ SummariesOK /\ [Next]_vars
        => [\A c \in Clients : SummaryGrows(c)]_vars
  BY <1>1
<1> QED BY <1>2, SummariesHold, PTL DEF SummariesGrow, Spec
-----------------------------------------------------------------------------
(* Lines without the blank ones.                                           *)
Keep == INSTANCE FoldFacts WITH Op <- KeepLine

LEMMA KeepFolds == \A s : WithoutBlanks(s) = Keep!Folded(<<>>, s)
BY DEF WithoutBlanks, Keep!Folded, FoldLeft, Keep!FoldLeft, MapThenFoldSet,
       Keep!MapThenFoldSet, Max, Keep!Max

LEMMA KeepRuns ==
  ASSUME NEW s, IsList(s)
  PROVE  \E run : /\ run[0] = <<>> /\ WithoutBlanks(s) = run[Len(s)]
                  /\ \A i \in 1 .. Len(s) : run[i] = KeepLine(run[i - 1], s[i])
<1>1. Len(s) \in Nat /\ DOMAIN s = 1 .. Len(s)
  BY Entries
<1>2. \E run : Keep!IsRun(run, <<>>, s) /\ Keep!Folded(<<>>, s) = run[Len(s)]
  BY <1>1, Keep!FoldRuns
<1> QED BY <1>2, KeepFolds DEF Keep!IsRun

(* The entries of k are some of the first n of s, in their order.          *)
Thins(k, s, n) ==
  \E e \in [DOMAIN k -> 1 .. n] :
    /\ \A x \in DOMAIN k : s[e[x]] = k[x]
    /\ \A x, y \in DOMAIN k : x < y => e[x] < e[y]

LEMMA ThinsMore ==
  ASSUME NEW k, NEW s, NEW n \in Nat, Thins(k, s, n)
  PROVE  Thins(k, s, n + 1)
<1>1. PICK e \in [DOMAIN k -> 1 .. n] :
        /\ \A x \in DOMAIN k : s[e[x]] = k[x]
        /\ \A x, y \in DOMAIN k : x < y => e[x] < e[y]
  BY DEF Thins
<1>2. e \in [DOMAIN k -> 1 .. n + 1]
  <2>1. \A i \in 1 .. n : i \in 1 .. n + 1
    OBVIOUS
  <2> QED BY <2>1
<1> QED BY <1>1, <1>2 DEF Thins

LEMMA ThinsLonger ==
  ASSUME NEW k, NEW s, NEW n \in Nat, IsList(k), Thins(k, s, n)
  PROVE  Thins(Append(k, s[n + 1]), s, n + 1)
<1> DEFINE t == Append(k, s[n + 1])
<1>1. PICK e \in [DOMAIN k -> 1 .. n] :
        /\ \A x \in DOMAIN k : s[e[x]] = k[x]
        /\ \A x, y \in DOMAIN k : x < y => e[x] < e[y]
  BY DEF Thins
<1>2. /\ DOMAIN k = 1 .. Len(k) /\ Len(k) \in Nat
      /\ DOMAIN t = 1 .. Len(k) + 1
      /\ \A x \in DOMAIN k : t[x] = k[x]
      /\ t[Len(k) + 1] = s[n + 1]
  BY Longer
<1> HIDE DEF t
<1> DEFINE g == [x \in DOMAIN t |-> IF x \in DOMAIN k THEN e[x] ELSE n + 1]
<1>3. \A x \in DOMAIN t : x \in DOMAIN k \/ x = Len(k) + 1
  BY <1>2
<1>4. /\ \A x \in DOMAIN k : x \in DOMAIN t /\ g[x] = e[x] /\ e[x] \in 1 .. n
      /\ Len(k) + 1 \in DOMAIN t /\ g[Len(k) + 1] = n + 1
  BY <1>1, <1>2
<1>5. g \in [DOMAIN t -> 1 .. n + 1]
  <2>1. \A i \in 1 .. n : i \in 1 .. n + 1
    OBVIOUS
  <2>2. \A x \in DOMAIN t : g[x] \in 1 .. n + 1
    BY <1>3, <1>4, <2>1
  <2> QED BY <2>2
<1> HIDE DEF g
<1>6. \A x \in DOMAIN t : s[g[x]] = t[x]
  BY <1>1, <1>2, <1>3, <1>4
<1>7. \A x, y \in DOMAIN t : x < y => g[x] < g[y]
  <2> SUFFICES ASSUME NEW x \in DOMAIN t, NEW y \in DOMAIN t, x < y
               PROVE  g[x] < g[y]
    OBVIOUS
  <2>1. x \in DOMAIN k
    BY <1>2
  <2>2. CASE y \in DOMAIN k
    BY <1>1, <1>4, <2>1, <2>2
  <2>3. CASE y = Len(k) + 1
    BY <1>4, <2>1, <2>3
  <2> QED BY <1>3, <2>2, <2>3
<1> QED BY <1>5, <1>6, <1>7 DEF Thins, t

LEMMA KeptLines ==
  ASSUME NEW s, IsList(s)
  PROVE  /\ IsList(WithoutBlanks(s))
         /\ \A i \in DOMAIN WithoutBlanks(s) : NotBlank(WithoutBlanks(s)[i])
         /\ Thins(WithoutBlanks(s), s, Len(s))
<1>1. PICK run : /\ run[0] = <<>> /\ WithoutBlanks(s) = run[Len(s)]
                 /\ \A i \in 1 .. Len(s) : run[i] = KeepLine(run[i - 1], s[i])
  BY KeepRuns
<1>2. Len(s) \in Nat /\ DOMAIN s = 1 .. Len(s)
  BY Entries
<1> DEFINE Good(i) == /\ IsList(run[i]) /\ Thins(run[i], s, i)
                      /\ \A x \in DOMAIN run[i] : NotBlank(run[i][x])
           T == {i \in 0 .. Len(s) : Good(i)}
<1>3. Good(0)
  <2>1. Thins(<<>>, s, 0)
    <3> DEFINE e == [x \in DOMAIN <<>> |-> x]
    <3>1. e \in [DOMAIN <<>> -> 1 .. 0]
      BY NoEntries
    <3> HIDE DEF e
    <3> QED BY <3>1, NoEntries DEF Thins
  <2> QED BY <1>1, <2>1, NoEntries DEF IsList
<1>4. ASSUME NEW i \in 0 .. Len(s) - 1, Good(i)
      PROVE  Good(i + 1)
  <2> DEFINE k == run[i]
             l == s[i + 1]
  <2>1. run[i + 1] = KeepLine(k, l) /\ i \in Nat
    <3>1. i + 1 \in 1 .. Len(s) /\ (i + 1) - 1 = i
      BY <1>2
    <3> QED BY <1>1, <1>2, <3>1
  <2>2. /\ IsList(k) /\ Thins(k, s, i)
        /\ \A x \in DOMAIN k : NotBlank(k[x])
    BY <1>4
  <2> HIDE DEF k
  <2>3. CASE NotBlank(l)
    <3>1. run[i + 1] = Append(k, l)
      BY <2>1, <2>3 DEF KeepLine
    <3>2. IsList(Append(k, l)) /\ Thins(Append(k, l), s, i + 1)
      BY <2>1, <2>2, Longer, ThinsLonger
    <3>3. \A x \in DOMAIN Append(k, l) : NotBlank(Append(k, l)[x])
      <4> DEFINE t == Append(k, l)
      <4>1. /\ DOMAIN k = 1 .. Len(k) /\ Len(k) \in Nat
            /\ DOMAIN t = 1 .. Len(k) + 1
            /\ \A x \in DOMAIN k : t[x] = k[x]
            /\ t[Len(k) + 1] = l
        BY <2>2, Longer
      <4> HIDE DEF t
      <4>2. \A x \in DOMAIN t : x \in DOMAIN k \/ x = Len(k) + 1
        BY <4>1
      <4>3. \A x \in DOMAIN t : NotBlank(t[x])
        BY <2>2, <2>3, <4>1, <4>2
      <4> QED BY <4>3 DEF t
    <3> QED BY <3>1, <3>2, <3>3
  <2>4. CASE ~NotBlank(l)
    <3>1. run[i + 1] = k
      BY <2>1, <2>4 DEF KeepLine
    <3> QED BY <2>1, <2>2, <3>1, ThinsMore
  <2> QED BY <2>3, <2>4
<1> HIDE DEF Good
<1>5. 0 \in T /\ \A i \in 0 .. Len(s) - 1 : i \in T => i + 1 \in T
  BY <1>2, <1>3, <1>4
<1>6. \A i \in 0 .. Len(s) : i \in T
  <2> HIDE DEF T
  <2> QED BY <1>2, <1>5, Keep!UpTo
<1>7. Good(Len(s))
  BY <1>2, <1>6
<1> QED BY <1>1, <1>7 DEF Good

(* Lines without a blank one are kept as they are, whatever follows them.  *)
LEMMA KeptFront ==
  ASSUME NEW s, NEW t, IsList(s), IsList(t), \A i \in DOMAIN s : NotBlank(s[i])
  PROVE  WithoutBlanks(s \o t) = s \o WithoutBlanks(t)
<1> DEFINE u == Join(s, t)
           n == Len(s)
<1>1. /\ IsList(u) /\ Len(u) = n + Len(t) /\ n \in Nat /\ Len(t) \in Nat
      /\ \A i \in 1 .. n : u[i] = s[i]
      /\ \A i \in 1 .. Len(t) : u[n + i] = t[i]
      /\ DOMAIN s = 1 .. n
  BY Joined, Entries
<1> HIDE DEF u
<1>2. PICK run : /\ run[0] = <<>> /\ WithoutBlanks(u) = run[Len(u)]
                 /\ \A i \in 1 .. Len(u) : run[i] = KeepLine(run[i - 1], u[i])
  BY <1>1, KeepRuns
<1>3. PICK rest : /\ rest[0] = <<>> /\ WithoutBlanks(t) = rest[Len(t)]
                  /\ \A i \in 1 .. Len(t) :
                       rest[i] = KeepLine(rest[i - 1], t[i])
  BY KeepRuns
<1> DEFINE Same(i) == run[i] = SubSeq(s, 1, i)
           T == {i \in 0 .. n : Same(i)}
<1>4. Same(0)
  BY <1>1, <1>2, SubSeqEmpty
<1>5. ASSUME NEW i \in 0 .. n - 1, Same(i)
      PROVE  Same(i + 1)
  <2>1. run[i + 1] = KeepLine(run[i], s[i + 1]) /\ NotBlank(s[i + 1])
    <3>1. i + 1 \in 1 .. Len(u) /\ i + 1 \in 1 .. n /\ (i + 1) - 1 = i
      BY <1>1
    <3> QED BY <1>1, <1>2, <3>1
  <2>2. run[i + 1] = Append(SubSeq(s, 1, i), s[i + 1])
    BY <1>5, <2>1 DEF KeepLine
  <2>3. SubSeq(s, 1, i + 1) = Append(SubSeq(s, 1, i), s[i + 1])
    BY <1>1, Grown
  <2> QED BY <2>2, <2>3
<1> HIDE DEF Same
<1>6. \A i \in 0 .. n : i \in T
  <2>1. n \in Nat /\ 0 \in T /\ \A i \in 0 .. n - 1 : i \in T => i + 1 \in T
    BY <1>1, <1>4, <1>5
  <2> HIDE DEF T, n
  <2> QED BY <2>1, Keep!UpTo
<1>7. run[n] = s
  <2>1. Same(n)
    BY <1>1, <1>6
  <2>2. SubSeq(s, 1, n) = s
    BY Grown
  <2> QED BY <2>1, <2>2 DEF Same
<1> DEFINE Rest(i) == run[n + i] = s \o rest[i] /\ IsList(rest[i])
           U == {i \in 0 .. Len(t) : Rest(i)}
<1>8. Rest(0)
  <2>1. s \o <<>> = s
    BY ConcatEmptySeq DEF IsList
  <2> QED BY <1>1, <1>3, <1>7, <2>1 DEF IsList
<1>9. ASSUME NEW i \in 0 .. Len(t) - 1, Rest(i)
      PROVE  Rest(i + 1)
  <2>1. /\ run[n + (i + 1)] = KeepLine(run[n + i], t[i + 1])
        /\ rest[i + 1] = KeepLine(rest[i], t[i + 1])
    <3>1. /\ n + (i + 1) \in 1 .. Len(u) /\ i + 1 \in 1 .. Len(t)
          /\ (n + (i + 1)) - 1 = n + i /\ (i + 1) - 1 = i
      BY <1>1
    <3> QED BY <1>1, <1>2, <1>3, <3>1
  <2> DEFINE k == rest[i]
             l == t[i + 1]
  <2>2. run[n + i] = s \o k /\ IsList(k)
    BY <1>9
  <2> HIDE DEF k, l
  <2>3. IsList(Append(k, l))
    BY <2>2, Longer
  <2>4. Append(s \o k, l) = s \o Append(k, l)
    <3>1. IsList(s) /\ IsList(k)
      BY <2>2
    <3>2. \A e : Append(s \o k, e) = s \o Append(k, e)
      BY <3>1, AppendedLast
    <3> QED BY <3>2
  <2>5. /\ KeepLine(s \o k, l) = s \o KeepLine(k, l)
        /\ IsList(KeepLine(k, l))
    BY <2>2, <2>3, <2>4 DEF KeepLine
  <2> QED BY <2>1, <2>2, <2>5 DEF k, l
<1> HIDE DEF Rest
<1>10. \A i \in 0 .. Len(t) : i \in U
  <2>1. /\ Len(t) \in Nat /\ 0 \in U
        /\ \A i \in 0 .. Len(t) - 1 : i \in U => i + 1 \in U
    BY <1>1, <1>8, <1>9
  <2> HIDE DEF U
  <2> QED BY <2>1, Keep!UpTo
<1>11. Rest(Len(t))
  BY <1>1, <1>10
<1>12. WithoutBlanks(u) = s \o WithoutBlanks(t)
  BY <1>1, <1>2, <1>3, <1>11 DEF Rest
<1> QED BY <1>12 DEF u, Join
-----------------------------------------------------------------------------
(* A report, as its frames need it.                                        *)
Reportable(r) ==
  /\ IsList(r.description) /\ r.dateTime \in Int
  /\ IsFiniteSet(DOMAIN r.info) /\ NoColon \notin DOMAIN r.info

Keys(r) == SetToSeq(DOMAIN r.info)

LEMMA KeysAreAll ==
  ASSUME NEW r, Reportable(r)
  PROVE  /\ Len(Keys(r)) \in Nat /\ DOMAIN Keys(r) = 1 .. Len(Keys(r))
         /\ \A i \in DOMAIN Keys(r) : Keys(r)[i] \in DOMAIN r.info
         /\ \A i, j \in DOMAIN Keys(r) : Keys(r)[i] = Keys(r)[j] => i = j
         /\ \A k \in DOMAIN r.info : \E i \in DOMAIN Keys(r) : Keys(r)[i] = k
<1> DEFINE S == DOMAIN r.info
           n == Cardinality(S)
<1>1. IsFiniteSet(S) /\ n \in Nat
  BY FS_CardinalityType DEF Reportable
<1>2. \E f \in [1 .. n -> S] : IsInjective(f)
  BY <1>1, FS_CardinalityType DEF ExistsBijection, Bijection, Injection
<1>3. Keys(r) \in [1 .. n -> S] /\ IsInjective(Keys(r))
  BY <1>2 DEF Keys, SetToSeq
<1>4. Keys(r) \in Seq(S) /\ Len(Keys(r)) = n
  BY <1>1, <1>3, SeqDef, LenProperties
<1>5. IsFiniteSet(1 .. n) /\ Cardinality(1 .. n) = n
  BY <1>1, FS_Interval
<1>6. Keys(r) \in Surjection(1 .. n, S)
  BY <1>1, <1>3, <1>5, FS_Injection DEF Injection
<1> QED BY <1>1, <1>3, <1>4, <1>6 DEF IsInjective, Surjection

InfoLine(r, i) == Line(Keys(r)[i], r.info[Keys(r)[i]])

(* The lines of a report before its description.                           *)
Opening(r) ==
  <<Line("user", r.user), Line("city", r.city),
    Line("event name", r.eventName), Line("date time", Decimal(r.dateTime)),
    Heading("general information")>>
  \o InfoLines(r.info) \o <<Heading("description")>>

LEMMA OpeningIs ==
  ASSUME NEW r, Reportable(r)
  PROVE  LET n == Len(Keys(r))
         IN  /\ n \in Nat /\ IsList(Opening(r)) /\ Len(Opening(r)) = 6 + n
             /\ DOMAIN Opening(r) = 1 .. 6 + n
             /\ Opening(r)[1] = Line("user", r.user)
             /\ Opening(r)[2] = Line("city", r.city)
             /\ Opening(r)[3] = Line("event name", r.eventName)
             /\ Opening(r)[4] = Line("date time", Decimal(r.dateTime))
             /\ Opening(r)[5] = Heading("general information")
             /\ \A i \in 1 .. n : Opening(r)[5 + i] = InfoLine(r, i)
             /\ Opening(r)[6 + n] = Heading("description")
<1> DEFINE n == Len(Keys(r))
           top == <<Line("user", r.user), Line("city", r.city),
                    Line("event name", r.eventName),
                    Line("date time", Decimal(r.dateTime)),
                    Heading("general information")>>
           last == <<Heading("description")>>
           infos == InfoLines(r.info)
           both == Join(top, infos)
<1>1. n \in Nat /\ DOMAIN Keys(r) = 1 .. n
  BY KeysAreAll
<1>2. infos = [i \in 1 .. n |-> InfoLine(r, i)]
  BY <1>1 DEF InfoLines, InfoLine, Keys
<1>3. IsList(infos) /\ Len(infos) = n
  <2>1. infos = [i \in 1 .. n |-> infos[i]] /\ n \in Nat
    BY <1>1, <1>2
  <2> HIDE DEF infos, n
  <2> QED BY <2>1, ListFrom
<1>4. IsList(top) /\ Len(top) = 5
  BY FiveLines
<1>5. IsList(last) /\ Len(last) = 1 /\ last[1] = Heading("description")
  BY OneLine
<1>6. /\ top[1] = Line("user", r.user)
      /\ top[2] = Line("city", r.city)
      /\ top[3] = Line("event name", r.eventName)
      /\ top[4] = Line("date time", Decimal(r.dateTime))
      /\ top[5] = Heading("general information")
  OBVIOUS
<1>7. Opening(r) = Join(both, last)
  BY DEF Opening, Join
<1>8. \A i \in 1 .. n : infos[i] = InfoLine(r, i)
  BY <1>2
<1> HIDE DEF top, last, infos, n
<1>9. /\ IsList(both) /\ Len(both) = 5 + n
      /\ \A i \in 1 .. 5 : both[i] = top[i]
      /\ \A i \in 1 .. n : both[5 + i] = infos[i]
  <2>1. /\ IsList(both) /\ Len(both) = Len(top) + Len(infos)
        /\ \A i \in 1 .. Len(top) : both[i] = top[i]
        /\ \A i \in 1 .. Len(infos) : both[Len(top) + i] = infos[i]
    <3>1. IsList(top) /\ IsList(infos)
      BY <1>3, <1>4
    <3> QED BY <3>1, Joined
  <2> HIDE DEF both
  <2> QED BY <1>3, <1>4, <2>1
<1>10. /\ IsList(Opening(r)) /\ Len(Opening(r)) = (5 + n) + 1
       /\ DOMAIN Opening(r) = 1 .. (5 + n) + 1
       /\ \A i \in 1 .. 5 + n : Opening(r)[i] = both[i]
       /\ \A i \in 1 .. 1 : Opening(r)[(5 + n) + i] = last[i]
  <2> DEFINE u == Join(both, last)
  <2> HIDE DEF both
  <2>1. /\ IsList(u) /\ Len(u) = Len(both) + Len(last)
        /\ DOMAIN u = 1 .. Len(both) + Len(last)
        /\ \A i \in 1 .. Len(both) : u[i] = both[i]
        /\ \A i \in 1 .. Len(last) : u[Len(both) + i] = last[i]
    <3>1. IsList(both) /\ IsList(last)
      BY <1>5, <1>9
    <3> QED BY <3>1, Joined
  <2> HIDE DEF u
  <2>2. /\ IsList(u) /\ Len(u) = (5 + n) + 1
        /\ DOMAIN u = 1 .. (5 + n) + 1
        /\ \A i \in 1 .. 5 + n : u[i] = both[i]
        /\ \A i \in 1 .. 1 : u[(5 + n) + i] = last[i]
    BY <1>5, <1>9, <2>1
  <2> QED BY <1>7, <2>2 DEF u
<1>11. /\ (5 + n) + 1 = 6 + n
       /\ \A i \in 1 .. 5 : i \in 1 .. 5 + n
       /\ \A i \in 1 .. n : 5 + i \in 1 .. 5 + n
  BY <1>1
<1>12. \A i \in 1 .. 5 : Opening(r)[i] = top[i]
  BY <1>9, <1>10, <1>11
<1>13. \A i \in 1 .. n : Opening(r)[5 + i] = InfoLine(r, i)
  BY <1>8, <1>9, <1>10, <1>11
<1>14. Opening(r)[6 + n] = Heading("description")
  BY <1>5, <1>10, <1>11
<1>15. /\ Opening(r)[1] = top[1] /\ Opening(r)[2] = top[2]
       /\ Opening(r)[3] = top[3] /\ Opening(r)[4] = top[4]
       /\ Opening(r)[5] = top[5]
  BY <1>12
<1>16. /\ n \in Nat /\ IsList(Opening(r)) /\ Len(Opening(r)) = 6 + n
       /\ DOMAIN Opening(r) = 1 .. 6 + n
  BY <1>1, <1>10, <1>11
<1> QED BY <1>6, <1>13, <1>14, <1>15, <1>16 DEF n

LEMMA OpeningHasNoBlank ==
  ASSUME NEW r, Reportable(r)
  PROVE  \A i \in DOMAIN Opening(r) : NotBlank(Opening(r)[i])
<1> DEFINE n == Len(Keys(r))
<1>1. \A key, val : key # NoColon => NotBlank(Line(key, val))
  BY DEF NotBlank, Blank, Text, Line
<1>2. \A i \in 1 .. n : NotBlank(InfoLine(r, i))
  BY <1>1, KeysAreAll DEF InfoLine, Reportable
<1>3. /\ "user" # NoColon /\ "city" # NoColon /\ "event name" # NoColon
      /\ "date time" # NoColon /\ "general information" # NoColon
      /\ "description" # NoColon
  BY DEF NoColon
<1>4. n \in Nat /\ DOMAIN Opening(r) = 1 .. 6 + n
  BY OpeningIs
<1>5. \A i \in 1 .. 6 + n : \/ i \in 1 .. 5 \/ i = 6 + n
                            \/ i - 5 \in 1 .. n /\ 5 + (i - 5) = i
  BY <1>4
<1>6. \A i \in 1 .. 5 : NotBlank(Opening(r)[i])
  <2>1. /\ NotBlank(Opening(r)[1]) /\ NotBlank(Opening(r)[2])
        /\ NotBlank(Opening(r)[3]) /\ NotBlank(Opening(r)[4])
        /\ NotBlank(Opening(r)[5])
    BY <1>1, <1>3, OpeningIs DEF Heading
  <2> QED BY <2>1
<1>7. NotBlank(Opening(r)[6 + n])
  BY <1>1, <1>3, OpeningIs DEF Heading
<1>8. \A i \in 1 .. n : NotBlank(Opening(r)[5 + i])
  BY <1>2, OpeningIs
<1> HIDE DEF n
<1> QED BY <1>4, <1>5, <1>6, <1>7, <1>8
-----------------------------------------------------------------------------
(* The frames a report makes on its way.                                   *)
Rest(r) == WithoutBlanks(r.description)
Sent(r) == Join(Opening(r), Rest(r))

LEMMA FirstBlankIs ==
  ASSUME NEW s, NEW k \in Nat \ {0}, k \in DOMAIN s,
         \A i \in DOMAIN s : i \in Nat \ {0},
         s[k] = Blank, \A j \in 1 .. k - 1 : NotBlank(s[j])
  PROVE  FirstBlank(s) = k
<1>1. \A i \in DOMAIN s :
        s[i] = Blank /\ (\A j \in 1 .. i - 1 : NotBlank(s[j])) => i = k
  <2> SUFFICES ASSUME NEW i \in DOMAIN s, s[i] = Blank, i # k,
                      \A j \in 1 .. i - 1 : NotBlank(s[j])
               PROVE  FALSE
    OBVIOUS
  <2>1. i \in Nat \ {0}
    OBVIOUS
  <2>2. i \in 1 .. k - 1 \/ k \in 1 .. i - 1
    BY <2>1
  <2> QED BY <2>2 DEF NotBlank
<1> QED BY <1>1 DEF FirstBlank

(* What stands behind the first list of two.                               *)
LEMMA Behind ==
  ASSUME NEW s, NEW t, IsList(s), IsList(t)
  PROVE  SubSeq(Join(s, t), Len(s) + 1, Len(Join(s, t))) = t
<1> DEFINE u == Join(s, t)
           v == SubSeq(u, Len(s) + 1, Len(u))
<1>1. /\ IsList(u) /\ Len(u) = Len(s) + Len(t)
      /\ Len(s) \in Nat /\ Len(t) \in Nat
      /\ \A i \in 1 .. Len(t) : u[Len(s) + i] = t[i]
  BY Joined
<1> HIDE DEF u
<1>2. Len(s) \in 0 .. Len(u) /\ Len(u) - Len(s) = Len(t)
  BY <1>1
<1>3. /\ IsList(v) /\ Len(v) = Len(u) - Len(s)
      /\ \A i \in 1 .. Len(u) - Len(s) : v[i] = u[Len(s) + i]
  BY <1>1, <1>2, Cut
<1> HIDE DEF v
<1>4. v = t
  <2>1. Len(v) = Len(t) /\ \A i \in 1 .. Len(v) : v[i] = t[i]
    BY <1>1, <1>2, <1>3
  <2> QED BY <1>3, <2>1, SameLists
<1> QED BY <1>4 DEF u, v

LEMMA BodyIs ==
  ASSUME NEW r, Reportable(r)
  PROVE  Body(r) = Join(Opening(r), r.description) /\ IsList(Body(r))
<1>1. Body(r) = Join(Opening(r), r.description)
  BY DEF Body, Opening, Join
<1>2. IsList(Opening(r)) /\ IsList(r.description)
  BY OpeningIs DEF Reportable
<1> QED BY <1>1, <1>2, Joined

(* The body the server reads is the report without its blank lines.        *)
LEMMA ServerReads ==
  ASSUME NEW r, Reportable(r)
  PROVE  /\ StompMessage(SendFrame(r)).body = Sent(r)
         /\ IsList(Sent(r)) /\ IsList(Rest(r))
<1> DEFINE top == <<Line("destination", r.channel), Blank>>
           s == SendFrame(r)
<1>1. IsList(top) /\ Len(top) = 2
  <2>1. top \in Seq({Line("destination", r.channel), Blank})
    OBVIOUS
  <2> QED BY <2>1, Listed
<1>2. NotBlank(top[1]) /\ top[2] = Blank
  BY DEF NotBlank, Blank, Text, Line, NoColon
<1>3. s = Join(top, Body(r))
  BY DEF SendFrame, Join
<1> HIDE DEF top, s
<1>4. IsList(Body(r)) /\ Body(r) = Join(Opening(r), r.description)
  BY BodyIs
<1>5. /\ Len(s) = Len(top) + Len(Body(r)) /\ Len(Body(r)) \in Nat
      /\ DOMAIN s = 1 .. Len(top) + Len(Body(r))
      /\ \A i \in 1 .. Len(top) : s[i] = top[i]
  BY <1>1, <1>3, <1>4, Joined
<1>6. FirstBlank(s) = 2
  <2>1. /\ 2 \in DOMAIN s /\ \A i \in DOMAIN s : i \in Nat \ {0}
        /\ s[1] = top[1] /\ s[2] = top[2]
    BY <1>1, <1>5
  <2>2. \A j \in 1 .. 2 - 1 : NotBlank(s[j])
    BY <1>2, <2>1
  <2> QED BY <1>2, <2>1, <2>2, FirstBlankIs
<1>7. SubSeq(s, 2 + 1, Len(s)) = Body(r)
  BY <1>1, <1>3, <1>4, Behind
<1>8. StompMessage(s).body = WithoutBlanks(Body(r))
  BY <1>6, <1>7 DEF StompMessage
<1>9. WithoutBlanks(Body(r)) = Sent(r)
  <2>1. /\ IsList(Opening(r)) /\ IsList(r.description)
        /\ \A i \in DOMAIN Opening(r) : NotBlank(Opening(r)[i])
    BY OpeningIs, OpeningHasNoBlank DEF Reportable
  <2> QED BY <1>4, <2>1, KeptFront DEF Join, Sent, Rest
<1>10. IsList(Opening(r)) /\ IsList(Rest(r))
  BY OpeningIs, KeptLines DEF Reportable, Rest
<1> QED BY <1>8, <1>9, <1>10, Joined DEF s, Sent

(* A subscriber reads the same body, with its id where the mark stands.    *)
LEMMA TopLines ==
  ASSUME NEW dest, NEW d
  PROVE  /\ NotBlank(Marked(Line("subscription", SubIdMark), d))
         /\ NotBlank(Marked(Line("destination", dest), d))
         /\ Marked(Blank, d) = Blank
<1>1. ASSUME NEW key, NEW val, key # NoColon
      PROVE  NotBlank(Marked(Line(key, val), d))
  <2>1. Marked(Line(key, val), d).key = key
    BY DEF Marked, Line
  <2>2. Blank.key = NoColon
    BY DEF Blank, Text, Line
  <2> QED BY <1>1, <2>1, <2>2 DEF NotBlank
<1>2. "subscription" # NoColon /\ "destination" # NoColon
  BY DEF NoColon
<1>3. Marked(Blank, d) = Blank
  <2>1. Blank.val # SubIdMark
    BY DEF Blank, Text, Line, SubIdMark
  <2> QED BY <2>1, Zenon DEF Marked
<1> QED BY <1>1, <1>2, <1>3

LEMMA SubscriberReads ==
  ASSUME NEW r, Reportable(r), NEW d
  PROVE  /\ IsList(ParseFrame(Delivered(r, d)).body)
         /\ Len(ParseFrame(Delivered(r, d)).body) = Len(Sent(r))
         /\ \A i \in 1 .. Len(Sent(r)) :
              ParseFrame(Delivered(r, d)).body[i] = Marked(Sent(r)[i], d)
<1> DEFINE m == StompMessage(SendFrame(r))
           top == <<Line("subscription", SubIdMark),
                    Line("destination", m.headers["destination"]), Blank>>
           u == Join(top, Sent(r))
           s == Delivered(r, d)
<1>1. m.body = Sent(r) /\ IsList(Sent(r))
  BY ServerReads
<1> HIDE DEF m
<1>2. IsList(top) /\ Len(top) = 3
  BY ThreeLines
<1>3. /\ NotBlank(Marked(top[1], d)) /\ NotBlank(Marked(top[2], d))
      /\ Marked(top[3], d) = Blank
  BY TopLines
<1>4. s = [i \in DOMAIN u |-> Marked(u[i], d)]
  BY <1>1 DEF Delivered, MessageFrame, m, Join
<1> HIDE DEF top, s
<1>5. /\ Len(u) = Len(top) + Len(Sent(r)) /\ Len(Sent(r)) \in Nat
      /\ DOMAIN u = 1 .. Len(top) + Len(Sent(r)) /\ IsList(u)
      /\ \A i \in 1 .. Len(top) : u[i] = top[i]
      /\ \A i \in 1 .. Len(Sent(r)) : u[Len(top) + i] = Sent(r)[i]
  BY <1>1, <1>2, Joined
<1> HIDE DEF u
<1> DEFINE n == Len(Sent(r))
<1>6. /\ n \in Nat /\ DOMAIN u = 1 .. 3 + n
      /\ u[1] = top[1] /\ u[2] = top[2] /\ u[3] = top[3]
      /\ \A i \in 1 .. n : u[3 + i] = Sent(r)[i]
  BY <1>2, <1>5
<1> HIDE DEF n
<1>7. IsList(s) /\ Len(s) = 3 + n /\ DOMAIN s = 1 .. 3 + n
  <2>1. s = [i \in 1 .. 3 + n |-> s[i]] /\ 3 + n \in Nat
    BY <1>4, <1>6
  <2> QED BY <2>1, ListFrom
<1>8. FirstBlank(s) = 3
  <2>1. /\ 3 \in DOMAIN s /\ \A i \in DOMAIN s : i \in Nat \ {0}
        /\ 1 \in DOMAIN u /\ 2 \in DOMAIN u /\ 3 \in DOMAIN u
    BY <1>6, <1>7
  <2>2. NotBlank(s[1]) /\ NotBlank(s[2]) /\ s[3] = Blank
    BY <1>3, <1>4, <1>6, <2>1
  <2>3. \A j \in 1 .. 3 - 1 : NotBlank(s[j])
    BY <2>2
  <2> QED BY <2>1, <2>2, <2>3, FirstBlankIs
<1> DEFINE b == SubSeq(s, 3 + 1, Len(s))
<1>9. ParseFrame(s).body = b
  BY <1>8 DEF ParseFrame
<1>10. /\ IsList(b) /\ Len(b) = n
       /\ \A i \in 1 .. n : b[i] = s[3 + i]
  <2>1. 3 \in 0 .. Len(s) /\ Len(s) - 3 = n
    BY <1>6, <1>7
  <2>2. /\ IsList(b) /\ Len(b) = Len(s) - 3
        /\ \A i \in 1 .. Len(s) - 3 : b[i] = s[3 + i]
    BY <1>7, <2>1, Cut
  <2> HIDE DEF b
  <2> QED BY <2>1, <2>2
<1> HIDE DEF b
<1>11. \A i \in 1 .. n : b[i] = Marked(Sent(r)[i], d)
  <2> TAKE i \in 1 .. n
  <2>1. 3 + i \in DOMAIN u
    BY <1>6
  <2>2. s[3 + i] = Marked(u[3 + i], d)
    BY <1>4, <2>1
  <2> QED BY <1>6, <1>10, <2>2
<1> QED BY <1>9, <1>10, <1>11 DEF s, n
-----------------------------------------------------------------------------
(* The parser of a body, line by line.                                     *)
Parser == INSTANCE FoldFacts WITH Op <- ParseLine

GI == Heading("general information")
DE == Heading("description")

LEMMA ParseFolds ==
  \A base, s : FoldLeft(ParseLine, base, s) = Parser!Folded(base, s)
BY DEF Parser!Folded, FoldLeft, Parser!FoldLeft, MapThenFoldSet,
       Parser!MapThenFoldSet, Max, Parser!Max

(* What the parser has read so far, and for whom.                          *)
IsParsed(st) ==
  /\ st = [part |-> st.part, rec |-> st.rec]
  /\ st.rec = [channel |-> st.rec.channel, user |-> st.rec.user,
               city |-> st.rec.city, eventName |-> st.rec.eventName,
               dateTime |-> st.rec.dateTime,
               description |-> st.rec.description, info |-> st.rec.info]
  /\ st.rec.dateTime \in Int

LEMMA Numeric == \A t : Stoi(t) \in Int
<1> TAKE t
<1>1. \A n \in Ints : n \in Int
  <2>1. IntMax \in Nat
    BY EventAssumption
  <2>2. -IntMax - 1 \in Int
    BY <2>1
  <2> QED BY <2>1, <2>2 DEF Ints
<1>2. CASE \E n \in Ints : Decimal(n) = t
  <2>1. Stoi(t) = CHOOSE n \in Ints : Decimal(n) = t
    BY <1>2 DEF Stoi
  <2> QED BY <1>1, <1>2, <2>1
<1>3. CASE ~ \E n \in Ints : Decimal(n) = t
  BY <1>3 DEF Stoi
<1> QED BY <1>2, <1>3

LEMMA FieldSets ==
  ASSUME NEW st, IsParsed(st), NEW key, NEW val
  PROVE  /\ IsParsed(Field(st, key, val))
         /\ Field(st, key, val).part = st.part
         /\ Field(st, key, val).rec.user = IF key = "user" THEN val
                                           ELSE st.rec.user
<1> DEFINE new == Field(st, key, val)
<1>1. CASE key = "user"
  BY <1>1 DEF Field, IsParsed
<1>2. CASE key = "city"
  BY <1>2 DEF Field, IsParsed
<1>3. CASE key = "event name"
  BY <1>3 DEF Field, IsParsed
<1>4. CASE key = "date time"
  BY <1>4, Numeric DEF Field, IsParsed
<1>5. CASE key \notin Fields
  <2>1. \/ new = st
        \/ new = [st EXCEPT !.rec.info = With(@, key, val)]
    BY <1>5 DEF Field, Fields
  <2> HIDE DEF new
  <2>2. IsParsed(new) /\ new.part = st.part /\ new.rec.user = st.rec.user
    BY <2>1 DEF IsParsed
  <2> QED BY <1>5, <2>2 DEF Fields, new
<1> QED BY <1>1, <1>2, <1>3, <1>4, <1>5 DEF Fields

(* A line that a parser in this part takes for the user's.                 *)
Naming(part, l) ==
  l \notin {GI, DE} /\ part # "description" /\ l.key # NoColon /\ Trim(l.key) = "user"

LEMMA LineSets ==
  ASSUME NEW st, IsParsed(st), NEW l
  PROVE  /\ IsParsed(ParseLine(st, l))
         /\ l = GI => ParseLine(st, l).part = "general"
         /\ l = DE => ParseLine(st, l).part = "description"
         /\ l # GI /\ l # DE => ParseLine(st, l).part = st.part
         /\ \/ ParseLine(st, l).rec.user = st.rec.user
            \/ /\ Naming(st.part, l)
               /\ ParseLine(st, l).rec.user = Trim(l.val)
<1>1. Blank # GI /\ Blank # DE /\ GI # DE
  BY DEF Blank, Text, Heading, Line, GI, DE, NoColon
<1>2. CASE l = Blank
  <2>1. ParseLine(st, l) = st
    BY <1>1, <1>2 DEF ParseLine, GI, DE
  <2> QED BY <1>1, <1>2, <2>1
<1>3. CASE l = GI
  BY <1>1, <1>3 DEF ParseLine, IsParsed, GI, DE
<1>4. CASE l = DE
  BY <1>1, <1>4 DEF ParseLine, IsParsed, GI, DE
<1>5. CASE l # Blank /\ l # GI /\ l # DE
  <2>1. CASE st.part = "description"
    BY <1>5, <2>1 DEF ParseLine, IsParsed, GI, DE
  <2>2. CASE st.part # "description" /\ l.key # NoColon
    <3>1. ParseLine(st, l) = Field(st, Trim(l.key), Trim(l.val))
      BY <1>5, <2>2 DEF ParseLine, GI, DE
    <3> QED BY <1>5, <2>2, <3>1, FieldSets DEF Naming
  <2>3. CASE st.part # "description" /\ l.key = NoColon
    BY <1>5, <2>3 DEF ParseLine, GI, DE
  <2> QED BY <2>1, <2>2, <2>3
<1> QED BY <1>2, <1>3, <1>4, <1>5

(* Where it starts, and how it goes on.                                    *)
At(part, rec) == [part |-> part, rec |-> rec]
Fresh(ch) ==
  [channel |-> ch, user |-> "", city |-> "", eventName |-> "", dateTime |-> 0,
   description |-> <<>>, info |-> <<>>]

LEMMA StartsParsed ==
  ASSUME NEW ch
  PROVE  LET start == At("fields", Fresh(ch))
         IN  start.rec.user = "" /\ IsParsed(start)
<1> DEFINE fresh == Fresh(ch)
           start == At("fields", fresh)
<1>1. /\ fresh.channel = ch /\ fresh.user = "" /\ fresh.city = ""
      /\ fresh.eventName = "" /\ fresh.dateTime = 0
      /\ fresh.description = <<>> /\ fresh.info = <<>>
  BY DEF Fresh
<1>2. fresh = [channel |-> fresh.channel, user |-> fresh.user,
               city |-> fresh.city, eventName |-> fresh.eventName,
               dateTime |-> fresh.dateTime,
               description |-> fresh.description, info |-> fresh.info]
  BY <1>1 DEF Fresh
<1>3. fresh.dateTime \in Int
  BY DEF Fresh
<1> HIDE DEF fresh
<1>4. start.rec = fresh /\ start = [part |-> start.part, rec |-> start.rec]
  BY DEF At
<1> HIDE DEF start
<1>5. start.rec.user = ""
  BY <1>1, <1>4
<1>6. start.rec = [channel |-> start.rec.channel, user |-> start.rec.user,
                   city |-> start.rec.city, eventName |-> start.rec.eventName,
                   dateTime |-> start.rec.dateTime,
                   description |-> start.rec.description,
                   info |-> start.rec.info]
  BY <1>2, <1>4
<1>7. start.rec.dateTime \in Int
  BY <1>3, <1>4, Zenon
<1>8. IsParsed(start)
  BY <1>4, <1>6, <1>7, Zenon DEF IsParsed
<1> QED BY <1>5, <1>8, Zenon DEF start, fresh

LEMMA ParserReads ==
  ASSUME NEW frame, IsList(ParseFrame(frame).body)
  PROVE  LET b == ParseFrame(frame).body
             ch == ParseFrame(frame).headers["destination"]
         IN  \E run :
               /\ run[0] = At("fields", Fresh(ch))
               /\ \A i \in 1 .. Len(b) : run[i] = ParseLine(run[i - 1], b[i])
               /\ ParseEvent(frame) = run[Len(b)].rec
<1> DEFINE b == ParseFrame(frame).body
           ch == ParseFrame(frame).headers["destination"]
           start == At("fields", Fresh(ch))
<1>1. Len(b) \in Nat /\ DOMAIN b = 1 .. Len(b)
  BY Entries
<1>2. ParseEvent(frame) = Parser!Folded(start, b).rec
  BY ParseFolds, Zenon DEF ParseEvent, At, Fresh
<1> HIDE DEF start, b
<1>3. \E run : /\ Parser!IsRun(run, start, b)
               /\ Parser!Folded(start, b) = run[Len(b)]
  BY <1>1, Parser!FoldRuns
<1> QED BY <1>2, <1>3 DEF Parser!IsRun, b, start

-----------------------------------------------------------------------------
(* Whom a parser takes for the user of a report.                           *)
Names(r, d, u) == \E l \in UserLines(r) : u = Trim(Marked(l, d).val)

LEMMA MarkedKeeps ==
  ASSUME NEW d \in Clients, NEW l
  PROVE  /\ Marked(l, d).key = l.key
         /\ Marked(l, d) = GI <=> l = GI
         /\ Marked(l, d) = DE <=> l = DE
<1>1. \A key, val : Line(key, val).key = key /\ Line(key, val).val = val
  BY DEF Line
<1>2. GI.val = "" /\ DE.val = "" /\ SubIdMark # ""
  BY <1>1 DEF GI, DE, Heading, SubIdMark
<1>3. SubIdOf[d] # ""
  BY TextAssumption
<1>4. CASE l.val = SubIdMark
  <2>1. Marked(l, d) = Line(l.key, SubIdOf[d])
    BY <1>4 DEF Marked
  <2>2. Marked(l, d).key = l.key /\ Marked(l, d).val = SubIdOf[d]
    BY <1>1, <2>1
  <2>3. Marked(l, d) # GI /\ Marked(l, d) # DE
    BY <1>2, <1>3, <2>2
  <2>4. l # GI /\ l # DE
    BY <1>2, <1>4
  <2> QED BY <2>2, <2>3, <2>4
<1>5. CASE l.val # SubIdMark
  <2>1. Marked(l, d) = l
    BY <1>5 DEF Marked
  <2> QED BY <2>1
<1> QED BY <1>4, <1>5

LEMMA OpeningNames ==
  ASSUME NEW r, Reportable(r), NEW i \in DOMAIN Opening(r),
         Opening(r)[i] \notin {GI, DE}, Trim(Opening(r)[i].key) = "user"
  PROVE  Opening(r)[i] \in UserLines(r)
<1> DEFINE n == Len(Keys(r))
           l == Opening(r)[i]
<1>1. \A key, val : Line(key, val).key = key
  BY DEF Line
<1>2. /\ Trim("city") # "user" /\ Trim("event name") # "user"
      /\ Trim("date time") # "user"
  BY TextAssumption DEF Fields
<1>3. n \in Nat /\ DOMAIN Opening(r) = 1 .. 6 + n
  BY OpeningIs
<1>4. \/ i \in 1 .. 5 \/ i = 6 + n
      \/ i - 5 \in 1 .. n /\ 5 + (i - 5) = i
  BY <1>3
<1>5. CASE i = 1
  BY <1>5, OpeningIs DEF UserLines
<1>6. CASE i \in 2 .. 4
  <2>1. /\ Opening(r)[2] = Line("city", r.city)
        /\ Opening(r)[3] = Line("event name", r.eventName)
        /\ Opening(r)[4] = Line("date time", Decimal(r.dateTime))
    BY OpeningIs
  <2>2. /\ Opening(r)[2].key = "city" /\ Opening(r)[3].key = "event name"
        /\ Opening(r)[4].key = "date time"
    BY <1>1, <2>1
  <2>3. i = 2 \/ i = 3 \/ i = 4
    BY <1>6
  <2> QED BY <1>2, <2>2, <2>3
<1>7. CASE i = 5 \/ i = 6 + n
  BY <1>7, OpeningIs DEF GI, DE
<1>8. CASE i - 5 \in 1 .. n /\ 5 + (i - 5) = i
  <2> DEFINE k == Keys(r)[i - 5]
  <2>1. l = Line(k, r.info[k])
    BY <1>8, OpeningIs DEF InfoLine
  <2>2. k \in DOMAIN r.info
    BY <1>8, KeysAreAll
  <2>3. Trim(k) = "user"
    BY <1>1, <2>1
  <2> HIDE DEF k, l
  <2> QED BY <2>1, <2>2, <2>3 DEF UserLines, l
<1> QED BY <1>4, <1>5, <1>6, <1>7, <1>8

LEMMA RestNames ==
  ASSUME NEW r, Reportable(r), NEW i \in Nat \ {0}, NEW j \in Nat \ {0}, i < j,
         i \in DOMAIN Rest(r), j \in DOMAIN Rest(r), Rest(r)[i] = GI,
         Trim(Rest(r)[j].key) = "user"
  PROVE  Rest(r)[j] \in UserLines(r)
<1> DEFINE s == r.description
           k == Rest(r)
<1>1. PICK e \in [DOMAIN k -> 1 .. Len(s)] :
        /\ \A x \in DOMAIN k : s[e[x]] = k[x]
        /\ \A x, y \in DOMAIN k : x < y => e[x] < e[y]
  BY KeptLines DEF Reportable, Rest, Thins
<1>2. Len(s) \in Nat /\ DOMAIN s = 1 .. Len(s)
  BY Entries DEF Reportable
<1> HIDE DEF k
<1>3. /\ e[i] \in 1 .. Len(s) /\ e[j] \in 1 .. Len(s) /\ e[i] < e[j]
      /\ s[e[i]] = GI /\ s[e[j]] = k[j] /\ Trim(s[e[j]].key) = "user"
  BY <1>1 DEF k
<1>4. e[i] \in 1 .. e[j] - 1 /\ e[j] \in DOMAIN s
  BY <1>2, <1>3
<1>5. s[e[j]] \in UserLines(r)
  BY <1>3, <1>4 DEF UserLines, GI
<1> QED BY <1>3, <1>5 DEF k

LEMMA SentIs ==
  ASSUME NEW r, Reportable(r)
  PROVE  LET n == 6 + Len(Keys(r))
         IN  /\ n \in Nat /\ DOMAIN Opening(r) = 1 .. n /\ n >= 6
             /\ Len(Rest(r)) \in Nat /\ DOMAIN Rest(r) = 1 .. Len(Rest(r))
             /\ Len(Sent(r)) = n + Len(Rest(r))
             /\ \A i \in 1 .. n : Sent(r)[i] = Opening(r)[i]
             /\ \A i \in 1 .. Len(Rest(r)) : Sent(r)[n + i] = Rest(r)[i]
             /\ Sent(r)[n] = DE
<1> DEFINE n == 6 + Len(Keys(r))
<1>1. /\ n \in Nat /\ DOMAIN Opening(r) = 1 .. n /\ IsList(Opening(r))
      /\ Len(Opening(r)) = n /\ n >= 6 /\ Opening(r)[n] = DE
  <2>1. /\ Len(Keys(r)) \in Nat /\ DOMAIN Opening(r) = 1 .. 6 + Len(Keys(r))
        /\ IsList(Opening(r)) /\ Len(Opening(r)) = 6 + Len(Keys(r))
        /\ Opening(r)[6 + Len(Keys(r))] = Heading("description")
    BY OpeningIs
  <2> QED BY <2>1 DEF DE
<1>2. IsList(Rest(r))
  BY ServerReads
<1> HIDE DEF n
<1>3. /\ Len(Sent(r)) = Len(Opening(r)) + Len(Rest(r))
      /\ \A i \in 1 .. Len(Opening(r)) : Sent(r)[i] = Opening(r)[i]
      /\ \A i \in 1 .. Len(Rest(r)) : Sent(r)[Len(Opening(r)) + i] = Rest(r)[i]
  BY <1>1, <1>2, Joined DEF Sent
<1>4. /\ Len(Sent(r)) = n + Len(Rest(r))
      /\ \A i \in 1 .. n : Sent(r)[i] = Opening(r)[i]
      /\ \A i \in 1 .. Len(Rest(r)) : Sent(r)[n + i] = Rest(r)[i]
  BY <1>1, <1>3
<1>5. Sent(r)[n] = DE
  BY <1>1, <1>4
<1>6. Len(Rest(r)) \in Nat /\ DOMAIN Rest(r) = 1 .. Len(Rest(r))
  BY <1>2, Entries
<1> QED BY <1>1, <1>4, <1>5, <1>6 DEF n
(* A parser reads a number for the date and, if it reads a user at all,    *)
(* one the report names.                                                   *)
LEMMA ParsedIs ==
  ASSUME NEW r, Reportable(r), NEW d \in Clients
  PROVE  LET p == ParseEvent(Delivered(r, d))
         IN  p.dateTime \in Int /\ (p.user = "" \/ Names(r, d, p.user))
<1> DEFINE p == ParseEvent(Delivered(r, d))
           b == ParseFrame(Delivered(r, d)).body
           n == 6 + Len(Keys(r))
           m == Len(Sent(r))
<1>1. /\ IsList(b) /\ Len(b) = m
      /\ \A i \in 1 .. m : b[i] = Marked(Sent(r)[i], d)
  BY SubscriberReads
<1>2. /\ n \in Nat /\ DOMAIN Opening(r) = 1 .. n /\ n >= 6
      /\ Len(Rest(r)) \in Nat /\ DOMAIN Rest(r) = 1 .. Len(Rest(r))
      /\ m = n + Len(Rest(r))
      /\ \A i \in 1 .. n : Sent(r)[i] = Opening(r)[i]
      /\ \A i \in 1 .. Len(Rest(r)) : Sent(r)[n + i] = Rest(r)[i]
      /\ Sent(r)[n] = DE
  BY SentIs
<1>3. \E run : /\ run[0].rec.user = "" /\ IsParsed(run[0])
               /\ \A i \in 1 .. Len(b) : run[i] = ParseLine(run[i - 1], b[i])
               /\ p = run[Len(b)].rec
  <2> DEFINE ch == ParseFrame(Delivered(r, d)).headers["destination"]
  <2>1. PICK run :
          /\ run[0] = At("fields", Fresh(ch))
          /\ \A i \in 1 .. Len(b) : run[i] = ParseLine(run[i - 1], b[i])
          /\ p = run[Len(b)].rec
    BY <1>1, ParserReads
  <2> HIDE DEF ch
  <2>2. run[0].rec.user = "" /\ IsParsed(run[0])
    BY <2>1, StartsParsed, Zenon
  <2> QED BY <2>1, <2>2, Zenon
<1>9. PICK run : /\ run[0].rec.user = "" /\ IsParsed(run[0])
                 /\ \A i \in 1 .. Len(b) : run[i] = ParseLine(run[i - 1], b[i])
                 /\ p = run[Len(b)].rec
  BY <1>3
<1> HIDE DEF b, n, m, p
<1> DEFINE Fine(i) ==
             /\ IsParsed(run[i])
             /\ run[i].rec.user = "" \/ Names(r, d, run[i].rec.user)
             /\ i >= n /\ run[i].part # "description" =>
                  \E j \in 1 .. i - n : Rest(r)[j] = GI
           T == {i \in 0 .. m : Fine(i)}
<1>4. Fine(0)
  <2>1. ~(0 >= n)
    BY <1>2
  <2> QED BY <1>9, <2>1
<1>5. ASSUME NEW i \in 0 .. m - 1, Fine(i)
      PROVE  Fine(i + 1)
  <2> DEFINE st == run[i]
             new == run[i + 1]
             l == Sent(r)[i + 1]
  <2>1. i \in Nat /\ i + 1 \in 1 .. m /\ m \in Nat
    BY <1>2
  <2>2. new = ParseLine(st, Marked(l, d))
    <3>1. (i + 1) - 1 = i
      BY <2>1
    <3> QED BY <1>1, <1>9, <2>1, <3>1
  <2>3. /\ IsParsed(st)
        /\ st.rec.user = "" \/ Names(r, d, st.rec.user)
        /\ i >= n /\ st.part # "description" =>
             \E j \in 1 .. i - n : Rest(r)[j] = GI
    BY <1>5
  <2>4. \/ i + 1 \in 1 .. n /\ l = Opening(r)[i + 1] /\ ~(i >= n)
        \/ /\ (i + 1) - n \in 1 .. Len(Rest(r)) /\ i >= n
           /\ l = Rest(r)[(i + 1) - n]
    <3>1. CASE i + 1 \in 1 .. n
      BY <1>2, <2>1, <3>1
    <3>2. CASE i + 1 \notin 1 .. n
      <4> DEFINE j == (i + 1) - n
      <4>1. j \in 1 .. Len(Rest(r)) /\ n + j = i + 1 /\ i >= n
        BY <1>2, <2>1, <3>2
      <4> QED BY <1>2, <4>1
    <3> QED BY <3>1, <3>2
  <2> HIDE DEF st, new, l
  <2>5. /\ IsParsed(new)
        /\ l = GI => new.part = "general"
        /\ l = DE => new.part = "description"
        /\ l # GI /\ l # DE => new.part = st.part
        /\ \/ new.rec.user = st.rec.user
           \/ /\ l \notin {GI, DE} /\ st.part # "description"
              /\ Trim(l.key) = "user" /\ new.rec.user = Trim(Marked(l, d).val)
    <3> DEFINE k == Marked(l, d)
    <3>1. k.key = l.key /\ (k = GI <=> l = GI) /\ (k = DE <=> l = DE)
      BY MarkedKeeps
    <3> HIDE DEF k
    <3>2. /\ IsParsed(new)
          /\ k = GI => new.part = "general"
          /\ k = DE => new.part = "description"
          /\ k # GI /\ k # DE => new.part = st.part
          /\ \/ new.rec.user = st.rec.user
             \/ Naming(st.part, k) /\ new.rec.user = Trim(k.val)
      <4>1. new = ParseLine(st, k)
        BY <2>2 DEF k
      <4> QED BY <2>3, <4>1, LineSets
    <3> QED BY <3>1, <3>2 DEF Naming, k
  <2>6. l \notin {GI, DE} /\ st.part # "description" /\ Trim(l.key) = "user"
          => l \in UserLines(r)
    <3> SUFFICES ASSUME l \notin {GI, DE}, st.part # "description",
                        Trim(l.key) = "user"
                 PROVE  l \in UserLines(r)
      OBVIOUS
    <3>1. CASE i + 1 \in 1 .. n /\ l = Opening(r)[i + 1]
      BY <1>2, <3>1, OpeningNames
    <3>2. CASE /\ (i + 1) - n \in 1 .. Len(Rest(r)) /\ i >= n
               /\ l = Rest(r)[(i + 1) - n]
      <4> DEFINE h == (i + 1) - n
      <4>1. PICK j \in 1 .. i - n : Rest(r)[j] = GI
        BY <2>3, <3>2
      <4>2. /\ j \in Nat \ {0} /\ h \in Nat \ {0} /\ j < h
            /\ j \in DOMAIN Rest(r) /\ h \in DOMAIN Rest(r)
        BY <1>2, <2>1, <3>2
      <4>3. Rest(r)[h] = l
        BY <3>2
      <4> HIDE DEF h
      <4> QED BY <4>1, <4>2, <4>3, RestNames
    <3> QED BY <2>4, <3>1, <3>2
  <2>7. new.rec.user = "" \/ Names(r, d, new.rec.user)
    BY <2>3, <2>5, <2>6 DEF Names
  <2>8. ASSUME i + 1 >= n, new.part # "description"
        PROVE  \E j \in 1 .. (i + 1) - n : Rest(r)[j] = GI
    <3>1. CASE i + 1 \in 1 .. n
      <4>1. i + 1 = n
        BY <1>2, <2>8, <3>1
      <4>2. l = DE
        BY <1>2, <4>1 DEF l
      <4> QED BY <2>5, <2>8, <4>2
    <3>2. CASE l = GI /\ i + 1 \notin 1 .. n
      BY <2>4, <3>2
    <3>3. CASE l # GI /\ i + 1 \notin 1 .. n
      <4>1. i >= n /\ st.part # "description"
        BY <2>4, <2>5, <2>8, <3>3
      <4>2. PICK j \in 1 .. i - n : Rest(r)[j] = GI
        BY <2>3, <4>1
      <4>3. j \in 1 .. (i + 1) - n
        BY <1>2, <2>1
      <4> QED BY <4>2, <4>3
    <3> QED BY <3>1, <3>2, <3>3
  <2> QED BY <2>5, <2>7, <2>8 DEF new
<1> HIDE DEF Fine
<1>6. m \in Nat /\ 0 \in T /\ \A i \in 0 .. m - 1 : i \in T => i + 1 \in T
  BY <1>2, <1>4, <1>5
<1>7. \A i \in 0 .. m : i \in T
  <2> HIDE DEF T
  <2> QED BY <1>6, Parser!UpTo
<1>8. Fine(m)
  BY <1>6, <1>7
<1> QED BY <1>1, <1>9, <1>8 DEF Fine, IsParsed, p, b
-----------------------------------------------------------------------------
(* What is on the wire was reported, and what is stored came that way.     *)
Known(sent, d, u) ==
  \E c \in Clients : \E j \in DOMAIN sent[c] :
    u = sent[c][j].user \/ Names(sent[c][j], d, u)

OriginsOK ==
  \A d \in Clients, ch \in Channels, u \in Users :
    \A i \in DOMAIN store[d][ch][u] :
      store[d][ch][u][i].dateTime \in Int /\ Known(reported, d, u)

LEMMA RecordsAre ==
  ASSUME NEW c \in Clients, NEW f \in Files[c], NEW i \in DOMAIN RecordsOf(c, f)
  PROVE  Reportable(RecordsOf(c, f)[i])
<1> DEFINE ev == f.events[i]
<1>1. i \in DOMAIN f.events /\ RecordsOf(c, f)[i] = Record(c, f.channel, ev)
  BY DEF RecordsOf
<1>2. ev \in ToSet(f.events)
  BY <1>1 DEF ToSet
<1>3. /\ ev.date.secs \in Int /\ IntMax \in Nat
      /\ ev.description \in Seq(ToSet(ev.description))
      /\ IsFiniteSet(DOMAIN ev.info) /\ NoColon \notin DOMAIN ev.info
  BY <1>2, EventAssumption
<1> HIDE DEF ev
<1>4. DateOf(ev.date) \in Int
  <2>1. \A n \in Int : Wrap(n) \in Int
    <3>1. 2 * IntMax + 2 \in Nat \ {0}
      BY <1>3
    <3> QED BY <1>3, <3>1 DEF Wrap
  <2> QED BY <1>3, <2>1 DEF DateOf
<1> QED BY <1>1, <1>3, <1>4 DEF Reportable, Record, IsList

LEMMA ReportsAre ==
  ASSUME JobsOK, NEW c \in Clients
  PROVE  /\ \A i \in DOMAIN reported[c] : Reportable(reported[c][i])
         /\ job[c] # <<>> => Reportable(Head(job[c]))
<1> DEFINE s == reported[c]
           t == job[c]
<1>1. IsList(s) /\ IsList(t)
  BY DEF JobsOK
<1>2. CASE s = <<>> /\ t = <<>>
  BY <1>2, NoEntries
<1>3. ASSUME NEW f \in Files[c], s \o t = RecordsOf(c, f)
      PROVE  /\ \A i \in DOMAIN s : Reportable(s[i])
             /\ t # <<>> => Reportable(Head(t))
  <2> DEFINE u == Join(s, t)
  <2>1. \A i \in DOMAIN u : Reportable(u[i])
    BY <1>3, RecordsAre DEF Join
  <2> HIDE DEF s, t
  <2>2. /\ DOMAIN u = 1 .. Len(s) + Len(t)
        /\ Len(s) \in Nat /\ Len(t) \in Nat
        /\ \A i \in 1 .. Len(s) : u[i] = s[i]
        /\ \A i \in 1 .. Len(t) : u[Len(s) + i] = t[i]
    BY <1>1, Joined
  <2> HIDE DEF u
  <2>3. DOMAIN s = 1 .. Len(s)
    BY <1>1, Entries
  <2>4. \A i \in 1 .. Len(s) : i \in 1 .. Len(s) + Len(t)
    BY <2>2
  <2>5. ASSUME t # <<>>
        PROVE  Reportable(Head(t))
    <3>1. Head(t) = t[1] /\ Len(t) \in Nat \ {0}
      BY <1>1, <2>5, Shorter
    <3>2. 1 \in 1 .. Len(t) /\ Len(s) + 1 \in 1 .. Len(s) + Len(t)
      BY <2>2, <3>1
    <3>3. u[Len(s) + 1] = t[1]
      BY <2>2, <3>2
    <3> QED BY <2>1, <2>2, <3>1, <3>2, <3>3
  <2> QED BY <2>1, <2>2, <2>3, <2>4, <2>5
<1> QED BY <1>2, <1>3 DEF JobsOK, FileOf

LEMMA ReportsStay ==
  ASSUME JobsOK, [Next]_vars, NEW c \in Clients, NEW j \in DOMAIN reported[c]
  PROVE  j \in DOMAIN reported'[c] /\ reported'[c][j] = reported[c][j]
<1>1. CASE UNCHANGED reported
  BY <1>1
<1>2. ASSUME NEW b \in Clients, ReportNext(b)
      PROVE  j \in DOMAIN reported'[c] /\ reported'[c][j] = reported[c][j]
  <2>1. reported' = [reported EXCEPT ![b] = Append(@, Head(job[b]))]
    BY <1>2 DEF ReportNext
  <2>2. CASE b # c
    BY <2>1, <2>2 DEF JobsOK
  <2>3. CASE b = c
    <3> DEFINE s == reported[c]
    <3>1. reported'[c] = Append(s, Head(job[c])) /\ IsList(s)
      BY <2>1, <2>3 DEF JobsOK
    <3> HIDE DEF s
    <3>2. \A e : /\ DOMAIN Append(s, e) = 1 .. Len(s) + 1
                 /\ DOMAIN s = 1 .. Len(s) /\ Len(s) \in Nat
                 /\ \A i \in DOMAIN s : Append(s, e)[i] = s[i]
      BY <3>1, Longer
    <3>3. j \in DOMAIN s
      BY DEF s
    <3>4. j \in 1 .. Len(s) + 1
      BY <3>2, <3>3
    <3> QED BY <3>1, <3>2, <3>3, <3>4 DEF s
  <2> QED BY <2>2, <2>3
<1> QED BY <1>1, <1>2 DEF Next, ReportStarts, ReceiveMessage, Summary, vars

(* The frames in s are those of the last reports in t, in order.           *)
Follows(s, t, d) ==
  /\ Len(s) <= Len(t)
  /\ \A i \in DOMAIN s : s[i] = Delivered(t[(Len(t) - Len(s)) + i], d)

FifoOK ==
  /\ wire = [c \in Clients |-> [d \in Clients |-> wire[c][d]]]
  /\ \A c, d \in Clients :
       IsList(wire[c][d]) /\ Follows(wire[c][d], reported[c], d)

LEMMA SentFollows ==
  ASSUME NEW s, NEW t, NEW d, IsList(s), IsList(t), Follows(s, t, d), NEW r
  PROVE  LET s1 == Append(s, Delivered(r, d))
             t1 == Append(t, r)
         IN  /\ Follows(s1, t1, d) /\ IsList(s1) /\ IsList(t1)
             /\ Len(t1) - Len(s1) = Len(t) - Len(s)
<1> DEFINE x == Delivered(r, d)
           s1 == Append(s, x)
           t1 == Append(t, r)
<1>1. /\ IsList(s1) /\ DOMAIN s = 1 .. Len(s) /\ Len(s) \in Nat
      /\ DOMAIN s1 = 1 .. Len(s) + 1 /\ \A i \in DOMAIN s : s1[i] = s[i]
      /\ s1[Len(s) + 1] = x
  BY Longer
<1>2. /\ IsList(t1) /\ DOMAIN t = 1 .. Len(t) /\ Len(t) \in Nat
      /\ DOMAIN t1 = 1 .. Len(t) + 1 /\ \A i \in DOMAIN t : t1[i] = t[i]
      /\ t1[Len(t) + 1] = r
  BY Longer
<1>3. Len(s1) = Len(s) + 1 /\ Len(t1) = Len(t) + 1
  <2> HIDE DEF s1, t1
  <2>1. /\ Len(s1) \in Nat /\ DOMAIN s1 = 1 .. Len(s1)
        /\ Len(t1) \in Nat /\ DOMAIN t1 = 1 .. Len(t1)
    BY <1>1, <1>2, Entries
  <2>2. \A m, n \in Nat : 1 .. m = 1 .. n + 1 => m = n + 1
    <3> TAKE m, n \in Nat
    <3> HAVE 1 .. m = 1 .. n + 1
    <3>1. n + 1 \in 1 .. m /\ ~(n + 2 \in 1 .. m)
      OBVIOUS
    <3> QED BY <3>1
  <2> QED BY <1>1, <1>2, <2>1, <2>2
<1>4. Len(s) <= Len(t) /\ \A i \in DOMAIN s :
        s[i] = Delivered(t[(Len(t) - Len(s)) + i], d)
  BY DEF Follows
<1> HIDE DEF s1, t1
<1>5. Len(t1) - Len(s1) = Len(t) - Len(s) /\ Len(s1) <= Len(t1)
  BY <1>1, <1>2, <1>3, <1>4
<1>6. ASSUME NEW i \in DOMAIN s1
      PROVE  s1[i] = Delivered(t1[(Len(t1) - Len(s1)) + i], d)
  <2>1. CASE i \in DOMAIN s
    <3>1. (Len(t) - Len(s)) + i \in DOMAIN t
      BY <1>1, <1>2, <1>4, <2>1
    <3> QED BY <1>1, <1>2, <1>4, <1>5, <2>1, <3>1
  <2>2. CASE i = Len(s) + 1
    <3>1. (Len(t) - Len(s)) + i = Len(t) + 1
      BY <1>1, <1>2, <2>2
    <3> QED BY <1>1, <1>2, <1>5, <2>2, <3>1 DEF x
  <2> QED BY <1>1, <2>1, <2>2
<1> QED BY <1>1, <1>2, <1>5, <1>6 DEF Follows, s1, t1

LEMMA TakenFollows ==
  ASSUME NEW s, NEW t, NEW d, IsList(s), IsList(t), Follows(s, t, d), s # <<>>
  PROVE  /\ Follows(Tail(s), t, d) /\ IsList(Tail(s))
         /\ Len(t) - Len(s) \in Nat /\ Len(t) \in Nat
         /\ Len(t) - Len(Tail(s)) = (Len(t) - Len(s)) + 1
         /\ (Len(t) - Len(s)) + 1 \in 1 .. Len(t)
         /\ Head(s) = Delivered(t[(Len(t) - Len(s)) + 1], d)
<1> DEFINE u == Tail(s)
<1>1. /\ IsList(u) /\ DOMAIN s = 1 .. Len(s) /\ Len(s) \in Nat \ {0}
      /\ Head(s) = s[1] /\ DOMAIN u = 1 .. Len(s) - 1
      /\ \A i \in DOMAIN u : u[i] = s[i + 1]
  BY Shorter
<1>2. Len(t) \in Nat
  BY Entries
<1>3. Len(u) = Len(s) - 1
  <2> HIDE DEF u
  <2>1. Len(u) \in Nat /\ DOMAIN u = 1 .. Len(u)
    BY <1>1, Entries
  <2>2. \A m \in Nat, n \in Nat \ {0} : 1 .. m = 1 .. n - 1 => m = n - 1
    <3> TAKE m \in Nat, n \in Nat \ {0}
    <3> HAVE 1 .. m = 1 .. n - 1
    <3>1. (n - 1 = 0 \/ n - 1 \in 1 .. m) /\ ~(n \in 1 .. m)
      OBVIOUS
    <3> QED BY <3>1
  <2> QED BY <1>1, <2>1, <2>2
<1>4. Len(s) <= Len(t) /\ \A i \in DOMAIN s :
        s[i] = Delivered(t[(Len(t) - Len(s)) + i], d)
  BY DEF Follows
<1> HIDE DEF u
<1>5. /\ Len(t) - Len(s) \in Nat /\ Len(t) - Len(u) = (Len(t) - Len(s)) + 1
      /\ (Len(t) - Len(s)) + 1 \in 1 .. Len(t) /\ Len(u) <= Len(t)
  BY <1>1, <1>2, <1>3, <1>4
<1>6. Head(s) = Delivered(t[(Len(t) - Len(s)) + 1], d)
  <2>1. 1 \in DOMAIN s
    BY <1>1
  <2> QED BY <1>1, <1>4, <2>1
<1>7. ASSUME NEW i \in DOMAIN u
      PROVE  u[i] = Delivered(t[(Len(t) - Len(u)) + i], d)
  <2>1. /\ i + 1 \in DOMAIN s
        /\ (Len(t) - Len(s)) + (i + 1) = (Len(t) - Len(u)) + i
    BY <1>1, <1>2, <1>3
  <2> QED BY <1>1, <1>4, <2>1
<1> QED BY <1>1, <1>2, <1>5, <1>6, <1>7 DEF Follows, u

LEMMA FifoStarts == Init => FifoOK
<1>1. IsList(<<>>) /\ DOMAIN <<>> = {} /\ Len(<<>>) = 0
  BY NoEntries DEF IsList
<1>2. \A d : Follows(<<>>, <<>>, d)
  BY <1>1 DEF Follows
<1> QED BY <1>1, <1>2 DEF Init, FifoOK

LEMMA FifoStays ==
  ASSUME JobsOK, FifoOK, [Next]_vars
  PROVE  FifoOK'
<1> DEFINE Fine(s, t, d) == IsList(s) /\ Follows(s, t, d)
<1>1. \A c, d \in Clients : Fine(wire[c][d], reported[c], d)
  BY DEF FifoOK
<1>2. ASSUME NEW b \in Clients, ReportNext(b)
      PROVE  /\ wire' = [c \in Clients |-> [d \in Clients |-> wire'[c][d]]]
             /\ \A c, d \in Clients : Fine(wire'[c][d], reported'[c], d)
  <2> DEFINE r == Head(job[b])
             w(d) == Append(wire[b][d], Delivered(r, d))
             t == Append(reported[b], r)
  <2>1. /\ wire' = [wire EXCEPT ![b] = [d \in Clients |-> w(d)]]
        /\ reported' = [reported EXCEPT ![b] = t]
    BY <1>2 DEF ReportNext
  <2>2. \A d \in Clients : Fine(w(d), t, d)
    <3> TAKE d \in Clients
    <3> DEFINE s == wire[b][d]
               u == reported[b]
    <3>1. IsList(s) /\ Follows(s, u, d) /\ IsList(u)
      BY DEF FifoOK, JobsOK
    <3> HIDE DEF s, u, r
    <3>2. Fine(Append(s, Delivered(r, d)), Append(u, r), d)
      BY <3>1, SentFollows
    <3> QED BY <3>2 DEF s, u
  <2> HIDE DEF Fine, w, t
  <2>3. \A c, d \in Clients :
          /\ wire'[c][d] = IF c = b THEN w(d) ELSE wire[c][d]
          /\ reported'[c] = IF c = b THEN t ELSE reported[c]
    BY <2>1 DEF FifoOK, JobsOK
  <2>4. \A c, d \in Clients : Fine(wire'[c][d], reported'[c], d)
    BY <1>1, <2>2, <2>3
  <2>5. wire' = [c \in Clients |-> [d \in Clients |-> wire'[c][d]]]
    <3>1. \A c \in Clients : wire'[c] = [d \in Clients |-> wire'[c][d]]
      BY <2>1 DEF FifoOK
    <3>2. wire' = [c \in Clients |-> wire'[c]]
      BY <2>1 DEF FifoOK
    <3> QED BY <3>1, <3>2
  <2> QED BY <2>4, <2>5
<1>3. ASSUME NEW b \in Clients, NEW e \in Clients, ReceiveMessage(b, e)
      PROVE  /\ wire' = [c \in Clients |-> [d \in Clients |-> wire'[c][d]]]
             /\ \A c, d \in Clients : Fine(wire'[c][d], reported'[c], d)
  <2> DEFINE s == wire[b][e]
             t == reported[b]
  <2>1. wire' = [wire EXCEPT ![b][e] = Tail(@)] /\ s # <<>> /\ reported' = reported
    BY <1>3 DEF ReceiveMessage
  <2>2. Fine(Tail(s), t, e)
    <3>1. IsList(s) /\ Follows(s, t, e) /\ IsList(t)
      BY DEF FifoOK, JobsOK
    <3> HIDE DEF s, t
    <3> QED BY <2>1, <3>1, TakenFollows
  <2> HIDE DEF Fine
  <2>3. \A c, d \in Clients :
          wire'[c][d] = IF c = b /\ d = e THEN Tail(s) ELSE wire[c][d]
    BY <2>1 DEF FifoOK
  <2>4. \A c, d \in Clients : Fine(wire'[c][d], reported'[c], d)
    BY <1>1, <2>1, <2>2, <2>3
  <2>5. wire' = [c \in Clients |-> [d \in Clients |-> wire'[c][d]]]
    <3>1. \A c \in Clients : wire'[c] = [d \in Clients |-> wire'[c][d]]
      BY <2>1 DEF FifoOK
    <3>2. wire' = [c \in Clients |-> wire'[c]]
      BY <2>1 DEF FifoOK
    <3> QED BY <3>1, <3>2
  <2> QED BY <2>4, <2>5
<1>4. CASE UNCHANGED <<wire, reported>>
  BY <1>1, <1>4 DEF FifoOK
<1>5. /\ wire' = [c \in Clients |-> [d \in Clients |-> wire'[c][d]]]
      /\ \A c, d \in Clients : Fine(wire'[c][d], reported'[c], d)
  BY <1>1, <1>2, <1>3, <1>4 DEF Next, ReportStarts, Summary, vars, FifoOK
<1> QED BY <1>5 DEF FifoOK

LEMMA KnownStays ==
  ASSUME JobsOK, [Next]_vars, NEW d, NEW u, Known(reported, d, u)
  PROVE  Known(reported', d, u)
<1>0. PICK c \in Clients : \E j \in DOMAIN reported[c] :
        u = reported[c][j].user \/ Names(reported[c][j], d, u)
  BY DEF Known
<1>1. PICK j \in DOMAIN reported[c] :
        u = reported[c][j].user \/ Names(reported[c][j], d, u)
  BY <1>0
<1>2. j \in DOMAIN reported'[c] /\ reported'[c][j] = reported[c][j]
  BY ReportsStay
<1>3. u = reported'[c][j].user \/ Names(reported'[c][j], d, u)
  BY <1>1, <1>2
<1>4. \E k \in DOMAIN reported'[c] :
        u = reported'[c][k].user \/ Names(reported'[c][k], d, u)
  BY <1>2, <1>3
<1> QED BY <1>4 DEF Known
(* What a step may put into the store of a client.                         *)
LEMMA StoredIsKnown ==
  ASSUME JobsOK, StoresOK, FifoOK, [Next]_vars, NEW d \in Clients
  PROVE  \/ store'[d] = store[d]
         \/ \E r : /\ store'[d] = Stored(store[d], r)
                   /\ r.dateTime \in Int /\ Known(reported', d, r.user)
<1>1. ASSUME NEW b \in Clients, ReportNext(b)
      PROVE  \/ store'[d] = store[d]
             \/ \E r : /\ store'[d] = Stored(store[d], r)
                       /\ r.dateTime \in Int /\ Known(reported', d, r.user)
  <2> DEFINE r == Head(job[b])
             s == reported[b]
  <2>1. /\ store' = [store EXCEPT ![b] = Stored(@, r)] /\ job[b] # <<>>
        /\ reported' = [reported EXCEPT ![b] = Append(@, r)]
    BY <1>1 DEF ReportNext
  <2>2. CASE b # d
    BY <2>1, <2>2 DEF StoresOK
  <2>3. CASE b = d
    <3>1. store'[d] = Stored(store[d], r) /\ Reportable(r)
      BY <2>1, <2>3, ReportsAre DEF StoresOK
    <3>2. reported'[d] = Append(s, r) /\ IsList(s)
      BY <2>1, <2>3 DEF JobsOK
    <3> HIDE DEF r, s
    <3>3. /\ Len(s) + 1 \in DOMAIN Append(s, r)
          /\ Append(s, r)[Len(s) + 1] = r
      <4>1. /\ DOMAIN Append(s, r) = 1 .. Len(s) + 1 /\ Len(s) \in Nat
            /\ Append(s, r)[Len(s) + 1] = r
        BY <3>2, Longer
      <4> QED BY <4>1
    <3>4. \E j \in DOMAIN reported'[d] : reported'[d][j] = r
      BY <3>2, <3>3
    <3>5. \E j \in DOMAIN reported'[d] : r.user = reported'[d][j].user
      BY <3>4
    <3>6. Known(reported', d, r.user)
      BY <3>5 DEF Known
    <3> QED BY <3>1, <3>6 DEF Reportable
  <2> QED BY <2>2, <2>3
<1>2. ASSUME NEW b \in Clients, NEW e \in Clients, ReceiveMessage(b, e)
      PROVE  \/ store'[d] = store[d]
             \/ \E r : /\ store'[d] = Stored(store[d], r)
                       /\ r.dateTime \in Int /\ Known(reported', d, r.user)
  <2> DEFINE s == wire[b][e]
             r == ParseEvent(Head(s))
  <2>1. /\ s # <<>> /\ reported' = reported
        /\ store' = IF r.user = "" THEN store
                    ELSE [store EXCEPT ![e] = Stored(@, r)]
    BY <1>2 DEF ReceiveMessage
  <2>2. CASE e # d \/ r.user = ""
    BY <2>1, <2>2 DEF StoresOK
  <2>3. CASE e = d /\ r.user # ""
    <3>1. store'[d] = Stored(store[d], r)
      BY <2>1, <2>3 DEF StoresOK
    <3>2. \E j \in DOMAIN reported[b] :
            Head(s) = Delivered(reported[b][j], d)
      <4> DEFINE t == reported[b]
      <4>1. IsList(s) /\ IsList(t) /\ Follows(s, t, d)
        BY <2>3 DEF FifoOK, JobsOK
      <4> HIDE DEF s, t
      <4>2. /\ (Len(t) - Len(s)) + 1 \in 1 .. Len(t)
            /\ Head(s) = Delivered(t[(Len(t) - Len(s)) + 1], d)
        BY <2>1, <4>1, TakenFollows
      <4>3. DOMAIN t = 1 .. Len(t)
        BY <4>1, Entries
      <4>4. \E j \in DOMAIN t : Head(s) = Delivered(t[j], d)
        BY <4>2, <4>3
      <4> QED BY <4>4 DEF t
    <3>8. PICK j \in DOMAIN reported[b] :
            Head(s) = Delivered(reported[b][j], d)
      BY <3>2
    <3>3. Reportable(reported[b][j])
      BY ReportsAre
    <3>4. /\ r.dateTime \in Int
          /\ r.user = "" \/ Names(reported[b][j], d, r.user)
      BY <3>8, <3>3, ParsedIs
    <3>5. Names(reported[b][j], d, r.user)
      BY <2>3, <3>4
    <3> HIDE DEF r
    <3>6. Known(reported, d, r.user)
      BY <3>5 DEF Known
    <3>7. Known(reported', d, r.user)
      BY <3>6, KnownStays
    <3> QED BY <3>1, <3>4, <3>7
  <2> QED BY <2>2, <2>3
<1>3. CASE UNCHANGED store
  BY <1>3
<1> QED BY <1>1, <1>2, <1>3 DEF Next, ReportStarts, Summary, vars

LEMMA OriginsStay ==
  ASSUME JobsOK, StoresOK, FifoOK, OriginsOK, [Next]_vars
  PROVE  OriginsOK'
<1> SUFFICES ASSUME NEW d \in Clients, NEW ch \in Channels, NEW u \in Users,
                    NEW i \in DOMAIN store'[d][ch][u]
             PROVE  store'[d][ch][u][i].dateTime \in Int /\ Known(reported', d, u)
  BY DEF OriginsOK
<1> DEFINE s == store[d][ch][u]
           t == store'[d][ch][u]
<1>1. \A k \in DOMAIN s : s[k].dateTime \in Int /\ Known(reported, d, u)
  BY DEF OriginsOK
<1>2. \A k \in DOMAIN s : s[k].dateTime \in Int /\ Known(reported', d, u)
  BY <1>1, KnownStays
<1>3. CASE t = s
  BY <1>2, <1>3
<1>4. ASSUME NEW r, t = Append(s, r), r.user = u, r.dateTime \in Int,
             Known(reported', d, r.user)
      PROVE  t[i].dateTime \in Int /\ Known(reported', d, u)
  <2>1. IsList(s) /\ i \in DOMAIN t
    BY DEF StoresOK, IsStore
  <2> HIDE DEF s, t
  <2>2. /\ DOMAIN s = 1 .. Len(s) /\ Len(s) \in Nat
        /\ DOMAIN Append(s, r) = 1 .. Len(s) + 1
        /\ \A k \in DOMAIN s : Append(s, r)[k] = s[k]
        /\ Append(s, r)[Len(s) + 1] = r
    BY <2>1, Longer
  <2>3. i \in DOMAIN s \/ i = Len(s) + 1
    BY <1>4, <2>1, <2>2
  <2>4. t[i].dateTime \in Int
    BY <1>2, <1>4, <2>2, <2>3
  <2> QED BY <1>4, <2>4
<1>5. t = s \/ \E r : /\ t = Append(s, r) /\ r.user = u
                      /\ r.dateTime \in Int /\ Known(reported', d, r.user)
  <2> DEFINE e == store[d]
  <2>1. CASE store'[d] = e
    BY <2>1
  <2>2. ASSUME NEW r, store'[d] = Stored(e, r), r.dateTime \in Int,
               Known(reported', d, r.user)
        PROVE  \/ t = s
               \/ t = Append(s, r) /\ r.user = u
    <3>1. IsStore(e)
      BY DEF StoresOK
    <3> HIDE DEF e
    <3>2. \/ Stored(e, r)[ch][u] = e[ch][u]
          \/ Stored(e, r)[ch][u] = Append(e[ch][u], r) /\ u = r.user
      BY <3>1, StoredAdds
    <3> QED BY <2>2, <3>2 DEF e
  <2> HIDE DEF t, s
  <2>3. \/ store'[d] = e
        \/ \E r : /\ store'[d] = Stored(e, r)
                  /\ r.dateTime \in Int /\ Known(reported', d, r.user)
    BY StoredIsKnown
  <2> HIDE DEF e
  <2> QED BY <2>1, <2>2, <2>3
<1> QED BY <1>3, <1>4, <1>5

LEMMA OriginsStart == Init => OriginsOK
<1>1. DOMAIN <<>> = {}
  BY NoEntries
<1>2. Init => \A d \in Clients, ch \in Channels, u \in Users :
                store[d][ch][u] = <<>>
  BY DEF Init
<1> QED BY <1>1, <1>2 DEF OriginsOK

THEOREM OriginsHold ==
  Spec => [](JobsOK /\ StoresOK /\ SummariesOK /\ FifoOK /\ OriginsOK)
<1>1. Init => JobsOK /\ StoresOK /\ SummariesOK /\ FifoOK /\ OriginsOK
  BY JobsStart, SummariesStart, FifoStarts, OriginsStart
<1>2. JobsOK /\ StoresOK /\ SummariesOK /\ FifoOK /\ OriginsOK /\ [Next]_vars
        => (JobsOK /\ StoresOK /\ SummariesOK /\ FifoOK /\ OriginsOK)'
  BY JobsStay, StoresStay, SummariesStay, FifoStays, OriginsStay
<1> QED BY <1>1, <1>2, PTL DEF Spec

(* Records are held under the name of their reporter, or one the report    *)
(* itself gives (AttributedToReporter).                                    *)
THEOREM Attribution == Spec => []AttributedToReporter
<1>1. StoresOK /\ OriginsOK => AttributedToReporter
  <2> SUFFICES ASSUME StoresOK, OriginsOK, NEW d \in Clients,
                      NEW ch \in Channels, NEW u \in Users,
                      store[d][ch][u] # <<>>
               PROVE  Known(reported, d, u)
    BY DEF AttributedToReporter, Known, Names
  <2> DEFINE s == store[d][ch][u]
  <2>1. IsList(s)
    BY DEF StoresOK, IsStore
  <2> HIDE DEF s
  <2>2. DOMAIN s = 1 .. Len(s) /\ Len(s) \in Nat \ {0}
    BY <2>1, Shorter DEF s
  <2>3. 1 \in DOMAIN s
    BY <2>2
  <2> QED BY <2>3 DEF OriginsOK, s
<1> QED BY <1>1, OriginsHold, PTL

(* Summaries go by the dates of the files, as far as these were read right *)
(* (Chronological).                                                        *)
THEOREM InOrder == Spec => []Chronological
<1>1. StoresOK /\ SummariesOK /\ OriginsOK => Chronological
  <2> SUFFICES ASSUME StoresOK, SummariesOK, OriginsOK, NEW c \in Clients,
                      NEW i \in DOMAIN written[c].reports,
                      NEW j \in DOMAIN written[c].reports, i < j,
                      written[c].reports[i].dateTime
                        = SecsOf(written[c].reports[i]),
                      written[c].reports[j].dateTime
                        = SecsOf(written[c].reports[j])
               PROVE  SecsOf(written[c].reports[i])
                        <= SecsOf(written[c].reports[j])
    BY DEF Chronological
  <2> DEFINE w == written[c]
             s == w.reports
  <2>1. w # NoSummary
    <3>1. NoSummary.reports = <<>>
      BY DEF NoSummary
    <3>2. i \in DOMAIN s
      OBVIOUS
    <3> HIDE DEF w
    <3> QED BY <3>1, <3>2, NoEntries
  <2>2. /\ w.channel \in Channels /\ w.user \in Users /\ Sorted(s)
        /\ Embeds(s, store[c][w.channel][w.user])
    BY <2>1 DEF SummariesOK, SummaryOK
  <2>3. \A k \in DOMAIN store[c][w.channel][w.user] :
          store[c][w.channel][w.user][k].dateTime \in Int
    BY <2>2 DEF OriginsOK
  <2> HIDE DEF w
  <2>4. \A k \in DOMAIN s : s[k].dateTime \in Int
    <3> DEFINE t == store[c][w.channel][w.user]
    <3>1. PICK e \in Injection(DOMAIN s, DOMAIN t) :
            \A k \in DOMAIN s : s[k] = t[e[k]]
      BY <2>2 DEF Embeds
    <3>2. \A k \in DOMAIN s : e[k] \in DOMAIN t
      BY <3>1 DEF Injection
    <3> QED BY <2>3, <3>1, <3>2
  <2>5. ~(s[j].dateTime < s[i].dateTime)
    BY <2>2 DEF Sorted, Before, w
  <2>6. s[i].dateTime <= s[j].dateTime
    BY <2>4, <2>5 DEF w
  <2> QED BY <2>6 DEF w
<1> QED BY <1>1, OriginsHold, PTL

-----------------------------------------------------------------------------
(* The header a list of lines ends with is read.                           *)
Heads == INSTANCE FoldFacts WITH Op <- AddHeader

LEMMA HeadFolds == \A s : Headers(s) = Heads!Folded(<<>>, s)
BY DEF Headers, Heads!Folded, FoldLeft, Heads!FoldLeft, MapThenFoldSet,
       Heads!MapThenFoldSet, Max, Heads!Max

LEMMA LastHeader ==
  ASSUME NEW s, IsList(s), s # <<>>
  PROVE  Headers(s)[s[Len(s)].key] = s[Len(s)].val
<1> DEFINE n == Len(s)
           l == s[n]
<1>1. n \in Nat \ {0} /\ DOMAIN s = 1 .. n
  BY Shorter
<1>2. PICK run : /\ Heads!IsRun(run, <<>>, s)
                 /\ Heads!Folded(<<>>, s) = run[n]
  BY <1>1, Heads!FoldRuns
<1>3. run[n] = AddHeader(run[n - 1], l)
  BY <1>1, <1>2 DEF Heads!IsRun
<1> HIDE DEF n, l
<1>4. AddHeader(run[n - 1], l)[l.key] = l.val
  BY DEF AddHeader, With
<1> QED BY <1>2, <1>3, <1>4, HeadFolds DEF n, l

(* A report as it was made of an event.                                    *)
IsReport(r) ==
  /\ Reportable(r)
  /\ r = [channel |-> r.channel, user |-> r.user, city |-> r.city,
          eventName |-> r.eventName, dateTime |-> r.dateTime,
          description |-> r.description, info |-> r.info]
  /\ r.dateTime \in Ints /\ Trim(r.channel) = r.channel /\ Trim(r.user) = r.user

LEMMA FramesAddress ==
  ASSUME NEW r, Reportable(r)
  PROVE  StompMessage(SendFrame(r)).headers["destination"] = r.channel
<1> DEFINE top == <<Line("destination", r.channel), Blank>>
           s == SendFrame(r)
           h == <<Line("destination", r.channel)>>
<1>1. IsList(top) /\ Len(top) = 2
  <2>1. top \in Seq({Line("destination", r.channel), Blank})
    OBVIOUS
  <2> QED BY <2>1, Listed
<1>2. NotBlank(top[1]) /\ top[2] = Blank /\ top[1] = h[1]
  BY DEF NotBlank, Blank, Text, Line, NoColon
<1>3. s = Join(top, Body(r))
  BY DEF SendFrame, Join
<1>4. IsList(h) /\ Len(h) = 1 /\ h # <<>>
  BY OneLine
<1> HIDE DEF top, s
<1>5. /\ IsList(s) /\ Len(s) = Len(top) + Len(Body(r)) /\ Len(Body(r)) \in Nat
      /\ DOMAIN s = 1 .. Len(top) + Len(Body(r))
      /\ \A i \in 1 .. Len(top) : s[i] = top[i]
  BY <1>1, <1>3, BodyIs, Joined
<1>6. s[1] = top[1] /\ s[2] = top[2]
  BY <1>1, <1>5
<1>7. FirstBlank(s) = 2
  <2>1. 2 \in DOMAIN s /\ \A i \in DOMAIN s : i \in Nat \ {0}
    BY <1>1, <1>5
  <2>2. \A j \in 1 .. 2 - 1 : NotBlank(s[j])
    BY <1>2, <1>6
  <2> QED BY <1>2, <1>6, <2>1, <2>2, FirstBlankIs
<1>8. SubSeq(s, 1, 2 - 1) = h
  <2>1. /\ s \in Seq(ToSet(s)) /\ 1 <= Len(s) /\ Len(s) \in Nat
    BY <1>1, <1>5 DEF IsList
  <2>2. /\ SubSeq(s, 1, 1) \in Seq(ToSet(s)) /\ Len(SubSeq(s, 1, 1)) = 1
        /\ SubSeq(s, 1, 1)[1] = s[1]
    BY <2>1, SubSeqProperties
  <2> DEFINE t == SubSeq(s, 1, 1)
  <2>3. t[1] = h[1]
    BY <1>2, <1>6, <2>2
  <2> HIDE DEF t, h
  <2>4. IsList(t) /\ Len(t) = 1
    BY <2>2, Listed DEF t
  <2>6. Len(t) = Len(h) /\ \A i \in 1 .. Len(t) : t[i] = h[i]
    BY <1>4, <2>3, <2>4
  <2>5. t = h
    BY <1>4, <2>4, <2>6, SameLists
  <2> QED BY <2>5 DEF t
<1>9. StompMessage(s).headers = Headers(h)
  BY <1>7, <1>8 DEF StompMessage
<1>10. Headers(h)["destination"] = r.channel
  <2>1. h[1].key = "destination" /\ h[1].val = r.channel
    BY DEF Line
  <2> HIDE DEF h
  <2> QED BY <1>4, <2>1, LastHeader
<1> QED BY <1>9, <1>10 DEF s

LEMMA DeliveryAddresses ==
  ASSUME NEW r, IsReport(r), Plain(r), NEW d
  PROVE  ParseFrame(Delivered(r, d)).headers["destination"] = r.channel
<1> DEFINE m == StompMessage(SendFrame(r))
           top == <<Line("subscription", SubIdMark),
                    Line("destination", r.channel), Blank>>
           u == Join(top, Sent(r))
           s == Delivered(r, d)
           v == SubSeq(s, 1, 2)
           h == Trimmed(v)
<1>0. Reportable(r) /\ Trim(r.channel) = r.channel
  BY DEF IsReport
<1>1. m.body = Sent(r) /\ IsList(Sent(r)) /\ m.headers["destination"] = r.channel
  BY <1>0, ServerReads, FramesAddress
<1> HIDE DEF m
<1>2. IsList(top) /\ Len(top) = 3
  BY ThreeLines
<1>3. /\ NotBlank(Marked(top[1], d)) /\ NotBlank(Marked(top[2], d))
      /\ Marked(top[3], d) = Blank
  BY TopLines
<1>4. Marked(top[2], d) = Line("destination", r.channel)
  BY DEF Marked, Line, Plain
<1>5. s = [i \in DOMAIN u |-> Marked(u[i], d)]
  BY <1>1 DEF Delivered, MessageFrame, m, Join
<1> HIDE DEF top, s
<1>6. /\ Len(u) = Len(top) + Len(Sent(r)) /\ Len(Sent(r)) \in Nat
      /\ DOMAIN u = 1 .. Len(top) + Len(Sent(r))
      /\ \A i \in 1 .. Len(top) : u[i] = top[i]
  BY <1>1, <1>2, Joined
<1> HIDE DEF u
<1> DEFINE n == Len(Sent(r))
<1>7. /\ n \in Nat /\ DOMAIN u = 1 .. 3 + n
      /\ u[1] = top[1] /\ u[2] = top[2] /\ u[3] = top[3]
  BY <1>2, <1>6
<1> HIDE DEF n
<1>8. IsList(s) /\ Len(s) = 3 + n /\ DOMAIN s = 1 .. 3 + n
  <2>1. s = [i \in 1 .. 3 + n |-> s[i]] /\ 3 + n \in Nat
    BY <1>5, <1>7
  <2> QED BY <2>1, ListFrom
<1>9. NotBlank(s[1]) /\ NotBlank(s[2]) /\ s[3] = Blank
      /\ s[2] = Line("destination", r.channel)
  <2>1. 1 \in DOMAIN u /\ 2 \in DOMAIN u /\ 3 \in DOMAIN u
    BY <1>7
  <2> QED BY <1>3, <1>4, <1>5, <1>7, <2>1
<1>10. FirstBlank(s) = 3
  <2>1. 3 \in DOMAIN s /\ \A i \in DOMAIN s : i \in Nat \ {0}
    BY <1>7, <1>8
  <2>2. \A j \in 1 .. 3 - 1 : NotBlank(s[j])
    BY <1>9
  <2> QED BY <1>9, <2>1, <2>2, FirstBlankIs
<1>11. IsList(v) /\ Len(v) = 2 /\ DOMAIN v = 1 .. 2 /\ v[2] = s[2]
  <2>1. s \in Seq(ToSet(s)) /\ 2 <= Len(s) /\ Len(s) \in Nat
    BY <1>7, <1>8 DEF IsList
  <2>2. v \in Seq(ToSet(s)) /\ Len(v) = 2 /\ v[2] = s[2]
    BY <2>1, SubSeqProperties
  <2> HIDE DEF v
  <2> QED BY <2>2, Listed, LenProperties
<1> HIDE DEF v
<1>12. /\ IsList(h) /\ Len(h) = 2 /\ h # <<>>
       /\ h[2].key = Trim(v[2].key) /\ h[2].val = Trim(v[2].val)
  <2>1. h = [i \in 1 .. 2 |-> Line(Trim(v[i].key), Trim(v[i].val))]
    BY <1>11 DEF Trimmed
  <2>2. h[2].key = Trim(v[2].key) /\ h[2].val = Trim(v[2].val)
    BY <2>1 DEF Line
  <2>3. h = [i \in 1 .. 2 |-> h[i]]
    BY <2>1
  <2> HIDE DEF h
  <2>4. IsList(h) /\ Len(h) = 2 /\ DOMAIN h = 1 .. 2
    BY <2>3, ListFrom
  <2>5. 1 \in DOMAIN h
    BY <2>4
  <2>6. h # <<>>
    BY <2>5, NoEntries
  <2> QED BY <2>2, <2>4, <2>6
<1>13. v[2].key = "destination" /\ v[2].val = r.channel
  BY <1>9, <1>11 DEF Line
<1>14. Trim("destination") = "destination"
  BY TextAssumption
<1>15. ParseFrame(s).headers = Headers(h)
  BY <1>10 DEF ParseFrame, v
<1> HIDE DEF h
<1>16. Headers(h)["destination"] = r.channel
  BY <1>0, <1>12, <1>13, <1>14, LastHeader
<1> QED BY <1>15, <1>16 DEF s

(* No line of a plain report holds the mark.                               *)
LEMMA NothingMarked ==
  ASSUME NEW r, IsReport(r), Plain(r), NEW d
  PROVE  \A i \in 1 .. Len(Sent(r)) : Marked(Sent(r)[i], d) = Sent(r)[i]
<1> DEFINE n == Len(Keys(r))
<1>1. Reportable(r)
  BY DEF IsReport
<1>2. \A key, val : val # SubIdMark => Marked(Line(key, val), d) = Line(key, val)
  BY DEF Marked, Line
<1>3. /\ r.user # SubIdMark /\ r.city # SubIdMark /\ r.eventName # SubIdMark
      /\ "" # SubIdMark /\ Decimal(r.dateTime) # SubIdMark
  BY TextAssumption DEF Plain, IsReport, SubIdMark
<1>4. ASSUME NEW i \in 1 .. 6 + n
      PROVE  Marked(Opening(r)[i], d) = Opening(r)[i]
  <2>1. /\ n \in Nat
        /\ Opening(r)[1] = Line("user", r.user)
        /\ Opening(r)[2] = Line("city", r.city)
        /\ Opening(r)[3] = Line("event name", r.eventName)
        /\ Opening(r)[4] = Line("date time", Decimal(r.dateTime))
        /\ Opening(r)[5] = Heading("general information")
        /\ \A j \in 1 .. n : Opening(r)[5 + j] = InfoLine(r, j)
        /\ Opening(r)[6 + n] = Heading("description")
    BY <1>1, OpeningIs
  <2>2. \A j \in 1 .. n : Marked(InfoLine(r, j), d) = InfoLine(r, j)
    BY <1>1, <1>2, KeysAreAll DEF InfoLine, Plain
  <2> HIDE DEF n
  <2>3. \/ i = 1 \/ i = 2 \/ i = 3 \/ i = 4 \/ i = 5 \/ i = 6 + n
        \/ i - 5 \in 1 .. n /\ 5 + (i - 5) = i
    <3>1. n \in Nat
      BY <2>1
    <3> QED BY <3>1
  <2>4. CASE i = 1 \/ i = 2 \/ i = 3 \/ i = 4 \/ i = 5 \/ i = 6 + n
    <3>1. /\ Marked(Line("user", r.user), d) = Line("user", r.user)
          /\ Marked(Line("city", r.city), d) = Line("city", r.city)
          /\ Marked(Line("event name", r.eventName), d)
               = Line("event name", r.eventName)
          /\ Marked(Line("date time", Decimal(r.dateTime)), d)
               = Line("date time", Decimal(r.dateTime))
      BY <1>2, <1>3
    <3>2. \A name : Marked(Heading(name), d) = Heading(name)
      BY <1>2, <1>3 DEF Heading
    <3> QED BY <2>1, <2>4, <3>1, <3>2
  <2>5. CASE i - 5 \in 1 .. n /\ 5 + (i - 5) = i
    BY <2>1, <2>2, <2>5
  <2> QED BY <2>3, <2>4, <2>5
<1>5. \A i \in DOMAIN Rest(r) : Marked(Rest(r)[i], d) = Rest(r)[i]
  <2>1. PICK e \in [DOMAIN Rest(r) -> 1 .. Len(r.description)] :
          \A i \in DOMAIN Rest(r) : r.description[e[i]] = Rest(r)[i]
    BY <1>1, KeptLines DEF Reportable, Rest, Thins
  <2>2. DOMAIN r.description = 1 .. Len(r.description)
    BY <1>1, Entries DEF Reportable
  <2>3. \A i \in DOMAIN Rest(r) : Rest(r)[i].val # SubIdMark
    BY <2>1, <2>2 DEF Plain
  <2> QED BY <2>3 DEF Marked
<1> TAKE i \in 1 .. Len(Sent(r))
<1>6. /\ 6 + n \in Nat /\ Len(Rest(r)) \in Nat
      /\ DOMAIN Rest(r) = 1 .. Len(Rest(r))
      /\ Len(Sent(r)) = (6 + n) + Len(Rest(r))
      /\ \A j \in 1 .. 6 + n : Sent(r)[j] = Opening(r)[j]
      /\ \A j \in 1 .. Len(Rest(r)) : Sent(r)[(6 + n) + j] = Rest(r)[j]
  BY <1>1, SentIs
<1> HIDE DEF n
<1>7. \/ i \in 1 .. 6 + n
      \/ /\ i - (6 + n) \in 1 .. Len(Rest(r))
         /\ (6 + n) + (i - (6 + n)) = i
  BY <1>6
<1> QED BY <1>4, <1>5, <1>6, <1>7

-----------------------------------------------------------------------------
(* What the parser makes of each kind of line.                             *)
SetUser(rec, x) == [rec EXCEPT !.user = x]
SetCity(rec, x) == [rec EXCEPT !.city = x]
SetName(rec, x) == [rec EXCEPT !.eventName = x]
SetDate(rec, x) == [rec EXCEPT !.dateTime = x]
SetText(rec, x) == [rec EXCEPT !.description = x]
SetInfo(rec, x) == [rec EXCEPT !.info = x]

LEMMA Places ==
  \A part, rec : At(part, rec).part = part /\ At(part, rec).rec = rec
BY DEF At

LEMMA KeyedRead ==
  ASSUME NEW st, NEW key, NEW val, st.part # "description", key # NoColon,
         Trim(key) = key, Line(key, val) \notin Headings
  PROVE  ParseLine(st, Line(key, val)) = Field(st, key, Trim(val))
<1> DEFINE l == Line(key, val)
<1>1. l.key = key /\ l.val = val
  BY DEF Line
<1>2. l # Blank
  BY <1>1 DEF Blank, Text, Line
<1>3. l # Heading("general information") /\ l # Heading("description")
  BY DEF Headings
<1> HIDE DEF l
<1>4. ParseLine(st, l) = Field(st, Trim(l.key), Trim(l.val))
  BY <1>1, <1>2, <1>3 DEF ParseLine
<1> QED BY <1>1, <1>4 DEF l

LEMMA FieldLines ==
  ASSUME NEW key \in Fields, NEW val, NEW rec
  PROVE  ParseLine(At("fields", rec), Line(key, val))
           = Field(At("fields", rec), key, Trim(val))
<1>1. \A k, v : Line(k, v).key = k
  BY DEF Line
<1>2. key \notin {"general information", "description", NoColon}
  BY DEF Fields, NoColon
<1>3. \A l \in Headings : l.key \in {"general information", "description"}
  BY <1>1 DEF Headings, Heading
<1>4. Trim(key) = key
  BY TextAssumption
<1>5. Line(key, val) \notin Headings /\ key # NoColon
  BY <1>1, <1>2, <1>3
<1>6. At("fields", rec).part # "description"
  BY Places
<1> QED BY <1>4, <1>5, <1>6, KeyedRead

LEMMA FieldsRead ==
  ASSUME NEW rec, NEW val
  PROVE  /\ ParseLine(At("fields", rec), Line("user", val))
              = At("fields", SetUser(rec, Trim(val)))
         /\ ParseLine(At("fields", rec), Line("city", val))
              = At("fields", SetCity(rec, Trim(val)))
         /\ ParseLine(At("fields", rec), Line("event name", val))
              = At("fields", SetName(rec, Trim(val)))
         /\ ParseLine(At("fields", rec), Line("date time", val))
              = At("fields", SetDate(rec, Stoi(Trim(val))))
<1> DEFINE st == At("fields", rec)
           v == Trim(val)
<1>1. /\ ParseLine(st, Line("user", val)) = Field(st, "user", v)
      /\ ParseLine(st, Line("city", val)) = Field(st, "city", v)
      /\ ParseLine(st, Line("event name", val)) = Field(st, "event name", v)
      /\ ParseLine(st, Line("date time", val)) = Field(st, "date time", v)
  BY FieldLines DEF Fields
<1> HIDE DEF v
<1>2. /\ Field(st, "user", v) = At("fields", SetUser(rec, v))
      /\ Field(st, "city", v) = At("fields", SetCity(rec, v))
      /\ Field(st, "event name", v) = At("fields", SetName(rec, v))
      /\ Field(st, "date time", v) = At("fields", SetDate(rec, Stoi(v)))
  BY DEF Field, At, SetUser, SetCity, SetName, SetDate
<1> QED BY <1>1, <1>2 DEF v

LEMMA InfoRead ==
  ASSUME NEW rec, NEW key, NEW val, key # NoColon, key \notin Fields,
         Trim(key) = key, Line(key, val) \notin Headings
  PROVE  ParseLine(At("general", rec), Line(key, val))
           = At("general", SetInfo(rec, With(rec.info, key, Trim(val))))
<1> DEFINE st == At("general", rec)
           v == Trim(val)
<1>1. ParseLine(st, Line(key, val)) = Field(st, key, v)
  <2>1. st.part # "description"
    BY Places
  <2> HIDE DEF st
  <2> QED BY <2>1, KeyedRead
<1> HIDE DEF v
<1>2. Field(st, key, v) = [st EXCEPT !.rec.info = With(@, key, v)]
  <2>1. st.part = "general"
    BY Places
  <2> HIDE DEF st
  <2> QED BY <2>1 DEF Field, Fields
<1>3. [st EXCEPT !.rec.info = With(@, key, v)]
        = At("general", SetInfo(rec, With(rec.info, key, v)))
  BY DEF At, SetInfo
<1> QED BY <1>1, <1>2, <1>3 DEF v

LEMMA HeadingsRead ==
  ASSUME NEW part, NEW rec
  PROVE  /\ ParseLine(At(part, rec), GI) = At("general", rec)
         /\ ParseLine(At(part, rec), DE) = At("description", rec)
<1>1. Blank # GI /\ Blank # DE /\ GI # DE
  BY DEF Blank, Text, Heading, Line, GI, DE, NoColon
<1> DEFINE st == At(part, rec)
<1>2. /\ ParseLine(st, GI) = [st EXCEPT !.part = "general"]
      /\ ParseLine(st, DE) = [st EXCEPT !.part = "description"]
  BY <1>1 DEF ParseLine, GI, DE
<1> QED BY <1>2 DEF At

LEMMA TextRead ==
  ASSUME NEW rec, NEW l, NotBlank(l), l \notin Headings
  PROVE  ParseLine(At("description", rec), l)
           = At("description", SetText(rec, Append(rec.description, l)))
<1> DEFINE st == At("description", rec)
<1>1. ParseLine(st, l) = [st EXCEPT !.rec.description = Append(@, l)]
  <2>1. st.part = "description"
    BY Places
  <2> HIDE DEF st
  <2> QED BY <2>1 DEF ParseLine, NotBlank, Headings
<1> DEFINE x == Append(rec.description, l)
<1>2. ParseLine(st, l) = [st EXCEPT !.rec.description = x]
  BY <1>1, Places
<1> HIDE DEF x
<1>3. [st EXCEPT !.rec.description = x] = At("description", SetText(rec, x))
  BY DEF At, SetText
<1> QED BY <1>2, <1>3 DEF x

(* A number survives its decimal form.                                     *)
LEMMA NumberSurvives ==
  ASSUME NEW n \in Ints
  PROVE  Stoi(Trim(Decimal(n))) = n
BY TextAssumption DEF Stoi

(* The general information of the first k keys.                            *)
InfoTo(r, k) == [x \in {Keys(r)[i] : i \in 1 .. k} |-> Trim(r.info[x])]

LEMMA InfoGrows ==
  ASSUME NEW r, Reportable(r), NEW k \in 0 .. Len(Keys(r)) - 1
  PROVE  InfoTo(r, k + 1) = With(InfoTo(r, k), Keys(r)[k + 1],
                                Trim(r.info[Keys(r)[k + 1]]))
<1> DEFINE key == Keys(r)[k + 1]
           S == {Keys(r)[i] : i \in 1 .. k}
<1>1. Len(Keys(r)) \in Nat
  BY KeysAreAll
<1>2. {Keys(r)[i] : i \in 1 .. k + 1} = S \cup {key}
  <2>1. \A i : i \in 1 .. k + 1 <=> i \in 1 .. k \/ i = k + 1
    BY <1>1
  <2> QED BY <2>1
<1>3. InfoTo(r, k) = [x \in S |-> Trim(r.info[x])]
  BY DEF InfoTo
<1>4. InfoTo(r, k + 1) = [x \in S \cup {key} |-> Trim(r.info[x])]
  BY <1>2 DEF InfoTo
<1> HIDE DEF S, key
<1>5. InfoTo(r, k + 1) = With(InfoTo(r, k), key, Trim(r.info[key]))
  BY <1>3, <1>4 DEF With
<1> QED BY <1>5 DEF key

LEMMA InfoEnds ==
  ASSUME NEW r, Reportable(r)
  PROVE  /\ InfoTo(r, 0) = <<>>
         /\ InfoTo(r, Len(Keys(r))) = [x \in DOMAIN r.info |-> Trim(r.info[x])]
<1>1. {Keys(r)[i] : i \in 1 .. Len(Keys(r))} = DOMAIN r.info
  BY KeysAreAll
<1>2. InfoTo(r, Len(Keys(r))) = [x \in DOMAIN r.info |-> Trim(r.info[x])]
  BY <1>1 DEF InfoTo
<1>3. InfoTo(r, 0) = <<>>
  <2>1. {Keys(r)[i] : i \in 1 .. 0} = {}
    OBVIOUS
  <2>2. InfoTo(r, 0) = [x \in {} |-> Trim(r.info[x])]
    BY <2>1 DEF InfoTo
  <2>3. \A f : f = [x \in {} |-> f[x]] => f = <<>>
    OBVIOUS
  <2> QED BY <2>2, <2>3
<1> QED BY <1>2, <1>3

(* What a report has become when the parser has read its fields, and this  *)
(* much of its description and of its general information.                 *)
SoFar(r, desc, info) ==
  [r EXCEPT !.city = Trim(@), !.eventName = Trim(@),
            !.description = desc, !.info = info]

LEMMA SoFarIs ==
  ASSUME NEW r, IsReport(r), NEW desc, NEW info
  PROVE  SoFar(r, desc, info)
           = [channel |-> r.channel, user |-> r.user, city |-> Trim(r.city),
              eventName |-> Trim(r.eventName), dateTime |-> r.dateTime,
              description |-> desc, info |-> info]
<1> DEFINE a == r.channel
           b == r.user
           c == r.city
           d == r.eventName
           e == r.dateTime
           f == r.description
           g == r.info
           x == Trim(r.city)
           y == Trim(r.eventName)
<1>1. SoFar(r, desc, info) = [r EXCEPT !.city = x, !.eventName = y,
                                       !.description = desc, !.info = info]
  BY DEF SoFar
<1>2. r = [channel |-> a, user |-> b, city |-> c, eventName |-> d,
           dateTime |-> e, description |-> f, info |-> g]
  BY DEF IsReport
<1> HIDE DEF a, b, c, d, e, f, g, x, y
<1>3. SoFar(r, desc, info)
        = [channel |-> a, user |-> b, city |-> x, eventName |-> y,
           dateTime |-> e, description |-> desc, info |-> info]
  BY <1>1, <1>2
<1> QED BY <1>3, Zenon DEF a, b, e, x, y

LEMMA FieldsFilled ==
  ASSUME NEW ch, NEW user, NEW city, NEW name, NEW date
  PROVE  SetDate(SetName(SetCity(SetUser(Fresh(ch), user), city), name), date)
           = [channel |-> ch, user |-> user, city |-> city, eventName |-> name,
              dateTime |-> date, description |-> <<>>, info |-> <<>>]
<1> DEFINE no == ""
           zero == 0
           none == <<>>
<1>1. Fresh(ch) = [channel |-> ch, user |-> no, city |-> no, eventName |-> no,
                   dateTime |-> zero, description |-> none, info |-> none]
  BY Zenon DEF Fresh
<1> HIDE DEF no, zero, none
<1> DEFINE a == SetUser(Fresh(ch), user)
           b == SetCity(a, city)
           c == SetName(b, name)
<1>2. a = [channel |-> ch, user |-> user, city |-> no, eventName |-> no,
           dateTime |-> zero, description |-> none, info |-> none]
  BY <1>1 DEF SetUser
<1> HIDE DEF a
<1>3. b = [channel |-> ch, user |-> user, city |-> city, eventName |-> no,
           dateTime |-> zero, description |-> none, info |-> none]
  BY <1>2 DEF SetCity
<1> HIDE DEF b
<1>4. c = [channel |-> ch, user |-> user, city |-> city, eventName |-> name,
           dateTime |-> zero, description |-> none, info |-> none]
  BY <1>3 DEF SetName
<1> HIDE DEF c
<1>5. SetDate(c, date)
        = [channel |-> ch, user |-> user, city |-> city, eventName |-> name,
           dateTime |-> date, description |-> none, info |-> none]
  BY <1>4 DEF SetDate
<1> QED BY <1>5, Zenon DEF none, a, b, c

LEMMA MoreRead ==
  ASSUME NEW r, IsReport(r), NEW desc, NEW info, NEW x
  PROVE  /\ SetText(SoFar(r, desc, info), x) = SoFar(r, x, info)
         /\ SetInfo(SoFar(r, desc, info), x) = SoFar(r, desc, x)
         /\ SoFar(r, desc, info).description = desc
         /\ SoFar(r, desc, info).info = info
BY DEF SoFar, IsReport, SetText, SetInfo

(* What the parser has read of a plain report after the heading and i      *)
(* lines of its general information, and of its description.               *)
WithInfo(r, i) == At("general", SoFar(r, <<>>, InfoTo(r, i)))
WithText(r, i) ==
  At("description", SoFar(r, SubSeq(Rest(r), 1, i), InfoTo(r, Len(Keys(r)))))

IsReadBy(r, run) ==
  /\ run[0] = At("fields", Fresh(r.channel))
  /\ \A i \in 1 .. Len(Sent(r)) : run[i] = ParseLine(run[i - 1], Sent(r)[i])

LEMMA RunSteps ==
  ASSUME NEW r, Reportable(r), NEW run, IsReadBy(r, run)
  PROVE  LET n == Len(Keys(r))
             m == Len(Rest(r))
         IN  /\ n \in Nat /\ m \in Nat /\ DOMAIN Rest(r) = 1 .. m
             /\ Len(Sent(r)) = (6 + n) + m
             /\ \A i \in 1 .. 6 + n :
                  run[i] = ParseLine(run[i - 1], Opening(r)[i])
             /\ \A i \in 0 .. m - 1 :
                  run[(6 + n) + (i + 1)]
                    = ParseLine(run[(6 + n) + i], Rest(r)[i + 1])
<1> DEFINE n == Len(Keys(r))
           m == Len(Rest(r))
<1>1. /\ n \in Nat /\ m \in Nat /\ DOMAIN Rest(r) = 1 .. m
      /\ Len(Sent(r)) = (6 + n) + m
      /\ \A i \in 1 .. 6 + n : Sent(r)[i] = Opening(r)[i]
      /\ \A i \in 1 .. m : Sent(r)[(6 + n) + i] = Rest(r)[i]
  BY SentIs, KeysAreAll
<1> HIDE DEF n, m
<1>2. ASSUME NEW i \in 1 .. 6 + n
      PROVE  run[i] = ParseLine(run[i - 1], Opening(r)[i])
  <2>1. i \in 1 .. (6 + n) + m
    BY <1>1
  <2> QED BY <1>1, <2>1 DEF IsReadBy
<1>3. ASSUME NEW i \in 0 .. m - 1
      PROVE  run[(6 + n) + (i + 1)] = ParseLine(run[(6 + n) + i], Rest(r)[i + 1])
  <2>1. /\ (6 + n) + (i + 1) \in 1 .. (6 + n) + m /\ i + 1 \in 1 .. m
        /\ ((6 + n) + (i + 1)) - 1 = (6 + n) + i
    BY <1>1
  <2>2. run[(6 + n) + (i + 1)]
          = ParseLine(run[(6 + n) + i], Sent(r)[(6 + n) + (i + 1)])
    BY <1>1, <2>1 DEF IsReadBy
  <2> QED BY <1>1, <2>1, <2>2
<1> QED BY <1>1, <1>2, <1>3 DEF n, m

LEMMA FieldsAreRead ==
  ASSUME NEW r, IsReport(r), NEW run, IsReadBy(r, run)
  PROVE  run[5] = WithInfo(r, 0)
<1>1. Reportable(r) /\ r.dateTime \in Ints /\ Trim(r.user) = r.user
  BY DEF IsReport
<1>2. /\ Opening(r)[1] = Line("user", r.user)
      /\ Opening(r)[2] = Line("city", r.city)
      /\ Opening(r)[3] = Line("event name", r.eventName)
      /\ Opening(r)[4] = Line("date time", Decimal(r.dateTime))
      /\ Opening(r)[5] = GI
  BY <1>1, OpeningIs DEF GI
<1>3. /\ run[0] = At("fields", Fresh(r.channel))
      /\ run[1] = ParseLine(run[0], Opening(r)[1])
      /\ run[2] = ParseLine(run[1], Opening(r)[2])
      /\ run[3] = ParseLine(run[2], Opening(r)[3])
      /\ run[4] = ParseLine(run[3], Opening(r)[4])
      /\ run[5] = ParseLine(run[4], Opening(r)[5])
  <2> DEFINE n == Len(Keys(r))
  <2>1. /\ n \in Nat
        /\ \A i \in 1 .. 6 + n : run[i] = ParseLine(run[i - 1], Opening(r)[i])
    BY <1>1, RunSteps
  <2> HIDE DEF n
  <2>2. /\ 1 \in 1 .. 6 + n /\ 2 \in 1 .. 6 + n /\ 3 \in 1 .. 6 + n
        /\ 4 \in 1 .. 6 + n /\ 5 \in 1 .. 6 + n
        /\ 1 - 1 = 0 /\ 2 - 1 = 1 /\ 3 - 1 = 2 /\ 4 - 1 = 3 /\ 5 - 1 = 4
    BY <2>1
  <2> QED BY <2>1, <2>2 DEF IsReadBy
<1> DEFINE a == SetUser(Fresh(r.channel), r.user)
           b == SetCity(a, Trim(r.city))
           c == SetName(b, Trim(r.eventName))
           d == SetDate(c, r.dateTime)
<1>4. d = SoFar(r, <<>>, <<>>)
  BY FieldsFilled, SoFarIs
<1>5. run[1] = At("fields", a)
  BY <1>1, <1>2, <1>3, FieldsRead
<1> HIDE DEF a
<1>6. run[2] = At("fields", b)
  <2>1. run[2] = ParseLine(At("fields", a), Line("city", r.city))
    BY <1>2, <1>3, <1>5
  <2> QED BY <2>1, FieldsRead
<1> HIDE DEF b
<1>7. run[3] = At("fields", c)
  <2>1. run[3] = ParseLine(At("fields", b), Line("event name", r.eventName))
    BY <1>2, <1>3, <1>6
  <2> QED BY <2>1, FieldsRead
<1> HIDE DEF c
<1>8. run[4] = At("fields", d)
  <2>1. Stoi(Trim(Decimal(r.dateTime))) = r.dateTime
    BY <1>1, NumberSurvives
  <2> QED BY <1>2, <1>3, <1>7, <2>1, FieldsRead
<1> HIDE DEF d
<1>9. run[5] = At("general", d)
  BY <1>2, <1>3, <1>8, HeadingsRead
<1>10. InfoTo(r, 0) = <<>>
  BY <1>1, InfoEnds
<1> QED BY <1>4, <1>9, <1>10 DEF WithInfo

LEMMA InfoIsRead ==
  ASSUME NEW r, IsReport(r), Plain(r), NEW run, IsReadBy(r, run)
  PROVE  run[6 + Len(Keys(r))] = WithText(r, 0)
<1> DEFINE n == Len(Keys(r))
<1>1. Reportable(r)
  BY DEF IsReport
<1>2. /\ n \in Nat /\ DOMAIN Keys(r) = 1 .. n
      /\ \A i \in 1 .. 6 + n : run[i] = ParseLine(run[i - 1], Opening(r)[i])
      /\ \A i \in 1 .. n : Opening(r)[5 + i] = InfoLine(r, i)
      /\ Opening(r)[6 + n] = DE
  <2>1. /\ n \in Nat
        /\ \A i \in 1 .. 6 + n : run[i] = ParseLine(run[i - 1], Opening(r)[i])
    BY <1>1, RunSteps
  <2>2. /\ \A i \in 1 .. n : Opening(r)[5 + i] = InfoLine(r, i)
        /\ Opening(r)[6 + n] = DE
    BY <1>1, OpeningIs DEF DE
  <2>3. DOMAIN Keys(r) = 1 .. n
    BY <1>1, KeysAreAll
  <2> QED BY <2>1, <2>2, <2>3
<1> HIDE DEF n
<1>3. ASSUME NEW i \in 0 .. n - 1, run[5 + i] = WithInfo(r, i)
      PROVE  run[5 + (i + 1)] = WithInfo(r, i + 1)
  <2> DEFINE key == Keys(r)[i + 1]
             val == r.info[key]
  <2>1. /\ 5 + (i + 1) \in 1 .. 6 + n /\ (5 + (i + 1)) - 1 = 5 + i
        /\ i + 1 \in 1 .. n
    BY <1>2
  <2>2. run[5 + (i + 1)] = ParseLine(WithInfo(r, i), Line(key, val))
    BY <1>2, <1>3, <2>1 DEF InfoLine
  <2>3. key \in DOMAIN r.info
    BY <1>1, <1>2, <2>1, KeysAreAll
  <2>4. InfoTo(r, i + 1) = With(InfoTo(r, i), key, Trim(val))
    BY <1>1, InfoGrows DEF n
  <2> HIDE DEF key
  <2>5. /\ key # NoColon /\ key \notin Fields /\ Trim(key) = key
        /\ Line(key, val) \notin Headings
    BY <1>1, <2>3 DEF Plain, Reportable
  <2> HIDE DEF val
  <2> DEFINE rec == SoFar(r, <<>>, InfoTo(r, i))
  <2>6. SetInfo(rec, With(rec.info, key, Trim(val)))
          = SoFar(r, <<>>, InfoTo(r, i + 1))
    BY <2>4, MoreRead
  <2>7. WithInfo(r, i) = At("general", rec)
    BY DEF WithInfo
  <2> HIDE DEF rec
  <2>8. ParseLine(WithInfo(r, i), Line(key, val)) = WithInfo(r, i + 1)
    BY <2>5, <2>6, <2>7, InfoRead DEF WithInfo
  <2> QED BY <2>2, <2>8
<1>4. run[5 + n] = WithInfo(r, n)
  <2> DEFINE T == {i \in 0 .. n : run[5 + i] = WithInfo(r, i)}
  <2>1. run[5 + 0] = WithInfo(r, 0)
    BY FieldsAreRead
  <2>2. 0 \in T /\ \A i \in 0 .. n - 1 : i \in T => i + 1 \in T
    <3>1. n \in Nat /\ \A i \in 0 .. n - 1 : i + 1 \in 0 .. n
      BY <1>2
    <3>2. 0 \in T
      BY <2>1, <3>1
    <3>3. ASSUME NEW i \in 0 .. n - 1, i \in T
          PROVE  i + 1 \in T
      <4>1. run[5 + (i + 1)] = WithInfo(r, i + 1)
        BY <1>3, <3>3
      <4> QED BY <3>1, <4>1
    <3> QED BY <3>2, <3>3
  <2>3. \A i \in 0 .. n : i \in T
    <3> HIDE DEF T
    <3> QED BY <1>2, <2>2, Parser!UpTo
  <2> QED BY <1>2, <2>3
<1>5. run[6 + n] = ParseLine(WithInfo(r, n), DE)
  <2>1. 6 + n \in 1 .. 6 + n /\ (6 + n) - 1 = 5 + n
    BY <1>2
  <2> QED BY <1>2, <1>4, <2>1
<1>6. SubSeq(Rest(r), 1, 0) = <<>>
  BY SubSeqEmpty
<1> QED BY <1>5, <1>6, HeadingsRead DEF WithInfo, WithText, n

(* A parser that starts with the channel of a plain report and goes over   *)
(* its lines has, at the end, what is left of the report.                  *)
LEMMA PlainIsRead ==
  ASSUME NEW r, IsReport(r), Plain(r), NEW run, IsReadBy(r, run)
  PROVE  run[Len(Sent(r))].rec = Clean(r)
<1> DEFINE n == 6 + Len(Keys(r))
           m == Len(Rest(r))
<1>1. Reportable(r)
  BY DEF IsReport
<1>2. /\ n \in Nat /\ m \in Nat /\ DOMAIN Rest(r) = 1 .. m
      /\ Len(Sent(r)) = n + m
      /\ \A i \in 0 .. m - 1 :
           run[n + (i + 1)] = ParseLine(run[n + i], Rest(r)[i + 1])
  <2>1. Len(Keys(r)) \in Nat
    BY <1>1, RunSteps
  <2>2. 6 + Len(Keys(r)) \in Nat
    BY <2>1
  <2> QED BY <1>1, <2>2, RunSteps
<1>3. run[n] = WithText(r, 0)
  BY InfoIsRead
<1> HIDE DEF n
<1>4. IsList(Rest(r))
  BY <1>1, ServerReads
<1>5. \A i \in 0 .. m - 1 :
        SubSeq(Rest(r), 1, i + 1) = Append(SubSeq(Rest(r), 1, i), Rest(r)[i + 1])
  BY <1>4, Grown
<1> HIDE DEF m
<1>6. \A i \in 1 .. m : NotBlank(Rest(r)[i]) /\ Rest(r)[i] \notin Headings
  <2>1. PICK x \in [DOMAIN Rest(r) -> 1 .. Len(r.description)] :
          \A j \in DOMAIN Rest(r) : r.description[x[j]] = Rest(r)[j]
    BY <1>1, KeptLines DEF Reportable, Rest, Thins
  <2>2. DOMAIN r.description = 1 .. Len(r.description)
    BY <1>1, Entries DEF Reportable
  <2>3. \A i \in 1 .. m : Rest(r)[i] \notin Headings
    BY <1>2, <2>1, <2>2 DEF Plain
  <2>4. \A i \in 1 .. m : NotBlank(Rest(r)[i])
    BY <1>1, <1>2, KeptLines DEF Reportable, Rest
  <2> QED BY <2>3, <2>4
<1>7. ASSUME NEW i \in 0 .. m - 1, run[n + i] = WithText(r, i)
      PROVE  run[n + (i + 1)] = WithText(r, i + 1)
  <2> DEFINE l == Rest(r)[i + 1]
  <2>1. i + 1 \in 1 .. m
    BY <1>2
  <2>2. run[n + (i + 1)] = ParseLine(WithText(r, i), l)
    BY <1>2, <1>7
  <2>3. NotBlank(l) /\ l \notin Headings
    BY <1>6, <2>1
  <2>4. SubSeq(Rest(r), 1, i + 1) = Append(SubSeq(Rest(r), 1, i), l)
    BY <1>5
  <2> HIDE DEF l
  <2> DEFINE x == SubSeq(Rest(r), 1, i)
             y == InfoTo(r, Len(Keys(r)))
             rec == SoFar(r, x, y)
  <2>5. SetText(rec, Append(rec.description, l)) = SoFar(r, Append(x, l), y)
    <3> HIDE DEF x, y
    <3> QED BY MoreRead
  <2>6. WithText(r, i + 1) = At("description", SoFar(r, Append(x, l), y))
    BY <2>4 DEF WithText
  <2>7. WithText(r, i) = At("description", rec)
    BY DEF WithText
  <2> HIDE DEF rec
  <2>8. ParseLine(WithText(r, i), l) = WithText(r, i + 1)
    BY <2>3, <2>5, <2>6, <2>7, TextRead
  <2> QED BY <2>2, <2>8
<1>8. run[n + m] = WithText(r, m)
  <2> DEFINE T == {i \in 0 .. m : run[n + i] = WithText(r, i)}
  <2>1. run[n + 0] = WithText(r, 0)
    BY <1>2, <1>3
  <2>2. 0 \in T /\ \A i \in 0 .. m - 1 : i \in T => i + 1 \in T
    BY <1>2, <1>7, <2>1
  <2>3. \A i \in 0 .. m : i \in T
    <3> HIDE DEF T
    <3> QED BY <1>2, <2>2, Parser!UpTo
  <2> QED BY <1>2, <2>3
<1>9. WithText(r, m).rec = Clean(r)
  <2>1. SubSeq(Rest(r), 1, m) = WithoutBlanks(r.description)
    BY <1>4, Grown DEF m, Rest
  <2>2. InfoTo(r, Len(Keys(r))) = [x \in DOMAIN r.info |-> Trim(r.info[x])]
    BY <1>1, InfoEnds
  <2>3. WithText(r, m).rec
          = SoFar(r, WithoutBlanks(r.description),
                  [x \in DOMAIN r.info |-> Trim(r.info[x])])
    BY <2>1, <2>2, Places DEF WithText
  <2> QED BY <2>3 DEF SoFar, Clean
<1> QED BY <1>2, <1>8, <1>9

(* A plain report is read by every subscriber as it was sent, but for the  *)
(* blank lines and the spaces around its texts.                            *)
THEOREM PlainSurvives ==
  ASSUME NEW r, IsReport(r), Plain(r), NEW d
  PROVE  ParseEvent(Delivered(r, d)) = Clean(r)
<1> DEFINE f == Delivered(r, d)
           b == ParseFrame(f).body
<1>1. /\ IsList(b) /\ Len(b) = Len(Sent(r))
      /\ \A i \in 1 .. Len(Sent(r)) : b[i] = Sent(r)[i]
  BY SubscriberReads, NothingMarked DEF IsReport
<1>2. ParseFrame(f).headers["destination"] = r.channel
  BY DeliveryAddresses
<1> HIDE DEF f
<1>3. PICK run :
        /\ run[0] = At("fields", Fresh(r.channel))
        /\ \A i \in 1 .. Len(b) : run[i] = ParseLine(run[i - 1], b[i])
        /\ ParseEvent(f) = run[Len(b)].rec
  BY <1>1, <1>2, ParserReads
<1> HIDE DEF b
<1>4. IsReadBy(r, run)
  BY <1>1, <1>3 DEF IsReadBy
<1>5. ParseEvent(f) = Clean(r)
  BY <1>1, <1>3, <1>4, PlainIsRead
<1> QED BY <1>5 DEF f

-----------------------------------------------------------------------------
(* What d has read that came out as x, by reporter and place.              *)
Reads(c, i, d) == ParseEvent(Delivered(reported[c][i], d))
Echoes(d, x) ==
  {e \in Clients \X (Nat \ {0}) :
     e[2] <= Arrived(e[1], d) /\ Reads(e[1], e[2], d) = x}

(* A client holds what it has reported and what it has read, no more, no   *)
(* less, and as often.                                                     *)
Held(d, x) == Occurs(store[d][x.channel][x.user], x)
HoldsAll(d, x) ==
  /\ IsFiniteSet(Echoes(d, x))
  /\ Held(d, x) = Occurs(reported[d], x) + Cardinality(Echoes(d, x))

HasPlace(x) == x.channel \in Channels /\ x.user \in Users \ {""}
StoresAreComplete ==
  \A d \in Clients : \A x : HasPlace(x) => HoldsAll(d, x)

LEMMA OccursNext ==
  ASSUME NEW s, IsList(s), NEW e, NEW x
  PROVE  /\ Occurs(s, x) \in Nat
         /\ Occurs(Append(s, e), x) = IF e = x THEN Occurs(s, x) + 1
                                      ELSE Occurs(s, x)
<1> DEFINE t == Append(s, e)
           A == {i \in DOMAIN s : s[i] = x}
           B == {i \in DOMAIN t : t[i] = x}
           n == Len(s) + 1
<1>1. /\ DOMAIN s = 1 .. Len(s) /\ Len(s) \in Nat
      /\ DOMAIN t = 1 .. Len(s) + 1
      /\ \A i \in DOMAIN s : t[i] = s[i]
      /\ t[Len(s) + 1] = e
  BY Longer
<1> HIDE DEF t
<1>2. IsFiniteSet(A)
  <2>1. IsFiniteSet(DOMAIN s)
    BY <1>1, FS_Interval
  <2> QED BY <2>1, FS_Subset
<1>3. B = (IF e = x THEN A \cup {n} ELSE A) /\ n \notin A
  <2>1. \A i : i \in DOMAIN t <=> i \in DOMAIN s \/ i = n
    BY <1>1
  <2>2. n \notin DOMAIN s
    BY <1>1
  <2> QED BY <1>1, <2>1, <2>2
<1> HIDE DEF A, B
<1>4. /\ Cardinality(A) \in Nat
      /\ Cardinality(B) = IF e = x THEN Cardinality(A) + 1 ELSE Cardinality(A)
  BY <1>2, <1>3, FS_AddElement, FS_CardinalityType
<1> QED BY <1>4 DEF Occurs, A, B, t

(* How a stored record counts.                                             *)
LEMMA StoredCounts ==
  ASSUME NEW events, IsStore(events), NEW r, NEW x,
         x.channel \in Channels, x.user \in Users
  PROVE  LET ch == x.channel
             u == x.user
         IN  /\ Occurs(events[ch][u], x) \in Nat
             /\ Occurs(Stored(events, r)[ch][u], x)
                  = IF r = x THEN Occurs(events[ch][u], x) + 1
                    ELSE Occurs(events[ch][u], x)
<1> DEFINE ch == x.channel
           u == x.user
           s == events[ch][u]
           t == Stored(events, r)[ch][u]
<1>1. IsList(s)
  BY DEF IsStore
<1>2. t = IF ch = r.channel /\ u = r.user THEN Append(s, r) ELSE s
  BY StoredPlace
<1>3. r = x => ch = r.channel /\ u = r.user
  OBVIOUS
<1> HIDE DEF ch, u, s, t
<1>4. CASE ch = r.channel /\ u = r.user
  <2>1. t = Append(s, r)
    BY <1>2, <1>4
  <2>2. /\ Occurs(s, x) \in Nat
        /\ Occurs(Append(s, r), x) = IF r = x THEN Occurs(s, x) + 1
                                     ELSE Occurs(s, x)
    BY <1>1, OccursNext
  <2> QED BY <2>1, <2>2 DEF s, t, ch, u
<1>5. CASE ~(ch = r.channel /\ u = r.user)
  <2>1. t = s /\ r # x
    BY <1>2, <1>3, <1>5
  <2>2. Occurs(s, x) \in Nat
    BY <1>1, OccursNext
  <2> QED BY <2>1, <2>2 DEF s, t, ch, u
<1> QED BY <1>4, <1>5

LEMMA ArrivedIsReported ==
  ASSUME JobsOK, FifoOK, NEW c \in Clients, NEW d \in Clients,
         NEW i \in Nat \ {0}, i <= Arrived(c, d)
  PROVE  i \in DOMAIN reported[c]
<1> DEFINE s == reported[c]
           w == wire[c][d]
<1>1. IsList(s) /\ IsList(w)
  BY DEF FifoOK, JobsOK
<1> HIDE DEF s, w
<1>2. Len(w) \in Nat /\ Len(s) \in Nat /\ DOMAIN s = 1 .. Len(s)
  BY <1>1, Entries
<1>3. i <= Len(s) - Len(w)
  BY DEF Arrived, s, w
<1>4. i \in DOMAIN s
  BY <1>2, <1>3
<1> QED BY <1>4 DEF s

(* Sending leaves what has arrived as it is.                               *)
LEMMA SendingEchoes ==
  ASSUME JobsOK, FifoOK, NEW b \in Clients, ReportNext(b), NEW d \in Clients, NEW x
  PROVE  Echoes(d, x)' = Echoes(d, x)
<1> DEFINE r == Head(job[b])
           t == reported[b]
           w == wire[b][d]
<1>1. /\ wire' = [wire EXCEPT ![b] = [e \in Clients |->
                    Append(wire[b][e], Delivered(r, e))]]
      /\ reported' = [reported EXCEPT ![b] = Append(t, r)]
  BY DEF ReportNext
<1>2. IsList(w) /\ IsList(t) /\ Follows(w, t, d)
  BY DEF FifoOK, JobsOK
<1>3. \A c \in Clients :
        /\ reported'[c] = IF c = b THEN Append(t, r) ELSE reported[c]
        /\ wire'[c][d] = IF c = b THEN Append(w, Delivered(r, d)) ELSE wire[c][d]
  BY <1>1 DEF FifoOK, JobsOK
<1> HIDE DEF r, t, w
<1>4. Len(Append(t, r)) - Len(Append(w, Delivered(r, d))) = Len(t) - Len(w)
  BY <1>2, SentFollows
<1>5. ASSUME NEW c \in Clients
      PROVE  Arrived(c, d)' = Arrived(c, d)
  BY <1>3, <1>4 DEF Arrived, t, w
<1>6. ASSUME NEW c \in Clients, NEW i \in Nat \ {0}, i <= Arrived(c, d)
      PROVE  Reads(c, i, d)' = Reads(c, i, d)
  <2>1. i \in DOMAIN reported[c]
    BY <1>6, ArrivedIsReported
  <2>2. [Next]_vars
    BY DEF Next
  <2>3. reported'[c][i] = reported[c][i]
    BY <2>1, <2>2, ReportsStay
  <2> QED BY <2>3 DEF Reads
<1>7. ASSUME NEW e \in Clients \X (Nat \ {0})
      PROVE  (e[2] <= Arrived(e[1], d) /\ Reads(e[1], e[2], d) = x)'
               <=> e[2] <= Arrived(e[1], d) /\ Reads(e[1], e[2], d) = x
  <2> DEFINE c == e[1]
             i == e[2]
  <2>1. c \in Clients /\ i \in Nat \ {0}
    OBVIOUS
  <2> HIDE DEF c, i
  <2>2. (i <= Arrived(c, d) /\ Reads(c, i, d) = x)'
          <=> i <= Arrived(c, d) /\ Reads(c, i, d) = x
    <3>1. CASE i <= Arrived(c, d)
      BY <1>5, <1>6, <2>1, <3>1
    <3>2. CASE ~(i <= Arrived(c, d))
      BY <1>5, <2>1, <3>2
    <3> QED BY <3>1, <3>2
  <2> QED BY <2>2 DEF c, i
<1> QED BY <1>7, Zenon DEF Echoes

(* Receiving adds the message to what has arrived at its subscriber.       *)
LEMMA ReceivingEchoes ==
  ASSUME JobsOK, FifoOK, NEW b \in Clients, NEW e \in Clients,
         ReceiveMessage(b, e), NEW d \in Clients, NEW x
  PROVE  LET n == Arrived(b, e) + 1
             r == ParseEvent(Head(wire[b][e]))
         IN  /\ <<b, n>> \notin Echoes(e, x)
             /\ Echoes(d, x)' = IF d = e /\ r = x
                                THEN Echoes(d, x) \cup {<<b, n>>} ELSE Echoes(d, x)
<1> DEFINE w == wire[b][e]
           t == reported[b]
           n == Arrived(b, e) + 1
           r == ParseEvent(Head(w))
<1>1. wire' = [wire EXCEPT ![b][e] = Tail(@)] /\ reported' = reported /\ w # <<>>
  BY DEF ReceiveMessage
<1>2. IsList(w) /\ IsList(t) /\ Follows(w, t, e)
  BY DEF FifoOK, JobsOK
<1>3. \A c \in Clients :
        wire'[c][d] = IF c = b /\ d = e THEN Tail(w) ELSE wire[c][d]
  BY <1>1 DEF FifoOK
<1>4. /\ Len(t) - Len(w) \in Nat
      /\ Len(t) - Len(Tail(w)) = (Len(t) - Len(w)) + 1
      /\ Head(w) = Delivered(t[(Len(t) - Len(w)) + 1], e)
  <2> HIDE DEF w, t
  <2> QED BY <1>1, <1>2, TakenFollows
<1>5. Arrived(b, e) = Len(t) - Len(w)
  BY DEF Arrived
<1>6. \A c \in Clients :
        Arrived(c, d)' = IF c = b /\ d = e THEN n ELSE Arrived(c, d)
  <2> TAKE c \in Clients
  <2>1. CASE c = b /\ d = e
    <3>1. Arrived(c, d)' = Len(t) - Len(Tail(w))
      BY <1>1, <1>3, <2>1 DEF Arrived
    <3> QED BY <1>4, <1>5, <2>1, <3>1
  <2>2. CASE ~(c = b /\ d = e)
    <3>1. wire'[c][d] = wire[c][d] /\ reported'[c] = reported[c]
      BY <1>1, <1>3, <2>2, Zenon
    <3>2. Arrived(c, d)' = Arrived(c, d)
      BY <3>1, Zenon DEF Arrived
    <3> QED BY <2>2, <3>2
  <2> QED BY <2>1, <2>2
<1>7. n \in Nat \ {0} /\ Arrived(b, e) \in Nat
  BY <1>4, <1>5
<1>8. Reads(b, n, e) = r
  BY <1>4, <1>5 DEF Reads
<1>9. \A c, i : Reads(c, i, d)' = Reads(c, i, d)
  BY <1>1 DEF Reads
<1> HIDE DEF w, t, n, r
<1>10. ~(n <= Arrived(b, e))
  BY <1>7 DEF n
<1>11. <<b, n>> \notin Echoes(e, x)
  BY <1>10 DEF Echoes
<1>12. ASSUME NEW c \in Clients, NEW i \in Nat \ {0}
       PROVE  (<<c, i>> \in Echoes(d, x)')
                <=> \/ <<c, i>> \in Echoes(d, x)
                    \/ d = e /\ r = x /\ <<c, i>> = <<b, n>>
  <2>1. <<c, i>> \in Echoes(d, x)
          <=> i <= Arrived(c, d) /\ Reads(c, i, d) = x
    BY DEF Echoes
  <2>2. (<<c, i>> \in Echoes(d, x)')
          <=> (i <= Arrived(c, d)') /\ Reads(c, i, d) = x
    BY <1>9 DEF Echoes
  <2>3. CASE c = b /\ d = e
    <3>1. i <= n <=> i <= Arrived(b, e) \/ i = n
      BY <1>7 DEF n
    <3> QED BY <1>6, <1>8, <2>1, <2>2, <2>3, <3>1
  <2>4. CASE ~(c = b /\ d = e)
    BY <1>6, <2>1, <2>2, <2>4
  <2> QED BY <2>3, <2>4
<1>13. /\ \A y \in Echoes(d, x) : \E c \in Clients, i \in Nat \ {0} : y = <<c, i>>
       /\ \A y \in Echoes(d, x)' : \E c \in Clients, i \in Nat \ {0} : y = <<c, i>>
  BY DEF Echoes
<1>14. Echoes(d, x)' = IF d = e /\ r = x THEN Echoes(d, x) \cup {<<b, n>>}
                       ELSE Echoes(d, x)
  <2>1. <<b, n>> = <<b, n>> /\ b \in Clients /\ n \in Nat \ {0}
    BY <1>7
  <2>2. CASE d = e /\ r = x
    BY <1>12, <1>13, <2>1, <2>2
  <2>3. CASE ~(d = e /\ r = x)
    BY <1>12, <1>13, <2>3
  <2> QED BY <2>2, <2>3
<1> QED BY <1>11, <1>14 DEF n, r, w

LEMMA CompleteStarts == Init => StoresAreComplete
<1> SUFFICES ASSUME Init, NEW d \in Clients, NEW x, HasPlace(x)
             PROVE  HoldsAll(d, x)
  BY DEF StoresAreComplete
<1>1. /\ store[d][x.channel][x.user] = <<>> /\ reported[d] = <<>>
      /\ \A c \in Clients : reported[c] = <<>> /\ wire[c][d] = <<>>
  BY DEF Init, HasPlace
<1>2. Occurs(<<>>, x) = 0
  <2>1. {i \in DOMAIN <<>> : <<>>[i] = x} = {}
    BY NoEntries
  <2> HIDE <1>1
  <2> QED BY <2>1, FS_EmptySet, Zenon DEF Occurs
<1>3. Echoes(d, x) = {}
  <2>1. \A c \in Clients : Arrived(c, d) = 0
    <3>1. Len(<<>>) = 0
      OBVIOUS
    <3> QED BY <1>1, <3>1 DEF Arrived
  <2>2. \A e \in Clients \X (Nat \ {0}) : ~(e[2] <= Arrived(e[1], d))
    BY <2>1
  <2> QED BY <2>2 DEF Echoes
<1>4. Held(d, x) = 0 /\ Occurs(reported[d], x) = 0
  BY <1>1, <1>2, Zenon DEF Held
<1> QED BY <1>3, <1>4, FS_EmptySet DEF HoldsAll

(* How a record that is sent or received counts at a client.               *)
LEMMA HeldNext ==
  ASSUME NEW d \in Clients, IsStore(store[d]), NEW x, HasPlace(x)
  PROVE  /\ Held(d, x) \in Nat
         /\ \A r : store'[d] = Stored(store[d], r) =>
              Held(d, x)' = IF r = x THEN Held(d, x) + 1 ELSE Held(d, x)
         /\ store'[d] = store[d] => Held(d, x)' = Held(d, x)
<1>1. x.channel \in Channels /\ x.user \in Users
  BY DEF HasPlace
<1>2. ASSUME NEW r, store'[d] = Stored(store[d], r)
      PROVE  Held(d, x)' = IF r = x THEN Held(d, x) + 1 ELSE Held(d, x)
  <2> DEFINE ch == x.channel
             u == x.user
  <2>1. Occurs(Stored(store[d], r)[ch][u], x)
          = IF r = x THEN Occurs(store[d][ch][u], x) + 1
            ELSE Occurs(store[d][ch][u], x)
    BY <1>1, StoredCounts
  <2> QED BY <1>2, <2>1, Zenon DEF Held
<1>3. Held(d, x) \in Nat
  BY <1>1, StoredCounts DEF Held
<1> QED BY <1>2, <1>3 DEF Held

LEMMA CompleteStays ==
  ASSUME JobsOK, StoresOK, FifoOK, StoresAreComplete, [Next]_vars
  PROVE  StoresAreComplete'
<1> SUFFICES ASSUME NEW d \in Clients, NEW x, HasPlace(x)
             PROVE  HoldsAll(d, x)'
  BY DEF StoresAreComplete
<1> DEFINE E == Echoes(d, x)
           h == Held(d, x)
           k == Occurs(reported[d], x)
<1>1. IsFiniteSet(E) /\ h = k + Cardinality(E) /\ Cardinality(E) \in Nat
  BY FS_CardinalityType DEF StoresAreComplete, HoldsAll
<1>2. /\ IsStore(store[d]) /\ IsList(reported[d]) /\ k \in Nat /\ h \in Nat
      /\ \A r : store'[d] = Stored(store[d], r) => h' = IF r = x THEN h + 1 ELSE h
      /\ store'[d] = store[d] => h' = h
  <2>1. IsStore(store[d]) /\ IsList(reported[d])
    BY DEF StoresOK, JobsOK
  <2> QED BY <2>1, OccursNext, HeldNext
<1>3. ASSUME NEW b \in Clients, ReportNext(b)
      PROVE  HoldsAll(d, x)'
  <2> DEFINE r == Head(job[b])
  <2>1. /\ store' = [store EXCEPT ![b] = Stored(store[b], r)]
        /\ reported' = [reported EXCEPT ![b] = Append(reported[b], r)]
    BY <1>3 DEF ReportNext
  <2>2. E' = E
    BY <1>3, SendingEchoes
  <2>3. CASE b # d
    <3>1. store'[d] = store[d] /\ reported'[d] = reported[d]
      BY <2>1, <2>3 DEF StoresOK, JobsOK
    <3>2. h' = h /\ k' = k
      BY <1>2, <3>1
    <3> HIDE DEF h, k, E
    <3>3. IsFiniteSet(E') /\ h' = k' + Cardinality(E')
      BY <1>1, <2>2, <3>2
    <3> QED BY <3>3 DEF HoldsAll, h, k, E
  <2>4. CASE b = d
    <3>1. /\ store'[d] = Stored(store[d], r)
          /\ reported'[d] = Append(reported[d], r)
      BY <2>1, <2>4 DEF StoresOK, JobsOK
    <3> HIDE DEF r
    <3>2. h' = IF r = x THEN h + 1 ELSE h
      BY <1>2, <3>1
    <3>3. k' = IF r = x THEN k + 1 ELSE k
      BY <1>2, <3>1, OccursNext
    <3> HIDE DEF h, E, k
    <3>4. IsFiniteSet(E') /\ h' = k' + Cardinality(E')
      BY <1>1, <1>2, <2>2, <3>2, <3>3
    <3> QED BY <3>4 DEF HoldsAll, h, k, E
  <2> QED BY <2>3, <2>4
<1>4. ASSUME NEW b \in Clients, NEW e \in Clients, ReceiveMessage(b, e)
      PROVE  HoldsAll(d, x)'
  <2> DEFINE r == ParseEvent(Head(wire[b][e]))
             n == Arrived(b, e) + 1
             nobody == ""
  <2>1. /\ store' = IF r.user = nobody THEN store
                    ELSE [store EXCEPT ![e] = Stored(store[e], r)]
        /\ reported' = reported
    BY <1>4 DEF ReceiveMessage
  <2> HIDE DEF nobody
  <2>2. /\ <<b, n>> \notin Echoes(e, x)
        /\ E' = IF d = e /\ r = x THEN E \cup {<<b, n>>} ELSE E
    BY <1>4, ReceivingEchoes
  <2>3. r = x => r.user # nobody
    BY DEF HasPlace, nobody
  <2> HIDE DEF r, n
  <2>4. k' = k
    BY <2>1
  <2>5. CASE d # e \/ r.user = nobody
    <3>1. store'[d] = store[d] /\ ~(d = e /\ r = x)
      BY <2>1, <2>3, <2>5 DEF StoresOK
    <3>2. h' = h /\ E' = E
      BY <1>2, <2>2, <3>1
    <3> HIDE DEF h, k, E
    <3>3. IsFiniteSet(E') /\ h' = k' + Cardinality(E')
      BY <1>1, <2>4, <3>2
    <3> QED BY <3>3 DEF HoldsAll, h, k, E
  <2>6. CASE d = e /\ r.user # nobody
    <3>1. store'[d] = Stored(store[d], r)
      BY <2>1, <2>6 DEF StoresOK
    <3>2. h' = IF r = x THEN h + 1 ELSE h
      BY <1>2, <3>1
    <3>3. <<b, n>> \notin E /\ E' = IF r = x THEN E \cup {<<b, n>>} ELSE E
      BY <2>2, <2>6
    <3> HIDE DEF h, k, E
    <3>4. /\ IsFiniteSet(E')
          /\ Cardinality(E') = IF r = x THEN Cardinality(E) + 1 ELSE Cardinality(E)
      BY <1>1, <3>3, FS_AddElement
    <3>5. h' = k' + Cardinality(E')
      BY <1>1, <1>2, <2>4, <3>2, <3>4
    <3> QED BY <3>4, <3>5 DEF HoldsAll, h, k, E
  <2> QED BY <2>5, <2>6
<1>5. CASE UNCHANGED <<reported, wire, store>>
  <2>1. E' = E /\ h' = h /\ k' = k
    BY <1>5 DEF Echoes, Arrived, Reads, Held
  <2> QED BY <1>1, <2>1 DEF HoldsAll
<1> QED BY <1>3, <1>4, <1>5 DEF Next, ReportStarts, Summary, vars

(* Every client holds exactly what it has reported and what it has read of *)
(* the reports that have arrived, each of them as often.                   *)
THEOREM StoresComplete ==
  Spec => [](JobsOK /\ StoresOK /\ FifoOK /\ StoresAreComplete)
<1>1. Init => JobsOK /\ StoresOK /\ FifoOK /\ StoresAreComplete
  BY JobsStart, SummariesStart, FifoStarts, CompleteStarts
<1>2. JobsOK /\ StoresOK /\ FifoOK /\ StoresAreComplete /\ [Next]_vars
        => (JobsOK /\ StoresOK /\ FifoOK /\ StoresAreComplete)'
  BY JobsStay, StoresStay, FifoStays, CompleteStays
<1> QED BY <1>1, <1>2, PTL DEF Spec

-----------------------------------------------------------------------------
(* What a file becomes: reports with a place in every store.               *)
LEMMA RecordsHavePlace ==
  ASSUME NEW c \in Clients, NEW f \in Files[c], NEW i \in DOMAIN RecordsOf(c, f)
  PROVE  IsReport(RecordsOf(c, f)[i]) /\ HasPlace(RecordsOf(c, f)[i])
<1> DEFINE ev == f.events[i]
           r == RecordsOf(c, f)[i]
<1>1. i \in DOMAIN f.events /\ r = Record(c, f.channel, ev)
  BY DEF RecordsOf
<1>2. ev \in ToSet(f.events)
  BY <1>1 DEF ToSet
<1>3. ev.date.secs \in Int /\ IntMax \in Nat
  BY <1>2, EventAssumption
<1>4. Reportable(r)
  BY RecordsAre
<1> HIDE DEF ev, r
<1>5. DateOf(ev.date) \in Ints
  <2> DEFINE m == 2 * IntMax + 2
  <2>1. m \in Nat \ {0}
    BY <1>3
  <2>2. ASSUME NEW n \in Int
        PROVE  Wrap(n) \in Ints
    <3> DEFINE k == n + IntMax + 1
               q == k % m
    <3>1. k \in Int
      BY <1>3
    <3> HIDE DEF k, m
    <3>2. q \in 0 .. m - 1
      BY <2>1, <3>1
    <3>3. Wrap(n) = q - IntMax - 1
      BY DEF Wrap, k, m
    <3> HIDE DEF q
    <3> QED BY <1>3, <3>2, <3>3 DEF Ints, m
  <2> QED BY <1>3, <2>2 DEF DateOf
<1>6. Trim(Trim(f.channel)) = Trim(f.channel) /\ Trim(UserOf[c]) = UserOf[c]
  <2>1. \A t : Trim(Trim(t)) = Trim(t)
    BY TextAssumption DEF Trim
  <2> QED BY <2>1, TextAssumption
<1>7. UserOf[c] \in Users \ {""} /\ Trim(f.channel) \in Channels
  BY NamesAssumption
<1> HIDE DEF Trim
<1>8. /\ r.channel = Trim(f.channel) /\ r.user = UserOf[c]
      /\ r.dateTime = DateOf(ev.date)
      /\ r = [channel |-> r.channel, user |-> r.user, city |-> r.city,
              eventName |-> r.eventName, dateTime |-> r.dateTime,
              description |-> r.description, info |-> r.info]
  BY <1>1 DEF Record
<1>9. IsReport(r)
  BY <1>4, <1>5, <1>6, <1>8, Zenon DEF IsReport
<1>10. HasPlace(r)
  BY <1>7, <1>8, Zenon DEF HasPlace
<1> QED BY <1>9, <1>10 DEF r

LEMMA ReportedFrom ==
  ASSUME JobsOK, NEW c \in Clients
  PROVE  \/ DOMAIN reported[c] = {}
         \/ \E f \in Files[c] : \A i \in DOMAIN reported[c] :
              i \in DOMAIN RecordsOf(c, f) /\ reported[c][i] = RecordsOf(c, f)[i]
<1> DEFINE s == reported[c]
           t == job[c]
<1>1. IsList(s) /\ IsList(t)
  BY DEF JobsOK
<1>2. CASE s = <<>> /\ t = <<>>
  BY <1>2, NoEntries
<1>3. ASSUME NEW f \in Files[c], s \o t = RecordsOf(c, f)
      PROVE  \A i \in DOMAIN s : i \in DOMAIN RecordsOf(c, f)
                                 /\ s[i] = RecordsOf(c, f)[i]
  <2> DEFINE u == Join(s, t)
  <2>1. u = RecordsOf(c, f)
    BY <1>3 DEF Join
  <2> HIDE DEF s, t
  <2>2. /\ DOMAIN u = 1 .. Len(s) + Len(t)
        /\ Len(s) \in Nat /\ Len(t) \in Nat
        /\ \A i \in 1 .. Len(s) : u[i] = s[i]
    BY <1>1, Joined
  <2> HIDE DEF u
  <2>3. DOMAIN s = 1 .. Len(s)
    BY <1>1, Entries
  <2>4. \A i \in 1 .. Len(s) : i \in 1 .. Len(s) + Len(t)
    BY <2>2
  <2> QED BY <2>1, <2>2, <2>3, <2>4
<1> QED BY <1>2, <1>3 DEF JobsOK, FileOf

LEMMA ReportedHasPlace ==
  ASSUME JobsOK, NEW c \in Clients, NEW i \in DOMAIN reported[c]
  PROVE  IsReport(reported[c][i]) /\ HasPlace(reported[c][i])
BY ReportedFrom, RecordsHavePlace

(* A plain report is told from every other.                                *)
LEMMA ReportedApart ==
  ASSUME JobsOK, ReportsDiffer, NEW b \in Clients, NEW c \in Clients,
         NEW d \in Clients, NEW j \in DOMAIN reported[b],
         NEW i \in DOMAIN reported[c], Plain(reported[c][i]), b # c \/ i # j
  PROVE  LET r == reported[c][i]
         IN  /\ reported[b][j] # r /\ reported[b][j] # Clean(r)
             /\ Reads(b, j, d) # r /\ Reads(b, j, d) # Clean(r)
<1>1. PICK g \in Files[c] : \A k \in DOMAIN reported[c] :
        k \in DOMAIN RecordsOf(c, g) /\ reported[c][k] = RecordsOf(c, g)[k]
  BY ReportedFrom
<1>2. \E f \in Files[b] : /\ b = c => f = g
                          /\ j \in DOMAIN RecordsOf(b, f)
                          /\ reported[b][j] = RecordsOf(b, f)[j]
  <2>1. CASE b = c
    BY <1>1, <2>1
  <2>2. CASE b # c
    BY <2>2, ReportedFrom
  <2> QED BY <2>1, <2>2
<1>3. PICK f \in Files[b] : /\ b = c => f = g
                            /\ j \in DOMAIN RecordsOf(b, f)
                            /\ reported[b][j] = RecordsOf(b, f)[j]
  BY <1>2
<1> DEFINE r == RecordsOf(c, g)[i]
           q == RecordsOf(b, f)[j]
<1>4. i \in DOMAIN g.events /\ j \in DOMAIN f.events
  BY <1>1, <1>3 DEF RecordsOf
<1>5. c # b \/ (g = f /\ i # j)
  BY <1>3
<1>6. reported[c][i] = r /\ reported[b][j] = q
  BY <1>1, <1>3
<1>7. {q, ParseEvent(Delivered(q, d))} \cap {r, Clean(r)} = {}
  BY <1>4, <1>5, <1>6 DEF ReportsDiffer
<1> HIDE DEF r, q
<1>8. Reads(b, j, d) = ParseEvent(Delivered(q, d))
  BY <1>6, Zenon DEF Reads
<1> QED BY <1>6, <1>7, <1>8

(* Of a plain report, what is read is the report itself.                   *)
LEMMA EchoesOfPlain ==
  ASSUME JobsOK, FifoOK, ReportsDiffer, NEW c \in Clients, NEW d \in Clients,
         NEW i \in DOMAIN reported[c], Plain(reported[c][i])
  PROVE  LET r == reported[c][i]
         IN  /\ Echoes(d, Clean(r))
                  = IF i <= Arrived(c, d) THEN {<<c, i>>} ELSE {}
             /\ Clean(r) # r => Echoes(d, r) = {}
<1> DEFINE r == reported[c][i]
           x == Clean(r)
<1>1. Reads(c, i, d) = x
  BY ReportedHasPlace, PlainSurvives DEF Reads
<1>2. i \in Nat \ {0}
  BY Entries DEF JobsOK
<1>3. ASSUME NEW b \in Clients, NEW j \in Nat \ {0}, j <= Arrived(b, d)
      PROVE  /\ Reads(b, j, d) = x <=> (b = c /\ j = i)
             /\ x # r => Reads(b, j, d) # r
  <2>1. j \in DOMAIN reported[b]
    BY <1>3, ArrivedIsReported
  <2>2. CASE b = c /\ j = i
    BY <1>1, <2>2
  <2>3. CASE b # c \/ i # j
    BY <2>1, <2>3, ReportedApart
  <2> QED BY <2>2, <2>3
<1> HIDE DEF r, x
<1>4. ASSUME NEW e \in Clients \X (Nat \ {0}), e[2] <= Arrived(e[1], d)
      PROVE  /\ Reads(e[1], e[2], d) = x <=> e = <<c, i>>
             /\ x # r => Reads(e[1], e[2], d) # r
  <2> DEFINE b == e[1]
             j == e[2]
  <2>1. b \in Clients /\ j \in Nat \ {0} /\ (e = <<c, i>> <=> b = c /\ j = i)
    OBVIOUS
  <2> HIDE DEF b, j
  <2>2. j <= Arrived(b, d)
    BY <1>4 DEF b, j
  <2>3. /\ Reads(b, j, d) = x <=> (b = c /\ j = i)
        /\ x # r => Reads(b, j, d) # r
    BY <1>3, <2>1, <2>2
  <2> QED BY <2>1, <2>3 DEF b, j
<1>5. <<c, i>> \in Clients \X (Nat \ {0})
  BY <1>2
<1>6. <<c, i>>[1] = c /\ <<c, i>>[2] = i
  OBVIOUS
<1>7. Echoes(d, x) = IF i <= Arrived(c, d) THEN {<<c, i>>} ELSE {}
  BY <1>4, <1>5, <1>6 DEF Echoes
<1>8. x # r => Echoes(d, r) = {}
  BY <1>4 DEF Echoes
<1> QED BY <1>7, <1>8 DEF x, r

LEMMA PlainIsReportedOnce ==
  ASSUME JobsOK, ReportsDiffer, NEW c \in Clients, NEW d \in Clients,
         NEW i \in DOMAIN reported[c], Plain(reported[c][i])
  PROVE  LET r == reported[c][i]
         IN  /\ Occurs(reported[d], r) = IF c = d THEN 1 ELSE 0
             /\ Clean(r) # r => Occurs(reported[d], Clean(r)) = 0
<1> DEFINE r == reported[c][i]
           x == Clean(r)
           s == reported[d]
<1>1. \A j \in DOMAIN s : d # c \/ i # j => s[j] # r /\ s[j] # x
  BY ReportedApart
<1>2. d = c => i \in DOMAIN s /\ s[i] = r
  OBVIOUS
<1> HIDE DEF r, s, x
<1>3. {j \in DOMAIN s : s[j] = r} = IF c = d THEN {i} ELSE {}
  BY <1>1, <1>2
<1>4. x # r => {j \in DOMAIN s : s[j] = x} = {}
  BY <1>1, <1>2
<1>5. Occurs(s, r) = IF c = d THEN 1 ELSE 0
  BY <1>3, FS_EmptySet, FS_Singleton DEF Occurs
<1>6. x # r => Occurs(s, x) = 0
  BY <1>4, FS_EmptySet DEF Occurs
<1> QED BY <1>5, <1>6 DEF r, s, x

LEMMA KeptComplete ==
  ASSUME JobsOK, FifoOK, StoresAreComplete, ReportsDiffer
  PROVE  EachReportIsKept
<1> SUFFICES ASSUME NEW c \in Clients, NEW d \in Clients,
                    NEW i \in DOMAIN reported[c], Plain(reported[c][i])
             PROVE  LET r == reported[c][i]
                        held == store[d][r.channel][r.user]
                        echoed == IF i <= Arrived(c, d) THEN 1 ELSE 0
                        own == IF c = d THEN 1 ELSE 0
                    IN  IF Clean(r) = r THEN Occurs(held, r) = echoed + own
                        ELSE Occurs(held, Clean(r)) = echoed
                             /\ Occurs(held, r) = own
  BY DEF EachReportIsKept
<1> DEFINE r == reported[c][i]
           x == Clean(r)
           held == store[d][r.channel][r.user]
           echoed == IF i <= Arrived(c, d) THEN 1 ELSE 0
           own == IF c = d THEN 1 ELSE 0
<1>1. IsReport(r) /\ HasPlace(r)
  BY ReportedHasPlace
<1>2. /\ Echoes(d, x) = IF i <= Arrived(c, d) THEN {<<c, i>>} ELSE {}
      /\ x # r => Echoes(d, r) = {}
  BY EchoesOfPlain
<1>3. /\ Occurs(reported[d], r) = own
      /\ x # r => Occurs(reported[d], x) = 0
  BY PlainIsReportedOnce
<1> HIDE DEF r
<1>4. x.channel = r.channel /\ x.user = r.user
  BY <1>1 DEF IsReport, Clean
<1> HIDE DEF x
<1>5. /\ Occurs(held, r) = Occurs(reported[d], r) + Cardinality(Echoes(d, r))
      /\ Occurs(held, x) = Occurs(reported[d], x) + Cardinality(Echoes(d, x))
  <2>1. HasPlace(x)
    BY <1>1, <1>4 DEF HasPlace
  <2>2. HoldsAll(d, r) /\ HoldsAll(d, x)
    BY <1>1, <2>1 DEF StoresAreComplete
  <2> QED BY <1>4, <2>2, Zenon DEF HoldsAll, Held
<1> HIDE DEF held
<1>6. Cardinality(Echoes(d, x)) = echoed /\ echoed \in Nat /\ own \in Nat
  BY <1>2, FS_EmptySet, FS_Singleton
<1>7. x # r => Cardinality(Echoes(d, r)) = 0
  BY <1>2, FS_EmptySet
<1> HIDE DEF echoed, own
<1>8. IF x = r THEN Occurs(held, r) = echoed + own
      ELSE Occurs(held, x) = echoed /\ Occurs(held, r) = own
  <2>1. CASE x = r
    BY <1>3, <1>5, <1>6, <2>1
  <2>2. CASE x # r
    BY <1>3, <1>5, <1>6, <1>7, <2>2
  <2> QED BY <2>1, <2>2
<1> QED BY <1>8, Zenon DEF x, r, held, echoed, own

(* If the files tell their reports apart, every store holds a plain report *)
(* complete and once for every time it arrives and, at the reporter, once  *)
(* more.                                                                   *)
THEOREM Kept ==
  ASSUME ReportsDiffer
  PROVE  Spec => []EachReportIsKept
<1>1. JobsOK /\ StoresOK /\ FifoOK /\ StoresAreComplete => EachReportIsKept
  BY KeptComplete
<1> QED BY <1>1, StoresComplete, PTL

-----------------------------------------------------------------------------
(* What a reader makes of texts is of texts again.                         *)
Typed(r) ==
  /\ r.city \in Texts /\ r.eventName \in Texts /\ r.dateTime \in Ints
  /\ IsList(r.description)
  /\ \A i \in DOMAIN r.description : r.description[i] \in Lines
  /\ \A k \in DOMAIN r.info : r.info[k] \in Texts

Sendable(r) ==
  /\ IsReport(r) /\ Typed(r) /\ r.channel \in Texts /\ r.user \in Texts
  /\ \A k \in DOMAIN r.info : k \in Texts

LEMMA RecordsTyped ==
  ASSUME NEW c \in Clients, NEW f \in Files[c], NEW i \in DOMAIN RecordsOf(c, f)
  PROVE  Sendable(RecordsOf(c, f)[i])
<1> DEFINE ev == f.events[i]
           r == RecordsOf(c, f)[i]
<1>1. i \in DOMAIN f.events /\ r = Record(c, f.channel, ev)
  BY DEF RecordsOf
<1>2. ev \in ToSet(f.events)
  BY <1>1 DEF ToSet
<1>3. IsReport(r)
  BY RecordsHavePlace
<1> HIDE DEF ev, r
<1>4. /\ r.channel = Trim(f.channel) /\ r.user = UserOf[c]
      /\ r.city = ev.city /\ r.eventName = ev.name
      /\ r.description = ev.description /\ r.info = ev.info
  BY <1>1 DEF Record
<1>5. /\ Trim(f.channel) \in Texts /\ UserOf[c] \in Texts
      /\ ev.city \in Texts /\ ev.name \in Texts
      /\ ToSet(ev.description) \subseteq Lines
      /\ \A k \in DOMAIN ev.info : k \in Texts /\ ev.info[k] \in Texts
  BY <1>2, RankAssumption, Zenon
<1>6. \A k \in DOMAIN r.description : r.description[k] \in Lines
  BY <1>4, <1>5 DEF ToSet
<1>7. IsList(r.description) /\ r.dateTime \in Ints
  BY <1>3 DEF IsReport, Reportable
<1> QED BY <1>3, <1>4, <1>5, <1>6, <1>7 DEF Sendable, Typed, r

LEMMA LineTyped ==
  /\ \A key \in Texts \cup {NoColon}, val \in Texts : Line(key, val) \in Lines
  /\ \A l \in Lines : l.key \in Texts \cup {NoColon} /\ l.val \in Texts
BY DEF Lines, Line

LEMMA WordsTyped ==
  /\ \A val \in Texts :
       /\ Line("user", val) \in Lines /\ Line("city", val) \in Lines
       /\ Line("event name", val) \in Lines /\ Line("date time", val) \in Lines
       /\ Line("subscription", val) \in Lines
       /\ Line("destination", val) \in Lines
  /\ GI \in Lines /\ DE \in Lines /\ Blank \in Lines
<1>1. /\ "user" \in Texts /\ "city" \in Texts /\ "event name" \in Texts
      /\ "date time" \in Texts /\ "subscription" \in Texts
      /\ "destination" \in Texts
  BY RankAssumption DEF Words, Fields
<1>2. "general information" \in Texts /\ "description" \in Texts
  BY RankAssumption DEF Words
<1> DEFINE nothing == ""
<1>3. nothing \in Texts
  BY RankAssumption, Zenon DEF nothing
<1> HIDE DEF nothing
<1>4. /\ Line("general information", nothing) \in Lines
      /\ Line("description", nothing) \in Lines /\ Line(NoColon, nothing) \in Lines
  BY <1>2, <1>3, LineTyped
<1>5. GI \in Lines /\ DE \in Lines /\ Blank \in Lines
  BY <1>4, Zenon DEF GI, DE, Heading, Blank, Text, nothing
<1> QED BY <1>1, <1>5, LineTyped

LEMMA MarkedTyped ==
  ASSUME NEW d \in Clients, NEW l \in Lines
  PROVE  Marked(l, d) \in Lines
<1>1. SubIdOf[d] \in Texts
  BY RankAssumption
<1> QED BY <1>1, LineTyped DEF Marked

LEMMA SentTyped ==
  ASSUME NEW r, Sendable(r)
  PROVE  \A i \in 1 .. Len(Sent(r)) : Sent(r)[i] \in Lines
<1> DEFINE k == Len(Keys(r))
           n == 6 + k
<1>1. Reportable(r)
  BY DEF Sendable, IsReport
<1>2. /\ n \in Nat /\ Len(Rest(r)) \in Nat /\ DOMAIN Rest(r) = 1 .. Len(Rest(r))
      /\ Len(Sent(r)) = n + Len(Rest(r))
      /\ \A i \in 1 .. n : Sent(r)[i] = Opening(r)[i]
      /\ \A i \in 1 .. Len(Rest(r)) : Sent(r)[n + i] = Rest(r)[i]
  BY <1>1, SentIs
<1>3. /\ k \in Nat
      /\ Opening(r)[1] = Line("user", r.user)
      /\ Opening(r)[2] = Line("city", r.city)
      /\ Opening(r)[3] = Line("event name", r.eventName)
      /\ Opening(r)[4] = Line("date time", Decimal(r.dateTime))
      /\ Opening(r)[5] = GI /\ Opening(r)[6 + k] = DE
      /\ \A i \in 1 .. k : Opening(r)[5 + i] = InfoLine(r, i)
  BY <1>1, OpeningIs DEF GI, DE
<1>4. GI \in Lines /\ DE \in Lines
  BY WordsTyped
<1>5. /\ Line("user", r.user) \in Lines /\ Line("city", r.city) \in Lines
      /\ Line("event name", r.eventName) \in Lines
      /\ Line("date time", Decimal(r.dateTime)) \in Lines
  <2>1. Decimal(r.dateTime) \in Texts
    BY RankAssumption DEF Sendable, Typed
  <2> QED BY <2>1, WordsTyped DEF Sendable, Typed
<1>6. ASSUME NEW i \in 1 .. k
      PROVE  InfoLine(r, i) \in Lines
  <2>1. Keys(r)[i] \in DOMAIN r.info
    BY <1>1, <1>6, KeysAreAll
  <2> QED BY <2>1, LineTyped DEF InfoLine, Sendable, Typed
<1>7. ASSUME NEW i \in 1 .. Len(Rest(r))
      PROVE  Rest(r)[i] \in Lines
  <2> DEFINE s == r.description
  <2>1. IsList(s) /\ \A j \in DOMAIN s : s[j] \in Lines
    BY DEF Sendable, Typed
  <2> HIDE DEF s
  <2>2. Thins(WithoutBlanks(s), s, Len(s)) /\ DOMAIN s = 1 .. Len(s)
    BY <2>1, KeptLines, Entries
  <2>3. i \in DOMAIN WithoutBlanks(s)
    BY <1>2, <1>7 DEF Rest, s
  <2>4. WithoutBlanks(s)[i] \in Lines
    BY <2>1, <2>2, <2>3 DEF Thins
  <2> QED BY <2>4 DEF Rest, s
<1> HIDE DEF n
<1>8. ASSUME NEW i \in 1 .. n
      PROVE  Opening(r)[i] \in Lines
  <2>1. \/ i \in {1, 2, 3, 4, 5} \/ i = 6 + k
        \/ i - 5 \in 1 .. k /\ 5 + (i - 5) = i
    <3>1. k \in Nat
      BY <1>3
    <3> HIDE DEF k
    <3> QED BY <1>8, <3>1 DEF n
  <2> HIDE DEF k
  <2>2. CASE i \in {1, 2, 3, 4, 5} \/ i = 6 + k
    BY <1>3, <1>4, <1>5, <2>2
  <2>3. CASE i - 5 \in 1 .. k /\ 5 + (i - 5) = i
    BY <1>3, <1>6, <2>3
  <2> QED BY <2>1, <2>2, <2>3
<1>9. ASSUME NEW i \in 1 .. Len(Sent(r))
      PROVE  Sent(r)[i] \in Lines
  <2>1. i \in 1 .. n \/ (i - n \in 1 .. Len(Rest(r)) /\ n + (i - n) = i)
    BY <1>2, <1>9
  <2>2. CASE i \in 1 .. n
    BY <1>2, <1>8, <2>2
  <2>3. CASE i - n \in 1 .. Len(Rest(r)) /\ n + (i - n) = i
    BY <1>2, <1>7, <2>3
  <2> QED BY <2>1, <2>2, <2>3
<1> QED BY <1>9

LEMMA DeliveredTyped ==
  ASSUME NEW r, Sendable(r), NEW d \in Clients
  PROVE  \A i \in DOMAIN Delivered(r, d) : Delivered(r, d)[i] \in Lines
<1> DEFINE m == StompMessage(SendFrame(r))
           dest == m.headers["destination"]
           top == <<Line("subscription", SubIdMark), Line("destination", dest),
                    Blank>>
           u == Join(top, Sent(r))
           s == Delivered(r, d)
<1>1. Reportable(r) /\ r.channel \in Texts
  BY DEF Sendable, IsReport
<1>2. m.body = Sent(r) /\ IsList(Sent(r)) /\ dest = r.channel
  BY <1>1, ServerReads, FramesAddress
<1>3. s = [i \in DOMAIN u |-> Marked(u[i], d)]
  BY <1>2 DEF Delivered, MessageFrame, Join
<1> HIDE DEF m, dest, s
<1>4. IsList(top) /\ Len(top) = 3
  BY ThreeLines
<1>5. Marked(top[1], d) \in Lines
  <2>1. SubIdOf[d] \in Texts
    BY RankAssumption
  <2>2. Marked(top[1], d) = Line("subscription", SubIdOf[d])
    BY DEF Marked, Line
  <2> QED BY <2>1, <2>2, WordsTyped
<1>6. Marked(top[2], d) \in Lines
  <2>1. Line("destination", dest) \in Lines
    BY <1>1, <1>2, WordsTyped
  <2> QED BY <2>1, MarkedTyped
<1>7. Marked(top[3], d) \in Lines
  <2>1. Blank \in Lines
    BY WordsTyped
  <2> QED BY <2>1, MarkedTyped
<1>8. \A i \in 1 .. Len(Sent(r)) : Marked(Sent(r)[i], d) \in Lines
  BY SentTyped, MarkedTyped
<1> DEFINE n == Len(Sent(r))
<1> HIDE DEF top
<1>9. /\ n \in Nat /\ DOMAIN u = 1 .. 3 + n
      /\ u[1] = top[1] /\ u[2] = top[2] /\ u[3] = top[3]
      /\ \A i \in 1 .. n : u[3 + i] = Sent(r)[i]
  <2>1. /\ Len(Sent(r)) \in Nat
        /\ DOMAIN u = 1 .. Len(top) + Len(Sent(r))
        /\ \A i \in 1 .. Len(top) : u[i] = top[i]
        /\ \A i \in 1 .. Len(Sent(r)) : u[Len(top) + i] = Sent(r)[i]
    <3>1. IsList(top) /\ IsList(Sent(r))
      BY <1>2, <1>4
    <3> QED BY <3>1, Joined
  <2> HIDE DEF u, n
  <2>2. Len(top) = 3 /\ n \in Nat
    BY <1>4, <2>1 DEF n
  <2>3. DOMAIN u = 1 .. 3 + n /\ \A i \in 1 .. n : u[3 + i] = Sent(r)[i]
    BY <2>1, <2>2 DEF n
  <2>4. \A i \in 1 .. 3 : u[i] = top[i]
    BY <2>1, <2>2
  <2> QED BY <2>2, <2>3, <2>4
<1> HIDE DEF u, n
<1>10. ASSUME NEW i \in 1 .. 3 + n
       PROVE  s[i] \in Lines
  <2>1. i \in {1, 2, 3} \/ (i - 3 \in 1 .. n /\ 3 + (i - 3) = i)
    BY <1>9
  <2>2. s[i] = Marked(u[i], d)
    BY <1>3, <1>9
  <2>3. CASE i \in {1, 2, 3}
    BY <1>5, <1>6, <1>7, <1>9, <2>2, <2>3
  <2>4. CASE i - 3 \in 1 .. n /\ 3 + (i - 3) = i
    BY <1>8, <1>9, <2>2, <2>4 DEF n
  <2> QED BY <2>1, <2>3, <2>4
<1> QED BY <1>3, <1>9, <1>10 DEF s

(* The parser makes texts of texts.                                        *)
LEMMA FieldTyped ==
  ASSUME NEW st, IsParsed(st), Typed(st.rec), NEW key, NEW val \in Texts
  PROVE  Typed(Field(st, key, val).rec)
<1> DEFINE rec == st.rec
           n == Stoi(val)
           info == With(rec.info, key, val)
<1>1. Stoi(val) \in Ints
  <2>1. CASE \E m \in Ints : Decimal(m) = val
    <3>1. Stoi(val) = CHOOSE m \in Ints : Decimal(m) = val
      BY <2>1 DEF Stoi
    <3> QED BY <2>1, <3>1
  <2>2. CASE ~ \E m \in Ints : Decimal(m) = val
    <3>1. 0 \in Ints
      BY EventAssumption DEF Ints
    <3> QED BY <2>2, <3>1 DEF Stoi
  <2> QED BY <2>1, <2>2
<1>2. \A k \in DOMAIN info : info[k] \in Texts
  BY DEF Typed, With
<1>3. /\ st = [part |-> st.part, rec |-> rec]
      /\ rec = [channel |-> rec.channel, user |-> rec.user, city |-> rec.city,
                eventName |-> rec.eventName, dateTime |-> rec.dateTime,
                description |-> rec.description, info |-> rec.info]
  BY DEF IsParsed
<1>4. /\ rec.city \in Texts /\ rec.eventName \in Texts /\ rec.dateTime \in Ints
      /\ IsList(rec.description)
      /\ \A i \in DOMAIN rec.description : rec.description[i] \in Lines
      /\ \A k \in DOMAIN rec.info : rec.info[k] \in Texts
  BY DEF Typed
<1>5. \/ Field(st, key, val) = [st EXCEPT !.rec.user = val]
      \/ Field(st, key, val) = [st EXCEPT !.rec.city = val]
      \/ Field(st, key, val) = [st EXCEPT !.rec.eventName = val]
      \/ Field(st, key, val) = [st EXCEPT !.rec.dateTime = n]
      \/ Field(st, key, val) = [st EXCEPT !.rec.info = info]
      \/ Field(st, key, val) = st
  BY DEF Field
<1> HIDE DEF n, info, rec
<1>6. \/ Field(st, key, val).rec = [rec EXCEPT !.user = val]
      \/ Field(st, key, val).rec = [rec EXCEPT !.city = val]
      \/ Field(st, key, val).rec = [rec EXCEPT !.eventName = val]
      \/ Field(st, key, val).rec = [rec EXCEPT !.dateTime = n]
      \/ Field(st, key, val).rec = [rec EXCEPT !.info = info]
      \/ Field(st, key, val).rec = rec
  BY <1>3, <1>5 DEF rec
<1>7. n \in Ints
  BY <1>1 DEF n
<1>8. CASE Field(st, key, val).rec = [rec EXCEPT !.user = val]
  BY <1>3, <1>4, <1>8 DEF Typed
<1>9. CASE Field(st, key, val).rec = [rec EXCEPT !.city = val]
  BY <1>3, <1>4, <1>9 DEF Typed
<1>10. CASE Field(st, key, val).rec = [rec EXCEPT !.eventName = val]
  BY <1>3, <1>4, <1>10 DEF Typed
<1>11. CASE Field(st, key, val).rec = [rec EXCEPT !.dateTime = n]
  BY <1>3, <1>4, <1>7, <1>11 DEF Typed
<1>12. CASE Field(st, key, val).rec = [rec EXCEPT !.info = info]
  BY <1>2, <1>3, <1>4, <1>12 DEF Typed
<1>13. CASE Field(st, key, val).rec = rec
  BY <1>13 DEF rec
<1> QED BY <1>6, <1>8, <1>9, <1>10, <1>11, <1>12, <1>13

LEMMA ParseLineTyped ==
  ASSUME NEW st, IsParsed(st), Typed(st.rec), NEW l \in Lines
  PROVE  Typed(ParseLine(st, l).rec)
<1> DEFINE rec == st.rec
           desc == Append(rec.description, l)
<1>1. /\ st = [part |-> st.part, rec |-> rec]
      /\ rec = [channel |-> rec.channel, user |-> rec.user, city |-> rec.city,
                eventName |-> rec.eventName, dateTime |-> rec.dateTime,
                description |-> rec.description, info |-> rec.info]
  BY DEF IsParsed
<1>2. Trim(l.val) \in Texts
  BY LineTyped, RankAssumption
<1>3. Typed(Field(st, Trim(l.key), Trim(l.val)).rec)
  BY <1>2, FieldTyped
<1>4. IsList(desc) /\ \A i \in DOMAIN desc : desc[i] \in Lines
  <2> DEFINE s == rec.description
  <2>1. IsList(s) /\ \A i \in DOMAIN s : s[i] \in Lines
    BY DEF Typed
  <2> HIDE DEF s
  <2>2. /\ IsList(Append(s, l)) /\ DOMAIN s = 1 .. Len(s) /\ Len(s) \in Nat
        /\ DOMAIN Append(s, l) = 1 .. Len(s) + 1
        /\ \A i \in DOMAIN s : Append(s, l)[i] = s[i]
        /\ Append(s, l)[Len(s) + 1] = l
    BY <2>1, Longer
  <2>3. \A i \in DOMAIN Append(s, l) : i \in DOMAIN s \/ i = Len(s) + 1
    BY <2>2
  <2>4. IsList(Append(s, l)) /\ \A i \in DOMAIN Append(s, l) : Append(s, l)[i] \in Lines
    BY <2>1, <2>2, <2>3
  <2> QED BY <2>4 DEF s
<1>5. \/ ParseLine(st, l) = st
      \/ ParseLine(st, l) = [st EXCEPT !.part = "general"]
      \/ ParseLine(st, l) = [st EXCEPT !.part = "description"]
      \/ ParseLine(st, l) = [st EXCEPT !.rec.description = desc]
      \/ ParseLine(st, l) = Field(st, Trim(l.key), Trim(l.val))
  <2>1. Blank # GI /\ Blank # DE /\ GI # DE
    BY DEF Blank, Text, Heading, Line, GI, DE, NoColon
  <2>2. CASE l = Blank
    BY <2>1, <2>2 DEF ParseLine, GI, DE
  <2>3. CASE l = GI
    BY <2>1, <2>3 DEF ParseLine, GI, DE
  <2>4. CASE l = DE
    BY <2>1, <2>4 DEF ParseLine, GI, DE
  <2>5. CASE l # Blank /\ l # GI /\ l # DE
    <3>1. CASE st.part = "description"
      BY <2>5, <3>1 DEF ParseLine, GI, DE
    <3>2. CASE st.part # "description" /\ l.key # NoColon
      BY <2>5, <3>2 DEF ParseLine, GI, DE
    <3>3. CASE st.part # "description" /\ l.key = NoColon
      BY <2>5, <3>3 DEF ParseLine, GI, DE
    <3> QED BY <3>1, <3>2, <3>3
  <2> QED BY <2>2, <2>3, <2>4, <2>5
<1> HIDE DEF desc
<1>6. \/ ParseLine(st, l).rec = rec
      \/ ParseLine(st, l).rec = [rec EXCEPT !.description = desc]
      \/ Typed(ParseLine(st, l).rec)
  BY <1>1, <1>3, <1>5
<1>7. CASE ParseLine(st, l).rec = [rec EXCEPT !.description = desc]
  <2>1. /\ rec.city \in Texts /\ rec.eventName \in Texts
        /\ rec.dateTime \in Ints /\ \A k \in DOMAIN rec.info : rec.info[k] \in Texts
    BY DEF Typed
  <2> HIDE DEF rec
  <2> QED BY <1>1, <1>4, <1>7, <2>1 DEF Typed
<1> QED BY <1>6, <1>7

LEMMA ParsedTyped ==
  ASSUME NEW r, Sendable(r), NEW d \in Clients
  PROVE  Typed(ParseEvent(Delivered(r, d)))
<1> DEFINE p == ParseEvent(Delivered(r, d))
           b == ParseFrame(Delivered(r, d)).body
           ch == ParseFrame(Delivered(r, d)).headers["destination"]
           m == Len(b)
<1>1. IsList(b) /\ Len(b) = Len(Sent(r)) /\ \A i \in 1 .. m : b[i] \in Lines
  <2>1. /\ IsList(b) /\ Len(b) = Len(Sent(r))
        /\ \A i \in 1 .. Len(Sent(r)) : b[i] = Marked(Sent(r)[i], d)
    BY SubscriberReads DEF Sendable, IsReport
  <2> HIDE DEF b
  <2> QED BY <2>1, SentTyped, MarkedTyped
<1>2. PICK run : /\ run[0] = At("fields", Fresh(ch))
                 /\ \A i \in 1 .. m : run[i] = ParseLine(run[i - 1], b[i])
                 /\ p = run[m].rec
  BY <1>1, ParserReads
<1>3. IsParsed(run[0]) /\ Typed(run[0].rec)
  <2>1. IsParsed(run[0])
    BY <1>2, StartsParsed, Zenon
  <2> DEFINE nothing == ""
  <2>2. nothing \in Texts
    BY RankAssumption, Zenon DEF nothing
  <2>3. 0 \in Ints
    BY EventAssumption DEF Ints
  <2>4. IsList(<<>>) /\ DOMAIN <<>> = {}
    BY NoEntries DEF IsList
  <2> HIDE DEF ch, b, p
  <2>5. Fresh(ch) = [channel |-> ch, user |-> nothing, city |-> nothing,
                     eventName |-> nothing, dateTime |-> 0,
                     description |-> <<>>, info |-> <<>>]
    BY Zenon DEF Fresh, nothing
  <2> HIDE DEF nothing
  <2>6. Typed(Fresh(ch))
    BY <2>2, <2>3, <2>4, <2>5 DEF Typed
  <2>7. run[0].rec = Fresh(ch)
    BY <1>2, Places
  <2> QED BY <2>1, <2>6, <2>7
<1> HIDE DEF b, p, ch
<1>4. m \in Nat
  BY <1>1, Entries
<1> HIDE DEF m
<1> DEFINE Fine(i) == IsParsed(run[i]) /\ Typed(run[i].rec)
           T == {i \in 0 .. m : Fine(i)}
<1>5. ASSUME NEW i \in 0 .. m - 1, Fine(i)
      PROVE  Fine(i + 1)
  <2>1. i + 1 \in 1 .. m /\ (i + 1) - 1 = i
    BY <1>4
  <2>2. run[i + 1] = ParseLine(run[i], b[i + 1]) /\ b[i + 1] \in Lines
    BY <1>1, <1>2, <2>1
  <2>3. IsParsed(run[i + 1])
    BY <1>5, <2>2, LineSets
  <2>4. Typed(run[i + 1].rec)
    BY <1>5, <2>2, ParseLineTyped
  <2> QED BY <2>3, <2>4
<1> HIDE DEF Fine
<1>6. 0 \in T /\ \A i \in 0 .. m - 1 : i \in T => i + 1 \in T
  <2>1. 0 \in 0 .. m /\ \A i \in 0 .. m - 1 : i + 1 \in 0 .. m
    BY <1>4
  <2>2. Fine(0)
    BY <1>3 DEF Fine
  <2> QED BY <1>5, <2>1, <2>2
<1>7. \A i \in 0 .. m : i \in T
  <2> HIDE DEF T
  <2> QED BY <1>4, <1>6, Parser!UpTo
<1>8. Fine(m)
  BY <1>4, <1>7
<1> QED BY <1>2, <1>8 DEF Fine, p

-----------------------------------------------------------------------------
(* Every stored record is well-formed and lies where it says.              *)
StoresTyped ==
  \A d \in Clients, ch \in Channels, u \in Users :
    \A i \in DOMAIN store[d][ch][u] :
      LET r == store[d][ch][u][i]
      IN  Typed(r) /\ r.channel = ch /\ r.user = u

LEMMA JobFrom ==
  ASSUME JobsOK, NEW c \in Clients, NEW i \in DOMAIN job[c]
  PROVE  \E f \in Files[c] : \E k \in DOMAIN RecordsOf(c, f) :
           job[c][i] = RecordsOf(c, f)[k]
<1> DEFINE s == reported[c]
           t == job[c]
<1>1. IsList(s) /\ IsList(t) /\ i \in DOMAIN t
  BY DEF JobsOK
<1>2. CASE t = <<>>
  BY <1>1, <1>2, NoEntries
<1>3. ASSUME NEW f \in Files[c], s \o t = RecordsOf(c, f)
      PROVE  \E k \in DOMAIN RecordsOf(c, f) : t[i] = RecordsOf(c, f)[k]
  <2> DEFINE u == Join(s, t)
  <2>1. u = RecordsOf(c, f)
    BY <1>3 DEF Join
  <2> HIDE DEF s, t
  <2>2. /\ DOMAIN u = 1 .. Len(s) + Len(t)
        /\ Len(s) \in Nat /\ Len(t) \in Nat
        /\ \A k \in 1 .. Len(t) : u[Len(s) + k] = t[k]
    BY <1>1, Joined
  <2> HIDE DEF u
  <2>3. i \in 1 .. Len(t)
    BY <1>1, Entries
  <2>4. Len(s) + i \in DOMAIN u
    BY <2>2, <2>3
  <2> QED BY <2>1, <2>2, <2>3, <2>4
<1> QED BY <1>2, <1>3 DEF JobsOK, FileOf

LEMMA JobTyped ==
  ASSUME JobsOK, NEW c \in Clients
  PROVE  /\ \A i \in DOMAIN job[c] : Sendable(job[c][i]) /\ HasPlace(job[c][i])
         /\ \A i \in DOMAIN reported[c] :
              Sendable(reported[c][i]) /\ HasPlace(reported[c][i])
<1>1. ASSUME NEW i \in DOMAIN job[c]
      PROVE  Sendable(job[c][i]) /\ HasPlace(job[c][i])
  BY JobFrom, RecordsTyped, RecordsHavePlace
<1>2. ASSUME NEW i \in DOMAIN reported[c]
      PROVE  Sendable(reported[c][i]) /\ HasPlace(reported[c][i])
  BY ReportedFrom, RecordsTyped, RecordsHavePlace
<1> QED BY <1>1, <1>2

LEMMA WireTyped ==
  ASSUME JobsOK, FifoOK, NEW c \in Clients, NEW d \in Clients,
         NEW i \in DOMAIN wire[c][d]
  PROVE  \E j \in DOMAIN reported[c] : wire[c][d][i] = Delivered(reported[c][j], d)
<1> DEFINE s == wire[c][d]
           t == reported[c]
<1>1. IsList(s) /\ IsList(t) /\ Follows(s, t, d) /\ i \in DOMAIN s
  BY DEF FifoOK, JobsOK
<1> HIDE DEF s, t
<1>2. /\ DOMAIN s = 1 .. Len(s) /\ Len(s) \in Nat
      /\ DOMAIN t = 1 .. Len(t) /\ Len(t) \in Nat /\ Len(s) <= Len(t)
  BY <1>1, Entries DEF Follows
<1>3. (Len(t) - Len(s)) + i \in DOMAIN t
  BY <1>1, <1>2
<1>4. \E j \in DOMAIN t : s[i] = Delivered(t[j], d)
  BY <1>1, <1>3 DEF Follows
<1> QED BY <1>4 DEF s, t

LEMMA StoredIsTyped ==
  ASSUME JobsOK, StoresOK, FifoOK, [Next]_vars, NEW d \in Clients
  PROVE  \/ store'[d] = store[d]
         \/ \E r : store'[d] = Stored(store[d], r) /\ Typed(r)
<1>1. ASSUME NEW b \in Clients, ReportNext(b)
      PROVE  \/ store'[d] = store[d]
             \/ \E r : store'[d] = Stored(store[d], r) /\ Typed(r)
  <2> DEFINE s == job[b]
             r == Head(s)
  <2>1. store' = [store EXCEPT ![b] = Stored(store[b], r)] /\ s # <<>>
    BY <1>1 DEF ReportNext
  <2>2. IsList(s) /\ \A i \in DOMAIN s : Sendable(s[i])
    BY JobTyped DEF JobsOK
  <2>3. Typed(r)
    <3> HIDE DEF s
    <3>1. Head(s) = s[1] /\ DOMAIN s = 1 .. Len(s) /\ Len(s) \in Nat \ {0}
      BY <2>1, <2>2, Shorter
    <3>2. 1 \in DOMAIN s
      BY <3>1
    <3> QED BY <2>2, <3>1, <3>2 DEF Sendable
  <2> HIDE DEF r
  <2> QED BY <2>1, <2>3 DEF StoresOK
<1>2. ASSUME NEW b \in Clients, NEW e \in Clients, ReceiveMessage(b, e)
      PROVE  \/ store'[d] = store[d]
             \/ \E r : store'[d] = Stored(store[d], r) /\ Typed(r)
  <2> DEFINE s == wire[b][e]
             r == ParseEvent(Head(s))
  <2>1. /\ s # <<>>
        /\ store' = store \/ store' = [store EXCEPT ![e] = Stored(store[e], r)]
    BY <1>2 DEF ReceiveMessage
  <2>2. Typed(r)
    <3>1. IsList(s) /\ \A i \in DOMAIN s : \E j \in DOMAIN reported[b] :
            s[i] = Delivered(reported[b][j], e)
      BY WireTyped DEF FifoOK
    <3> HIDE DEF s
    <3>2. Head(s) = s[1] /\ DOMAIN s = 1 .. Len(s) /\ Len(s) \in Nat \ {0}
      BY <2>1, <3>1, Shorter
    <3>3. 1 \in DOMAIN s
      BY <3>2
    <3>4. PICK j \in DOMAIN reported[b] : Head(s) = Delivered(reported[b][j], e)
      BY <3>1, <3>2, <3>3
    <3>5. Sendable(reported[b][j])
      BY JobTyped
    <3> QED BY <3>4, <3>5, ParsedTyped
  <2> HIDE DEF r
  <2> QED BY <2>1, <2>2 DEF StoresOK
<1>3. CASE UNCHANGED store
  BY <1>3
<1> QED BY <1>1, <1>2, <1>3 DEF Next, ReportStarts, Summary, vars

LEMMA TypedStays ==
  ASSUME JobsOK, StoresOK, FifoOK, StoresTyped, [Next]_vars
  PROVE  StoresTyped'
<1> SUFFICES ASSUME NEW d \in Clients, NEW ch \in Channels, NEW u \in Users,
                    NEW i \in DOMAIN store'[d][ch][u]
             PROVE  LET r == store'[d][ch][u][i]
                    IN  Typed(r) /\ r.channel = ch /\ r.user = u
  BY DEF StoresTyped
<1> DEFINE s == store[d][ch][u]
           t == store'[d][ch][u]
           Fits(r) == Typed(r) /\ r.channel = ch /\ r.user = u
<1>1. IsList(s) /\ \A k \in DOMAIN s : Fits(s[k])
  BY DEF StoresOK, IsStore, StoresTyped
<1>2. t = s \/ \E r : t = Append(s, r) /\ Fits(r)
  <2> DEFINE e == store[d]
  <2>1. CASE store'[d] = e
    BY <2>1
  <2>2. ASSUME NEW r, store'[d] = Stored(e, r), Typed(r)
        PROVE  t = s \/ (t = Append(s, r) /\ Fits(r))
    <3>1. IsStore(e)
      BY DEF StoresOK
    <3> HIDE DEF e
    <3>2. \/ Stored(e, r)[ch][u] = e[ch][u]
          \/ /\ Stored(e, r)[ch][u] = Append(e[ch][u], r)
             /\ ch = r.channel /\ u = r.user
      BY <3>1, StoredAdds
    <3> QED BY <2>2, <3>2 DEF e
  <2> HIDE DEF t, s, Fits
  <2>3. \/ store'[d] = e
        \/ \E r : store'[d] = Stored(e, r) /\ Typed(r)
    BY StoredIsTyped
  <2> HIDE DEF e
  <2> QED BY <2>1, <2>2, <2>3
<1>3. i \in DOMAIN t
  OBVIOUS
<1> HIDE DEF s, t, Fits
<1>4. CASE t = s
  BY <1>1, <1>3, <1>4 DEF Fits, t
<1>5. ASSUME NEW r, t = Append(s, r), Fits(r)
      PROVE  Fits(t[i])
  <2>1. /\ DOMAIN s = 1 .. Len(s) /\ Len(s) \in Nat
        /\ DOMAIN Append(s, r) = 1 .. Len(s) + 1
        /\ \A k \in DOMAIN s : Append(s, r)[k] = s[k]
        /\ Append(s, r)[Len(s) + 1] = r
    BY <1>1, Longer
  <2>2. i \in DOMAIN s \/ i = Len(s) + 1
    BY <1>3, <1>5, <2>1
  <2> QED BY <1>1, <1>5, <2>1, <2>2
<1>6. Fits(t[i])
  BY <1>1, <1>2, <1>3, <1>5
<1> QED BY <1>6 DEF Fits, t

LEMMA TypedStarts == Init => StoresTyped
<1>1. DOMAIN <<>> = {}
  BY NoEntries
<1>2. Init => \A d \in Clients, ch \in Channels, u \in Users :
                store[d][ch][u] = <<>>
  BY DEF Init
<1> QED BY <1>1, <1>2 DEF StoresTyped

(* Whatever texts the files hold, no record, sent, on its way or stored,   *)
(* is malformed, and each lies where its channel and user say (TypeOK).    *)
THEOREM TypesHold == Spec => []TypeOK
<1>1. Init => JobsOK /\ StoresOK /\ FifoOK /\ StoresTyped
  BY JobsStart, SummariesStart, FifoStarts, TypedStarts
<1>2. JobsOK /\ StoresOK /\ FifoOK /\ StoresTyped /\ [Next]_vars
        => (JobsOK /\ StoresOK /\ FifoOK /\ StoresTyped)'
  BY JobsStay, StoresStay, FifoStays, TypedStays
<1>3. JobsOK /\ FifoOK /\ StoresTyped => TypeOK
  <2> SUFFICES ASSUME JobsOK, FifoOK, StoresTyped, NEW c \in Clients
               PROVE  /\ \A i \in DOMAIN job[c] : IsRecord(job[c][i])
                      /\ \A i \in DOMAIN reported[c] : IsRecord(reported[c][i])
                      /\ \A ch \in Channels, u \in Users :
                           \A i \in DOMAIN store[c][ch][u] :
                             LET r == store[c][ch][u][i]
                             IN  IsRecord(r) /\ r.channel = ch /\ r.user = u
                      /\ \A d \in Clients : \A i \in DOMAIN wire[c][d] :
                           \A j \in DOMAIN wire[c][d][i] : wire[c][d][i][j] \in Lines
    BY DEF TypeOK
  <2>1. ASSUME NEW r, Typed(r), r.channel \in Channels, r.user \in Users
        PROVE  IsRecord(r)
    BY <2>1 DEF Typed, IsRecord
  <2>2. ASSUME NEW r, Sendable(r), HasPlace(r)
        PROVE  IsRecord(r)
    BY <2>1, <2>2 DEF Sendable, HasPlace
  <2>3. /\ \A i \in DOMAIN job[c] : IsRecord(job[c][i])
        /\ \A i \in DOMAIN reported[c] : IsRecord(reported[c][i])
    BY <2>2, JobTyped
  <2>4. ASSUME NEW ch \in Channels, NEW u \in Users,
               NEW i \in DOMAIN store[c][ch][u]
        PROVE  LET r == store[c][ch][u][i]
               IN  IsRecord(r) /\ r.channel = ch /\ r.user = u
    BY <2>1 DEF StoresTyped
  <2>5. ASSUME NEW d \in Clients, NEW i \in DOMAIN wire[c][d]
        PROVE  \A j \in DOMAIN wire[c][d][i] : wire[c][d][i][j] \in Lines
    <3>1. PICK j \in DOMAIN reported[c] :
            wire[c][d][i] = Delivered(reported[c][j], d)
      BY WireTyped
    <3>2. Sendable(reported[c][j])
      BY JobTyped
    <3> QED BY <3>1, <3>2, DeliveredTyped
  <2> QED BY <2>3, <2>4, <2>5
<1> QED BY <1>1, <1>2, <1>3, PTL DEF Spec
=============================================================================

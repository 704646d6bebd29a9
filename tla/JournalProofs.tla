--------------------------- MODULE JournalProofs ---------------------------
(***************************************************************************)
(* Proofs about the journal, for every set of calls and tags and with no   *)
(* bound on the transcript.  The inductive invariant adds to the checked   *)
(* properties what a compaction under way is known to hold.                *)
(***************************************************************************)
EXTENDS Journal, SequenceTheorems, TLAPS

-----------------------------------------------------------------------------
(* Typing of the transcript operators.                                     *)

\* The constructors of the entries the runtime writes build messages.
LEMMA MessageTypes ==
    ASSUME NEW tags \in SUBSET Tags, NEW calls \in SUBSET Calls
    PROVE  /\ UserTurn(tags) \in Message
           /\ AssistantTurn(tags, calls) \in Message
           /\ ToolExchange(calls) \in Message
           /\ CompactionSummary \in Message
BY DEF UserTurn, AssistantTurn, ToolExchange, CompactionSummary, Message, Kinds

\* AgentTranscript::push appends one entry holding the message it was given
\* and leaves the ones before it alone.
LEMMA PushType ==
    ASSUME NEW t \in AgentTranscript, NEW msg \in Message
    PROVE  /\ Push(t, msg) \in AgentTranscript
           /\ Len(Push(t, msg).items) = Len(t.items) + 1
           /\ \A i \in 1..Len(t.items) : Push(t, msg).items[i] = t.items[i]
           /\ Push(t, msg).items[Len(t.items) + 1].msg = msg
<1> DEFINE entry == [id |-> t.next, parent |-> Leaf(t), msg |-> msg]
<1>0. t.items \in Seq(Entry) /\ t.next \in Nat /\ t.archive \in SUBSET Entry
  BY DEF AgentTranscript
<1>1. Leaf(t) \in Nat
  <2>1. t.items # <<>> => t.items[Len(t.items)] \in Entry
    BY <1>0, EmptySeq, ElementOfSeq
  <2> QED
    BY <1>0, <2>1 DEF Leaf, Entry, NoParent
<1>2. entry \in Entry /\ entry.msg = msg
  BY <1>0, <1>1 DEF Entry
<1> HIDE DEF entry
<1>3. /\ Append(t.items, entry) \in Seq(Entry)
      /\ Len(Append(t.items, entry)) = Len(t.items) + 1
      /\ \A i \in 1..Len(t.items) : Append(t.items, entry)[i] = t.items[i]
      /\ Append(t.items, entry)[Len(t.items) + 1] = entry
  BY <1>0, <1>2, AppendProperties
<1>4. Push(t, msg) = [t EXCEPT !.items = Append(t.items, entry), !.next = t.next + 1]
  BY DEF Push, entry
<1>5. /\ Push(t, msg) = [items |-> Append(t.items, entry), archive |-> t.archive, next |-> t.next + 1]
  BY <1>4 DEF AgentTranscript
<1> QED
  BY <1>0, <1>2, <1>3, <1>5 DEF AgentTranscript

\* link_active_path changes parent links only: the messages stay in place.
LEMMA LinkType ==
    ASSUME NEW items \in Seq(Entry)
    PROVE  /\ LinkActivePath(items) \in Seq(Entry)
           /\ Len(LinkActivePath(items)) = Len(items)
           /\ \A i \in 1..Len(items) : LinkActivePath(items)[i].msg = items[i].msg
<1> DEFINE linked(i) == IF i > 1 /\ items[i].parent = NoParent
                        THEN [items[i] EXCEPT !.parent = items[i - 1].id] ELSE items[i]
<1>1. Len(items) \in Nat /\ DOMAIN items = 1..Len(items) /\ \A i \in 1..Len(items) : items[i] \in Entry
  BY LenProperties, ElementOfSeq
<1>2. ASSUME NEW i \in 1..Len(items)
      PROVE  linked(i) \in Entry /\ linked(i).msg = items[i].msg
  <2>1. items[i] \in Entry /\ (i > 1 => items[i - 1] \in Entry)
    BY <1>1
  <2> QED
    BY <2>1 DEF Entry
<1>3. LinkActivePath(items) = [i \in 1..Len(items) |-> linked(i)]
  BY <1>1 DEF LinkActivePath
<1> HIDE DEF linked
<1>4. LinkActivePath(items) \in [1..Len(items) -> Entry]
  BY <1>2, <1>3
<1>5. LinkActivePath(items) \in Seq(Entry) /\ Len(LinkActivePath(items)) = Len(items)
  BY <1>1, <1>4, SeqDef, LenProperties
<1> QED
  BY <1>2, <1>3, <1>5

\* A slice of an entry sequence, as branch_from and the compaction cut it.
LEMMA SliceType ==
    ASSUME NEW items \in Seq(Entry), NEW a \in Nat \ {0}, NEW b \in Nat, b <= Len(items)
    PROVE  /\ SubSeq(items, a, b) \in Seq(Entry)
           /\ Len(SubSeq(items, a, b)) = IF a <= b THEN b - a + 1 ELSE 0
           /\ \A i \in 1..(b - a + 1) : SubSeq(items, a, b)[i] = items[a + i - 1]
<1>1. \A i \in a..b : items[i] \in Entry
  BY ElementOfSeq, LenProperties
<1> QED
  BY <1>1, SubSeqProperties

\* The entries of a sequence of entries are entries.
LEMMA EntriesType ==
    ASSUME NEW items \in Seq(Entry)
    PROVE  EntriesIn(items) \subseteq Entry
BY ElementOfSeq, LenProperties DEF EntriesIn

\* A branch_from that succeeds leaves a transcript, whether it shortens the
\* active path or rebuilds the path to an abandoned entry.
LEMMA BranchType ==
    ASSUME NEW t \in AgentTranscript, NEW id \in Ids(t), CanBranch(t, id)
    PROVE  BranchFrom(t, id) \in AgentTranscript
<1>0. t.items \in Seq(Entry) /\ t.archive \in SUBSET Entry /\ t.next \in Nat
  BY DEF AgentTranscript
<1>1. Entries(t) \subseteq Entry
  BY <1>0, EntriesType DEF Entries
<1>2. CASE \E i \in DOMAIN t.items : t.items[i].id = id
  <2> DEFINE at == CHOOSE i \in DOMAIN t.items : t.items[i].id = id
  <2>1. at \in 1..Len(t.items) /\ Len(t.items) \in Nat
    BY <1>0, <1>2, LenProperties
  <2> HIDE DEF at
  <2>2. SubSeq(t.items, 1, at) \in Seq(Entry)
    BY <1>0, <2>1, SliceType
  <2>3. EntriesIn(SubSeq(t.items, at + 1, Len(t.items))) \subseteq Entry
    <3>1. at + 1 \in Nat \ {0} /\ Len(t.items) <= Len(t.items)
      BY <2>1
    <3>2. SubSeq(t.items, at + 1, Len(t.items)) \in Seq(Entry)
      BY <1>0, <2>1, <3>1, SliceType
    <3> QED
      BY <3>2, EntriesType
  <2>4. BranchFrom(t, id) =
          [t EXCEPT !.items = SubSeq(t.items, 1, at),
                    !.archive = t.archive \union EntriesIn(SubSeq(t.items, at + 1, Len(t.items)))]
    BY <1>2 DEF BranchFrom, at
  <2> QED
    BY <1>0, <2>2, <2>3, <2>4 DEF AgentTranscript
<1>3. CASE ~ \E i \in DOMAIN t.items : t.items[i].id = id
  <2>1. PathTo(t, id) \in Seq(Entries(t))
    BY <1>3 DEF CanBranch, IsPath
  <2>2. PathTo(t, id) \in Seq(Entry)
    BY <1>1, <2>1, SeqMonotonic
  <2>3. BranchFrom(t, id) =
          [t EXCEPT !.items = PathTo(t, id), !.archive = Entries(t) \ EntriesIn(PathTo(t, id))]
    BY <1>3 DEF BranchFrom
  <2> QED
    BY <1>0, <1>1, <2>2, <2>3 DEF AgentTranscript
<1> QED
  BY <1>2, <1>3

-----------------------------------------------------------------------------
(* What appending and compacting do to the state of the last turn.         *)

\* Appending anything but an assistant turn keeps a transcript continuable.
LEMMA PushContinuable ==
    ASSUME NEW t \in AgentTranscript, NEW msg \in Message, msg.kind # "assistant",
           Continuable(t.items)
    PROVE  Continuable(Push(t, msg).items)
<1> DEFINE new == Push(t, msg).items
<1>1. t.items \in Seq(Entry) /\ new \in Seq(Entry)
  BY PushType DEF AgentTranscript
<1>2. /\ Len(t.items) \in Nat /\ DOMAIN t.items = 1..Len(t.items)
      /\ DOMAIN new = 1..(Len(t.items) + 1) /\ Len(new) = Len(t.items) + 1
      /\ \A i \in 1..Len(t.items) : new[i] = t.items[i]
      /\ new[Len(t.items) + 1].msg = msg
  BY <1>1, PushType, LenProperties
<1> HIDE DEF new
<1>3. \A i : IsLastAssistant(new, i) => IsLastAssistant(t.items, i)
  BY <1>2 DEF IsLastAssistant
<1>4. ~IsLastAssistant(new, Len(new))
  BY <1>2 DEF IsLastAssistant
<1>5. Unresolved(new) \subseteq Unresolved(t.items)
  <2> SUFFICES ASSUME NEW c \in Unresolved(new) PROVE c \in Unresolved(t.items)
    OBVIOUS
  <2>1. PICK i \in DOMAIN new : /\ IsLastAssistant(new, i)
                                /\ c \in new[i].msg.uses
                                /\ \A j \in DOMAIN new : j > i => c \notin new[j].msg.results
    BY DEF Unresolved
  <2>2. IsLastAssistant(t.items, i) /\ i \in DOMAIN t.items
    BY <1>3, <2>1 DEF IsLastAssistant
  <2> QED
    BY <1>2, <2>1, <2>2 DEF Unresolved
<1> QED
  BY <1>4, <1>5 DEF Continuable, TurnFinished, new

\* close_interrupted_turn: answering every call that is left makes any
\* transcript continuable.
LEMMA ClosingContinuable ==
    ASSUME NEW t \in AgentTranscript, Unresolved(t.items) # {}
    PROVE  Continuable(Push(t, ToolExchange(Unresolved(t.items))).items)
<1> DEFINE open == Unresolved(t.items)
           new == Push(t, ToolExchange(open)).items
<1>0. open \in SUBSET Calls
  BY DEF Unresolved
<1>1. ToolExchange(open) \in Message
  BY <1>0 DEF ToolExchange, Message, Kinds
<1>2. t.items \in Seq(Entry) /\ new \in Seq(Entry)
  BY <1>1, PushType DEF AgentTranscript
<1>3. /\ Len(t.items) \in Nat /\ DOMAIN t.items = 1..Len(t.items)
      /\ DOMAIN new = 1..(Len(t.items) + 1) /\ Len(new) = Len(t.items) + 1
      /\ \A i \in 1..Len(t.items) : new[i] = t.items[i]
      /\ new[Len(t.items) + 1].msg = ToolExchange(open)
  BY <1>1, <1>2, PushType, LenProperties
<1>4. new[Len(t.items) + 1].msg.kind = "tool" /\ new[Len(t.items) + 1].msg.results = open
  BY <1>3 DEF ToolExchange
<1> HIDE DEF new, open
<1>5. \A i : IsLastAssistant(new, i) => IsLastAssistant(t.items, i)
  BY <1>3, <1>4 DEF IsLastAssistant
<1>6. Unresolved(new) = {}
  <2> SUFFICES ASSUME NEW c \in Unresolved(new) PROVE FALSE
    OBVIOUS
  <2>1. PICK i \in DOMAIN new : /\ IsLastAssistant(new, i)
                                /\ c \in new[i].msg.uses
                                /\ \A j \in DOMAIN new : j > i => c \notin new[j].msg.results
    BY DEF Unresolved
  <2>2. IsLastAssistant(t.items, i) /\ i \in DOMAIN t.items
    BY <1>5, <2>1 DEF IsLastAssistant
  <2>3. c \in open
    BY <1>3, <2>1, <2>2 DEF Unresolved, open
  <2> QED
    BY <1>3, <1>4, <2>1, <2>2, <2>3
<1>7. ~IsLastAssistant(new, Len(new))
  BY <1>3, <1>4 DEF IsLastAssistant
<1> QED
  BY <1>6, <1>7 DEF Continuable, TurnFinished, new, open

\* Preserved entries are entries of the kind they were selected for.
LEMMA PickType ==
    ASSUME NEW items \in Seq(Entry), NEW kind, NEW n \in Nat,
           NEW f \in RecentPositions(items, kind, n)
    PROVE  /\ Pick(items, f) \in Seq(Entry)
           /\ Len(Pick(items, f)) = n
           /\ \A i \in 1..n : Pick(items, f)[i].msg.kind = kind
<1>1. DOMAIN items = 1..Len(items) /\ \A i \in 1..Len(items) : items[i] \in Entry
  BY LenProperties, ElementOfSeq
<1>2. f \in [1..n -> DOMAIN items] /\ \A i \in 1..n : items[f[i]].msg.kind = kind
  BY DEF RecentPositions
<1>3. Pick(items, f) = [i \in 1..n |-> items[f[i]]]
  BY <1>2 DEF Pick
<1>4. Pick(items, f) \in [1..n -> Entry]
  BY <1>1, <1>2, <1>3
<1>5. Pick(items, f) \in Seq(Entry) /\ Len(Pick(items, f)) = n
  BY <1>4, SeqDef, LenProperties
<1> QED
  BY <1>2, <1>3, <1>5

\* Where an element of the second of two joined sequences is found.
LEMMA Shift ==
    ASSUME NEW k \in Nat, NEW n \in Nat, NEW i \in 1..n
    PROVE  k + i \in 1..(k + n) /\ ~(k + i <= k) /\ (k + i) - k = i
OBVIOUS

\* Entries none of which is an assistant turn can be joined (the preserved
\* entries and the summary that build_compacted_transcript puts in front).
LEMMA JoinNoAssistant ==
    ASSUME NEW a \in Seq(Entry), NEW b \in Seq(Entry),
           \A i \in 1..Len(a) : a[i].msg.kind # "assistant",
           \A i \in 1..Len(b) : b[i].msg.kind # "assistant"
    PROVE  /\ a \o b \in Seq(Entry) /\ Len(a \o b) = Len(a) + Len(b)
           /\ \A i \in 1..(Len(a) + Len(b)) : (a \o b)[i].msg.kind # "assistant"
<1>1. Len(a) \in Nat /\ Len(b) \in Nat
  BY LenProperties
<1>2. /\ a \o b \in Seq(Entry) /\ Len(a \o b) = Len(a) + Len(b)
      /\ \A i \in 1..(Len(a) + Len(b)) : (a \o b)[i] = IF i <= Len(a) THEN a[i] ELSE b[i - Len(a)]
  BY ConcatProperties
<1>3. ASSUME NEW i \in 1..(Len(a) + Len(b))
      PROVE  (a \o b)[i].msg.kind # "assistant"
  <2>1. CASE i <= Len(a)
    BY <1>1, <1>2, <2>1
  <2>2. CASE ~(i <= Len(a))
    <3>1. i - Len(a) \in 1..Len(b)
      BY <1>1, <2>2
    <3> QED
      BY <1>2, <2>2, <3>1
  <2> QED
    BY <2>1, <2>2
<1> QED
  BY <1>2, <1>3

\* A compaction replaces the transcript by entries that are not assistant
\* turns, followed by the required tail of the transcript it summarised.
LEMMA CompactionShape ==
    ASSUME NEW t \in AgentTranscript, CanCompact(t.items),
           NEW out \in CompactionOutcomes(t)
    PROVE  /\ out \in AgentTranscript
           /\ \E k \in Nat \ {0} :
                /\ Len(out.items) = k + (Len(t.items) - TailStart(t.items) + 1)
                /\ \A i \in 1..k : out.items[i].msg.kind # "assistant"
                /\ \A i \in 1..(Len(t.items) - TailStart(t.items) + 1) :
                       out.items[k + i].msg = t.items[TailStart(t.items) + i - 1].msg
<1> DEFINE start == TailStart(t.items)
           prefix == SubSeq(t.items, 1, start - 1)
           tail == SubSeq(t.items, start, Len(t.items))
           summary == [id |-> t.next, parent |-> NoParent, msg |-> CompactionSummary]
<1>1. t.items \in Seq(Entry) /\ t.next \in Nat /\ Len(t.items) \in Nat
  BY LenProperties DEF AgentTranscript
<1>2. start \in 2..(Len(t.items) + 1) /\ start - 1 \in Nat /\ start \in Nat \ {0}
  <2>1. Len(t.items) >= 1
    BY <1>1, EmptySeq DEF CanCompact
  <2>2. RequiredTailStart(t.items) \in 1..Len(t.items)
    BY <1>1, <2>1 DEF RequiredTailStart
  <2> QED
    BY <1>1, <2>1, <2>2 DEF CanCompact, TailStart
<1> HIDE DEF start
<1>3. prefix \in Seq(Entry) /\ Len(prefix) \in Nat
  <2>1. prefix \in Seq(Entry)
    BY <1>1, <1>2, SliceType
  <2> QED
    BY <2>1, LenProperties
<1>4. /\ tail \in Seq(Entry)
      /\ Len(tail) = Len(t.items) - start + 1
      /\ \A i \in 1..(Len(t.items) - start + 1) : tail[i] = t.items[start + i - 1]
  BY <1>1, <1>2, SliceType
<1> HIDE DEF prefix, tail
<1>5a. PICK n \in Nat, l \in Nat : \E f \in RecentPositions(prefix, "user", n),
                                     g \in RecentPositions(prefix, "delegation_result", l) :
         out = FromParts(Pick(prefix, f) \o Pick(prefix, g) \o <<summary>> \o tail, {}, t.next + 1)
  BY <1>3 DEF CompactionOutcomes, Compacted, prefix, tail, start
<1>5. PICK f \in RecentPositions(prefix, "user", n),
           g \in RecentPositions(prefix, "delegation_result", l) :
         out = FromParts(Pick(prefix, f) \o Pick(prefix, g) \o <<summary>> \o tail, {}, t.next + 1)
  BY <1>5a
<1> DEFINE picked == Pick(prefix, f) \o Pick(prefix, g)
           head == picked \o <<summary>>
<1>6. summary \in Entry /\ summary.msg.kind = "summary"
  BY <1>1 DEF Entry, CompactionSummary, NoParent, Message, Kinds
<1> HIDE DEF summary
<1>7. /\ <<summary>> \in Seq(Entry) /\ Len(<<summary>>) = 1
      /\ <<summary>>[1] = summary
  BY <1>6
<1>8. /\ picked \in Seq(Entry) /\ Len(picked) = n + l
      /\ \A i \in 1..(n + l) : picked[i].msg.kind # "assistant"
  <2>1. /\ Pick(prefix, f) \in Seq(Entry) /\ Len(Pick(prefix, f)) = n
        /\ \A i \in 1..n : Pick(prefix, f)[i].msg.kind = "user"
    BY <1>3, PickType
  <2>2. /\ Pick(prefix, g) \in Seq(Entry) /\ Len(Pick(prefix, g)) = l
        /\ \A i \in 1..l : Pick(prefix, g)[i].msg.kind = "delegation_result"
    BY <1>3, PickType
  <2> QED
    BY <2>1, <2>2, JoinNoAssistant
<1> HIDE DEF picked
<1>9. /\ head \in Seq(Entry) /\ Len(head) = n + l + 1
      /\ \A i \in 1..(n + l + 1) : head[i].msg.kind # "assistant"
  <2>1. \A i \in 1..Len(<<summary>>) : <<summary>>[i].msg.kind # "assistant"
    BY <1>6, <1>7
  <2> QED
    BY <1>7, <1>8, <2>1, JoinNoAssistant
<1> HIDE DEF head
<1> DEFINE all == head \o tail
           k == n + l + 1
<1>9a. k \in Nat \ {0} /\ Len(head) = k /\ \A i \in 1..k : head[i].msg.kind # "assistant"
  BY <1>5a, <1>9
<1> HIDE DEF k
<1>10. /\ all \in Seq(Entry) /\ Len(all) = k + Len(tail)
       /\ \A i \in 1..(k + Len(tail)) : all[i] = IF i <= k THEN head[i] ELSE tail[i - k]
  <2>1. /\ all \in Seq(Entry) /\ Len(all) = Len(head) + Len(tail)
        /\ \A i \in 1..(Len(head) + Len(tail)) : all[i] =
               IF i <= Len(head) THEN head[i] ELSE tail[i - Len(head)]
    BY <1>4, <1>9, ConcatProperties
  <2> HIDE DEF all
  <2> QED
    BY <1>9a, <2>1
<1>11. out = [items |-> LinkActivePath(all), archive |-> {}, next |-> t.next + 1]
  BY <1>5 DEF FromParts, head, picked
<1> HIDE DEF all
<1>12. /\ LinkActivePath(all) \in Seq(Entry) /\ Len(LinkActivePath(all)) = Len(all)
       /\ \A i \in 1..Len(all) : LinkActivePath(all)[i].msg = all[i].msg
  BY <1>10, LinkType
<1>13. out \in AgentTranscript
  BY <1>1, <1>11, <1>12 DEF AgentTranscript
<1>14. ASSUME NEW i \in 1..k
       PROVE  out.items[i].msg.kind # "assistant"
  <2>1. i \in 1..(k + Len(tail)) /\ i <= k
    BY <1>1, <1>2, <1>4, <1>9a
  <2>2. all[i] = head[i]
    BY <1>10, <2>1
  <2> QED
    BY <1>9a, <1>10, <1>11, <1>12, <2>1, <2>2
<1>15. ASSUME NEW i \in 1..(Len(t.items) - start + 1)
       PROVE  out.items[k + i].msg = t.items[start + i - 1].msg
  <2>1. k + i \in 1..(k + Len(tail)) /\ ~(k + i <= k) /\ (k + i) - k = i
    <3>1. k \in Nat /\ Len(tail) \in Nat /\ i \in 1..Len(tail)
      BY <1>4, <1>9a, LenProperties
    <3> QED
      BY <3>1, Shift
  <2>2. all[k + i] = tail[i]
    BY <1>10, <2>1
  <2> QED
    BY <1>4, <1>10, <1>11, <1>12, <2>1, <2>2
<1>16. k \in Nat \ {0} /\ Len(out.items) = k + (Len(t.items) - start + 1)
  BY <1>4, <1>9a, <1>10, <1>11, <1>12
<1> QED
  BY <1>13, <1>14, <1>15, <1>16 DEF start

\* Compacting a continuable transcript leaves a continuable one: the tail the
\* engine keeps holds the last assistant turn together with its answers.
LEMMA CompactionContinuable ==
    ASSUME NEW t \in AgentTranscript, CanCompact(t.items),
           NEW out \in CompactionOutcomes(t), Continuable(t.items)
    PROVE  Continuable(out.items)
<1> DEFINE start == TailStart(t.items)
           n == Len(t.items)
<1>1. t.items \in Seq(Entry) /\ n \in Nat \ {0} /\ DOMAIN t.items = 1..n
  BY LenProperties, EmptySeq DEF AgentTranscript, CanCompact
<1>2. out.items \in Seq(Entry)
  BY CompactionShape DEF AgentTranscript
<1>3. PICK k \in Nat \ {0} :
                /\ Len(out.items) = k + (n - start + 1)
                /\ \A i \in 1..k : out.items[i].msg.kind # "assistant"
                /\ \A i \in 1..(n - start + 1) :
                       out.items[k + i].msg = t.items[start + i - 1].msg
  BY CompactionShape
<1>4. DOMAIN out.items = 1..(k + (n - start + 1))
  BY <1>2, <1>3, LenProperties
<1>5. \/ start = n + 1
      \/ start = n
      \/ start = n - 1 /\ n > 1 /\ t.items[n].msg.kind = "tool" /\ t.items[n - 1].msg.kind = "assistant"
  BY <1>1 DEF TailStart, RequiredTailStart
<1> HIDE DEF start, n
<1>6. CASE start = n + 1
  <2>1. \A i : ~IsLastAssistant(out.items, i)
    BY <1>1, <1>3, <1>4, <1>6 DEF IsLastAssistant
  <2> QED
    BY <2>1 DEF Continuable, TurnFinished, Unresolved
<1>7. CASE start = n
  <2>1. t.items[n].msg.kind # "assistant"
    <3> SUFFICES ASSUME t.items[n].msg.kind = "assistant" PROVE FALSE
      OBVIOUS
    <3>1. IsLastAssistant(t.items, n)
      BY <1>1 DEF IsLastAssistant
    <3> QED
      BY <3>1 DEF Continuable, TurnFinished, n
  <2>2. DOMAIN out.items = 1..(k + 1) /\ out.items[k + 1].msg = t.items[n].msg
    BY <1>1, <1>3, <1>4, <1>7
  <2>3. \A i : ~IsLastAssistant(out.items, i)
    BY <1>3, <2>1, <2>2 DEF IsLastAssistant
  <2> QED
    BY <2>3 DEF Continuable, TurnFinished, Unresolved
<1>8. CASE start = n - 1 /\ n > 1 /\ t.items[n].msg.kind = "tool" /\ t.items[n - 1].msg.kind = "assistant"
  <2>1. /\ DOMAIN out.items = 1..(k + 2) /\ Len(out.items) = k + 2
        /\ out.items[k + 1].msg = t.items[n - 1].msg
        /\ out.items[k + 2].msg = t.items[n].msg
    BY <1>1, <1>3, <1>4, <1>8
  <2>2. IsLastAssistant(t.items, n - 1)
    BY <1>1, <1>8 DEF IsLastAssistant
  <2>3. \A c \in Calls : c \in t.items[n - 1].msg.uses => c \in t.items[n].msg.results
    <3> SUFFICES ASSUME NEW c \in Calls, c \in t.items[n - 1].msg.uses,
                        c \notin t.items[n].msg.results
                 PROVE  c \in Unresolved(t.items)
      BY DEF Continuable
    <3>1. \A j \in DOMAIN t.items : j > n - 1 => c \notin t.items[j].msg.results
      BY <1>1
    <3>2. n - 1 \in DOMAIN t.items
      BY <2>2 DEF IsLastAssistant
    <3> QED
      BY <2>2, <3>1, <3>2 DEF Unresolved
  <2>4. \A i : IsLastAssistant(out.items, i) => i = k + 1
    BY <1>3, <1>8, <2>1 DEF IsLastAssistant
  <2>5. Unresolved(out.items) = {}
    BY <1>3, <2>1, <2>3, <2>4 DEF Unresolved
  <2>6. ~IsLastAssistant(out.items, Len(out.items))
    BY <1>3, <2>1, <2>4
  <2> QED
    BY <2>5, <2>6 DEF Continuable, TurnFinished
<1> QED
  BY <1>5, <1>6, <1>7, <1>8

-----------------------------------------------------------------------------
(* Typing of the operations of AgentMemory.                                *)

\* A new transcript is a transcript.
LEMMA EmptyType == EmptyTranscript \in AgentTranscript /\ NewMemory \in AgentMemoryState
<1>1. EmptyTranscript \in AgentTranscript
  BY EmptySeq DEF EmptyTranscript, AgentTranscript
<1> QED
  BY <1>1 DEF NewMemory, AgentMemoryState

\* The messages callers hand to the journal are messages.
LEMMA InputTypes ==
    /\ UserMessages \union ToolMessages \union AssistantMessages \subseteq Message
    /\ \A msg \in UserMessages \union ToolMessages : msg.kind # "assistant"
<1>1. UserMessages \union ToolMessages \union AssistantMessages \subseteq Message
  BY MessageTypes DEF UserMessages, ToolMessages, AssistantMessages
<1>2. \A msg \in UserMessages \union ToolMessages : msg.kind # "assistant"
  BY DEF UserMessages, ToolMessages, UserTurn, ToolExchange
<1> QED
  BY <1>1, <1>2

-----------------------------------------------------------------------------
(* The inductive invariant.                                                *)

\* An interrupted turn can be continued once a failure is rolled back.
Safe(m) == m.interrupted => Continuable(Fallback(m).items)

\* What one state of the memory satisfies on its own.
Sound(m) == m \in AgentMemoryState /\ (m.pending => m.run # None)

\* A compaction under way holds an outcome of the base it started from, and
\* no process that went down leaves one behind.
DraftIsOutcome ==
    /\ draft # None =>
        /\ draft.revision <= mem.revision
        /\ CanCompact(draft.base.items)
        /\ draft.outcome \in CompactionOutcomes(draft.base)
    /\ ~up => draft = None /\ mem = disk

\* The inductive invariant of the journal: the checked properties together
\* with what is known of the compaction under way.
IInv ==
    /\ TypeOK
    /\ InterruptedIsContinuable
    /\ PendingOnlyInRun
    /\ StoreFollowsMemory
    /\ CompactionIsFresh
    /\ DraftIsOutcome

\* The bookkeeping of a run is never mistaken for the absence of a run.
LEMMA OpenRunType ==
    ASSUME NEW m \in AgentMemoryState
    PROVE  /\ OpenRun(m) \in RunMemoryState /\ OpenRun(m) # None
           /\ OpenRun(m).baseline = m.transcript
<1>1. None \notin RunMemoryState
  BY NoneAssumption, Zenon DEF RunMemoryState
<1>2. m.transcript \in AgentTranscript
  BY DEF AgentMemoryState
<1>3. OpenRun(m) \in RunMemoryState /\ OpenRun(m).baseline = m.transcript
  BY <1>2 DEF OpenRun, RunMemoryState
<1> QED
  BY <1>1, <1>3

\* Every operation of AgentMemory keeps a sound memory sound.  The revision
\* is left to persist.
LEMMA OperationsSound ==
    ASSUME NEW m, Sound(m)
    PROVE  /\ \A msg \in Message :
                /\ Sound(BeginRun(m, msg)) /\ BeginRun(m, msg).revision = m.revision
                /\ Sound(AppendItem(m, msg)) /\ AppendItem(m, msg).revision = m.revision
                /\ Sound(CommitAssistantMessage(m, msg))
                /\ CommitAssistantMessage(m, msg).revision = m.revision
           /\ Sound(BeginContinuation(m)) /\ BeginContinuation(m).revision = m.revision
           /\ m.run # None => Sound(UpdatePendingTurn(m))
           /\ UpdatePendingTurn(m).revision = m.revision
           /\ Sound(ClearPendingTurn(m)) /\ ClearPendingTurn(m).revision = m.revision
           /\ Sound(RollbackFailedRun(m)) /\ RollbackFailedRun(m).revision = m.revision
           /\ Sound(FinishRun(m)) /\ FinishRun(m).revision = m.revision
           /\ \A t \in AgentTranscript :
                Sound(ApplyCompaction(m, t)) /\ ApplyCompaction(m, t).revision = m.revision
<1> USE DEF Sound, AgentMemoryState, RunMemoryState
<1>0. OpenRun(m) \in RunMemoryState /\ OpenRun(m) # None
  BY OpenRunType
<1>1. \A msg \in Message : Push(m.transcript, msg) \in AgentTranscript
  BY PushType
<1>2. ASSUME NEW msg \in Message
      PROVE  /\ Sound(BeginRun(m, msg)) /\ BeginRun(m, msg).revision = m.revision
             /\ Sound(AppendItem(m, msg)) /\ AppendItem(m, msg).revision = m.revision
             /\ Sound(CommitAssistantMessage(m, msg))
             /\ CommitAssistantMessage(m, msg).revision = m.revision
  <2>1. Sound(BeginRun(m, msg)) /\ BeginRun(m, msg).revision = m.revision
    BY <1>0, <1>1 DEF BeginRun
  <2>2. Sound(AppendItem(m, msg)) /\ AppendItem(m, msg).revision = m.revision
    BY <1>1 DEF AppendItem
  <2>3. m.run # None => [m.run EXCEPT !.committed = TRUE] \in RunMemoryState
    OBVIOUS
  <2>4. /\ Sound(CommitAssistantMessage(m, msg))
        /\ CommitAssistantMessage(m, msg).revision = m.revision
    BY <1>1, <2>3 DEF CommitAssistantMessage
  <2> QED
    BY <2>1, <2>2, <2>4
<1>3. Sound(BeginContinuation(m)) /\ BeginContinuation(m).revision = m.revision
  BY <1>0 DEF BeginContinuation
<1>4. /\ m.run # None => Sound(UpdatePendingTurn(m))
      /\ UpdatePendingTurn(m).revision = m.revision
  BY DEF UpdatePendingTurn
<1>5. Sound(ClearPendingTurn(m)) /\ ClearPendingTurn(m).revision = m.revision
  BY DEF ClearPendingTurn
<1>6. Sound(RollbackFailedRun(m)) /\ RollbackFailedRun(m).revision = m.revision
  <2>1. m.run # None => m.run.baseline \in AgentTranscript
    OBVIOUS
  <2> QED
    BY <2>1 DEF RollbackFailedRun
<1>7. Sound(FinishRun(m)) /\ FinishRun(m).revision = m.revision
  BY DEF FinishRun
<1>8. \A t \in AgentTranscript :
         Sound(ApplyCompaction(m, t)) /\ ApplyCompaction(m, t).revision = m.revision
  BY DEF ApplyCompaction
<1> QED
  BY <1>2, <1>3, <1>4, <1>5, <1>6, <1>7, <1>8

\* Every operation of AgentMemory keeps an interrupted turn continuable, as
\* long as no run is opened over another.
LEMMA OperationsSafe ==
    ASSUME NEW m, Sound(m), Safe(m)
    PROVE  /\ \A msg \in Message : m.run = None => Safe(BeginRun(m, msg))
           /\ m.run = None => Safe(BeginContinuation(m))
           /\ \A msg \in Message : msg.kind # "assistant" => Safe(AppendItem(m, msg))
           /\ \A msg \in Message : m.run # None => Safe(CommitAssistantMessage(m, msg))
           /\ Safe(UpdatePendingTurn(m)) /\ Safe(ClearPendingTurn(m))
           /\ Safe(RollbackFailedRun(m)) /\ Safe(FinishRun(m))
<1> USE DEF Sound, Safe, Fallback, AgentMemoryState, RunMemoryState
<1>0. OpenRun(m) # None /\ OpenRun(m).baseline = m.transcript
  BY OpenRunType
<1>1. \A msg \in Message : m.run = None => Safe(BeginRun(m, msg))
  BY <1>0 DEF BeginRun
<1>2. m.run = None => Safe(BeginContinuation(m))
  BY <1>0 DEF BeginContinuation
<1>3. \A msg \in Message : msg.kind # "assistant" => Safe(AppendItem(m, msg))
  BY PushContinuable DEF AppendItem
<1>4. ASSUME NEW msg \in Message, m.run # None
      PROVE  Safe(CommitAssistantMessage(m, msg))
  <2>1. /\ [m.run EXCEPT !.committed = TRUE] \in RunMemoryState
        /\ [m.run EXCEPT !.committed = TRUE].baseline = m.run.baseline
        /\ [m.run EXCEPT !.committed = TRUE] # None
    BY <1>4, NoneAssumption
  <2> QED
    BY <1>4, <2>1 DEF CommitAssistantMessage
<1>5. Safe(UpdatePendingTurn(m)) /\ Safe(ClearPendingTurn(m)) /\ Safe(FinishRun(m))
  BY DEF UpdatePendingTurn, ClearPendingTurn, FinishRun
<1>6. Safe(RollbackFailedRun(m))
  BY DEF RollbackFailedRun
<1> QED
  BY <1>1, <1>2, <1>3, <1>4, <1>5, <1>6

\* recover() settles whatever the stored copy was left with: no run is open
\* afterwards, and a turn marked interrupted can be continued.
LEMMA RecoverSafe ==
    ASSUME NEW m, Sound(m), NeedsRecovery(m)
    PROVE  /\ Sound(Recover(m)) /\ Recover(m).revision = m.revision
           /\ Safe(m) => Safe(Recover(m))
<1> USE DEF Sound, AgentMemoryState, RunMemoryState
<1> DEFINE Closing(x) == /\ x \in AgentMemoryState /\ x.run = None /\ ~x.pending
                         /\ ~TurnFinished(x.transcript.items)
                         /\ x.revision = m.revision
<1>1. ASSUME NEW x, Closing(x)
      PROVE  /\ Sound(CloseInterruptedTurn(x)) /\ Safe(CloseInterruptedTurn(x))
             /\ CloseInterruptedTurn(x).revision = m.revision
  <2>1. x.transcript \in AgentTranscript
    BY <1>1
  <2>2. CASE Unresolved(x.transcript.items) = {}
    <3>1. CloseInterruptedTurn(x) = [x EXCEPT !.interrupted = TRUE]
      BY <1>1, <2>2 DEF CloseInterruptedTurn
    <3> QED
      BY <1>1, <2>2, <3>1 DEF Safe, Fallback, Continuable
  <2>3. CASE Unresolved(x.transcript.items) # {}
    <3> DEFINE closed == Push(x.transcript, ToolExchange(Unresolved(x.transcript.items)))
    <3>1. Continuable(closed.items)
      BY <2>1, <2>3, ClosingContinuable
    <3>2. Unresolved(x.transcript.items) \in SUBSET Calls
      BY DEF Unresolved
    <3>3. ToolExchange(Unresolved(x.transcript.items)) \in Message
      BY <3>2 DEF ToolExchange, Message, Kinds
    <3>4. closed \in AgentTranscript
      BY <2>1, <3>3, PushType
    <3>5. CloseInterruptedTurn(x) = [x EXCEPT !.transcript = closed, !.interrupted = TRUE]
      BY <1>1, <2>3 DEF CloseInterruptedTurn
    <3> HIDE DEF closed
    <3> QED
      BY <1>1, <3>1, <3>4, <3>5 DEF Safe, Fallback
  <2> QED
    BY <2>2, <2>3
<1> DEFINE closed == [m EXCEPT !.run = None, !.pending = FALSE]
           kept == [closed EXCEPT !.resumable = None]
<1>2. CASE m.run = None
  <2>1. ~TurnFinished(m.transcript.items)
    BY <1>2 DEF NeedsRecovery, TurnFinished
  <2>2. Closing(m)
    BY <1>2, <2>1
  <2> QED
    BY <1>1, <1>2, <2>2 DEF Recover
<1>3. CASE m.run # None /\ ~m.run.committed
  <2>1. Recover(m) = [closed EXCEPT !.transcript = m.run.baseline]
    BY <1>3 DEF Recover
  <2> QED
    BY <1>3, <2>1 DEF Safe, Fallback
<1>4. CASE m.run # None /\ m.run.committed /\ TurnFinished(m.transcript.items)
  <2>1. Recover(m) = [kept EXCEPT !.interrupted = FALSE]
    BY <1>4 DEF Recover
  <2> QED
    BY <1>4, <2>1 DEF Safe
<1>5. CASE m.run # None /\ m.run.committed /\ ~TurnFinished(m.transcript.items)
  <2>1. Recover(m) = CloseInterruptedTurn(kept)
    BY <1>5 DEF Recover
  <2>2. Closing(kept)
    BY <1>5
  <2> HIDE DEF Closing, kept, closed
  <2>3. /\ Sound(CloseInterruptedTurn(kept)) /\ Safe(CloseInterruptedTurn(kept))
        /\ CloseInterruptedTurn(kept).revision = m.revision
    BY <1>1, <2>2
  <2> QED
    BY <2>1, <2>3
<1> QED
  BY <1>2, <1>3, <1>4, <1>5

\* persist(): an operation that keeps the memory sound and its interrupted
\* turn continuable keeps the whole invariant, whether or not the save
\* succeeds; the revision moves past every compaction under way.
LEMMA PersistPreserves ==
    ASSUME IInv, NEW m, NEW saved \in BOOLEAN, Persist(m, saved),
           Sound(m), m.revision = mem.revision,
           up' = TRUE, draft' \in {draft, None},
           overlapped' \in BOOLEAN, overlapped => overlapped',
           ~overlapped' => Safe(m)
    PROVE  IInv'
<1> USE DEF IInv, TypeOK
<1>1. /\ mem' = [m EXCEPT !.revision = @ + 1]
      /\ disk' = mem' \/ disk' = disk
  BY DEF Persist, Bump
<1>2. Sound(mem') /\ mem'.revision = mem.revision + 1 /\ (Safe(m) => Safe(mem'))
  BY <1>1 DEF Sound, AgentMemoryState, Safe, Fallback
<1>3. Sound(disk)
  BY DEF Sound, PendingOnlyInRun
<1>4. mem.revision \in Nat /\ disk.revision \in Nat
  BY DEF AgentMemoryState
<1>5. TypeOK' /\ PendingOnlyInRun'
  BY <1>1, <1>2, <1>3 DEF Sound, PendingOnlyInRun
<1>6. InterruptedIsContinuable'
  BY <1>1, <1>2 DEF InterruptedIsContinuable, Safe
<1>7. StoreFollowsMemory'
  <2>1. CASE disk' = mem'
    BY <1>2, <1>4, <2>1 DEF StoreFollowsMemory
  <2>2. CASE disk' = disk
    <3>1. disk.revision <= mem.revision
      BY DEF StoreFollowsMemory
    <3>2. disk'.revision <= mem'.revision /\ disk'.revision # mem'.revision
      BY <1>2, <1>4, <2>2, <3>1
    <3> QED
      BY <3>2 DEF StoreFollowsMemory
  <2> QED
    BY <1>1, <2>1, <2>2
<1>8. CompactionIsFresh' /\ DraftIsOutcome'
  <2>1. draft # None => draft.revision \in Nat /\ draft.revision < mem'.revision
    BY <1>2, <1>4 DEF DraftIsOutcome, Draft
  <2> QED
    BY <1>1, <2>1, <1>2, <1>4 DEF DraftIsOutcome, CompactionIsFresh
<1> QED
  BY <1>5, <1>6, <1>7, <1>8

\* The same for an operation a caller applies to the live memory.
LEMMA ApplyPreserves ==
    ASSUME IInv, NEW m, Apply(m), Sound(m), m.revision = mem.revision,
           overlapped' \in BOOLEAN, overlapped => overlapped',
           ~overlapped' => Safe(m)
    PROVE  IInv'
<1>1. PICK saved \in BOOLEAN : Persist(m, saved)
  BY DEF Apply
<1>2. up' = TRUE /\ draft' \in {draft, None}
  BY DEF Apply, CanStep, IInv, TypeOK
<1> QED
  BY <1>1, <1>2, PersistPreserves

\* The journal starts in the invariant: empty, or as an older version left it.
LEMMA InitInvariant == Init => IInv
<1> SUFFICES ASSUME Init PROVE IInv
  OBVIOUS
<1>1. ASSUME NEW uses \in SUBSET Calls
      PROVE  Sound(LegacyMemory(uses)) /\ ~LegacyMemory(uses).interrupted
  <2>1. UserTurn({}) \in Message /\ AssistantTurn({}, uses) \in Message
    BY MessageTypes
  <2>2. Push(Push(EmptyTranscript, UserTurn({})), AssistantTurn({}, uses)) \in AgentTranscript
    BY <2>1, PushType, EmptyType
  <2> QED
    BY <2>2, EmptyType DEF LegacyMemory, Sound, AgentMemoryState, NewMemory
<1>2. Sound(NewMemory) /\ ~NewMemory.interrupted
  BY EmptyType DEF Sound, NewMemory
<1>3. Sound(disk) /\ ~disk.interrupted /\ mem = disk
  BY <1>1, <1>2 DEF Init
<1>4. draft = None /\ up \in BOOLEAN /\ overlapped \in BOOLEAN
  BY DEF Init
<1>5. disk.revision \in Nat
  BY <1>3 DEF Sound, AgentMemoryState
<1> QED
  BY <1>3, <1>4, <1>5 DEF IInv, TypeOK, Sound, InterruptedIsContinuable, PendingOnlyInRun,
       StoreFollowsMemory, CompactionIsFresh, DraftIsOutcome

\* Every step of the journal keeps the invariant.
LEMMA NextInvariant == IInv /\ [Next]_journal => IInv'
<1> SUFFICES ASSUME IInv, [Next]_journal PROVE IInv'
  OBVIOUS
<1>0. /\ Sound(mem) /\ Sound(disk) /\ overlapped \in BOOLEAN /\ up \in BOOLEAN
      /\ ~overlapped => Safe(mem) /\ Safe(disk)
      /\ mem.revision \in Nat /\ disk.revision \in Nat
  BY DEF IInv, TypeOK, PendingOnlyInRun, InterruptedIsContinuable, Sound, Safe, AgentMemoryState
<1>1. CASE StartRun
  <2>1. PICK msg \in UserMessages : Open(BeginRun(mem, msg))
    BY <1>1 DEF StartRun
  <2>2. msg \in Message
    BY InputTypes
  <2>3. Apply(BeginRun(mem, msg)) /\ overlapped' = (overlapped \/ mem.run # None)
    BY <2>1 DEF Open
  <2>4. Sound(BeginRun(mem, msg)) /\ BeginRun(mem, msg).revision = mem.revision
    BY <1>0, <2>2, OperationsSound
  <2>5. ~overlapped' => Safe(BeginRun(mem, msg))
    BY <1>0, <2>2, <2>3, OperationsSafe
  <2> QED
    BY <1>0, <2>3, <2>4, <2>5, ApplyPreserves
<1>2. CASE ContinueRun
  <2>1. /\ Apply(BeginContinuation(mem)) /\ overlapped' = (overlapped \/ mem.run # None)
    BY <1>2 DEF ContinueRun, Open
  <2>2. Sound(BeginContinuation(mem)) /\ BeginContinuation(mem).revision = mem.revision
    BY <1>0, OperationsSound
  <2>3. ~overlapped' => Safe(BeginContinuation(mem))
    BY <1>0, <2>1, OperationsSafe
  <2> QED
    BY <1>0, <2>1, <2>2, <2>3, ApplyPreserves
<1>3. CASE AppendStep
  <2>1. PICK msg \in UserMessages \union ToolMessages : Step(AppendItem(mem, msg))
    BY <1>3 DEF AppendStep
  <2>2. msg \in Message /\ msg.kind # "assistant"
    BY InputTypes
  <2>3. Apply(AppendItem(mem, msg)) /\ overlapped' = overlapped
    BY <2>1 DEF Step
  <2>4. Sound(AppendItem(mem, msg)) /\ AppendItem(mem, msg).revision = mem.revision
    BY <1>0, <2>2, OperationsSound
  <2>5. ~overlapped' => Safe(AppendItem(mem, msg))
    BY <1>0, <2>2, <2>3, OperationsSafe
  <2> QED
    BY <1>0, <2>3, <2>4, <2>5, ApplyPreserves
<1>4. CASE StreamStep
  <2>1. PICK m \in {UpdatePendingTurn(mem), ClearPendingTurn(mem)} : Step(m)
    BY <1>4 DEF StreamStep
  <2>2. Apply(m) /\ overlapped' = overlapped
    BY <2>1 DEF Step
  <2>3. Sound(m) /\ m.revision = mem.revision
    BY <1>0, <1>4, OperationsSound DEF StreamStep
  <2>4. ~overlapped' => Safe(m)
    BY <1>0, <2>2, OperationsSafe
  <2> QED
    BY <1>0, <2>2, <2>3, <2>4, ApplyPreserves
<1>5. CASE CommitStep
  <2>1. mem.run # None /\ \E msg \in AssistantMessages : Step(CommitAssistantMessage(mem, msg))
    BY <1>5 DEF CommitStep
  <2>2. PICK msg \in AssistantMessages : Step(CommitAssistantMessage(mem, msg))
    BY <2>1
  <2>3. msg \in Message
    BY InputTypes
  <2>4. Apply(CommitAssistantMessage(mem, msg)) /\ overlapped' = overlapped
    BY <2>2 DEF Step
  <2>5. /\ Sound(CommitAssistantMessage(mem, msg))
        /\ CommitAssistantMessage(mem, msg).revision = mem.revision
    BY <1>0, <2>3, OperationsSound
  <2>6. ~overlapped' => Safe(CommitAssistantMessage(mem, msg))
    BY <1>0, <2>1, <2>3, <2>4, OperationsSafe
  <2> QED
    BY <1>0, <2>4, <2>5, <2>6, ApplyPreserves
<1>6. CASE RollbackStep
  <2>1. Apply(RollbackFailedRun(mem)) /\ overlapped' = overlapped
    BY <1>6 DEF RollbackStep, Step
  <2>2. Sound(RollbackFailedRun(mem)) /\ RollbackFailedRun(mem).revision = mem.revision
    BY <1>0, OperationsSound
  <2>3. ~overlapped' => Safe(RollbackFailedRun(mem))
    BY <1>0, <2>1, OperationsSafe
  <2> QED
    BY <1>0, <2>1, <2>2, <2>3, ApplyPreserves
<1>7. CASE FinishStep
  <2>1. Apply(FinishRun(mem)) /\ overlapped' = overlapped
    BY <1>7 DEF FinishStep, Step
  <2>2. Sound(FinishRun(mem)) /\ FinishRun(mem).revision = mem.revision
    BY <1>0, OperationsSound
  <2>3. ~overlapped' => Safe(FinishRun(mem))
    BY <1>0, <2>1, OperationsSafe
  <2> QED
    BY <1>0, <2>1, <2>2, <2>3, ApplyPreserves
<1>8. CASE BranchStep
  <2>1. PICK id \in Ids(mem.transcript) :
           CanBranch(mem.transcript, id) /\ Step(BranchJournal(mem, id))
    BY <1>8 DEF BranchStep
  <2>2. Apply(BranchJournal(mem, id)) /\ overlapped' = overlapped
    BY <2>1 DEF Step
  <2>3. BranchFrom(mem.transcript, id) \in AgentTranscript
    BY <1>0, <2>1, BranchType DEF Sound, AgentMemoryState
  <2>4. /\ Sound(BranchJournal(mem, id)) /\ BranchJournal(mem, id).revision = mem.revision
        /\ ~BranchJournal(mem, id).interrupted
    BY <1>0, <2>3 DEF BranchJournal, Sound, AgentMemoryState
  <2>5. Safe(BranchJournal(mem, id))
    BY <2>4 DEF Safe
  <2> QED
    BY <1>0, <2>2, <2>4, <2>5, ApplyPreserves
<1>9. CASE StartCompaction
  <2>1. PICK out \in CompactionOutcomes(mem.transcript) :
           draft' = [revision |-> mem.revision, base |-> mem.transcript, outcome |-> out]
    BY <1>9 DEF StartCompaction
  <2>2. /\ CanCompact(mem.transcript.items) /\ mem.transcript \in AgentTranscript
        /\ mem' = mem /\ disk' = disk /\ up' = up /\ up /\ overlapped' = overlapped
    BY <1>0, <1>9 DEF StartCompaction, CanStep, Sound, AgentMemoryState
  <2>3. out \in AgentTranscript
    BY <2>2, CompactionShape
  <2>4. draft' \in Draft
    BY <1>0, <2>1, <2>2, <2>3 DEF Draft
  <2>5. TypeOK'
    BY <2>2, <2>4 DEF IInv, TypeOK
  <2>6. InterruptedIsContinuable' /\ PendingOnlyInRun' /\ StoreFollowsMemory'
    BY <2>2 DEF IInv, InterruptedIsContinuable, PendingOnlyInRun, StoreFollowsMemory
  <2>7. CompactionIsFresh'
    BY <2>1, <2>2 DEF CompactionIsFresh
  <2>8. DraftIsOutcome'
    <3>1. mem.revision \in Nat
      BY <1>0 DEF Sound, AgentMemoryState
    <3> QED
      BY <2>1, <2>2, <3>1 DEF DraftIsOutcome
  <2> QED
    BY <2>5, <2>6, <2>7, <2>8 DEF IInv
<1>10. CASE FinishCompaction
  <2>1. /\ up /\ up' = up /\ overlapped' = overlapped /\ draft' = None /\ draft # None
        /\ up' = TRUE
    BY <1>0, <1>10 DEF FinishCompaction, CanStep
  <2>2. CASE mem.revision = draft.revision
    <3> DEFINE m == ApplyCompaction(mem, draft.outcome)
    <3>1. PICK saved \in BOOLEAN : Persist(m, saved)
      BY <1>10, <2>2 DEF FinishCompaction
    <3>2. /\ draft.base = mem.transcript /\ CanCompact(mem.transcript.items)
          /\ draft.outcome \in CompactionOutcomes(mem.transcript)
      BY <2>1, <2>2 DEF IInv, CompactionIsFresh, DraftIsOutcome
    <3>3. mem.transcript \in AgentTranscript
      BY <1>0 DEF Sound, AgentMemoryState
    <3>4. draft.outcome \in AgentTranscript
      BY <3>2, <3>3, CompactionShape
    <3>5. Sound(m) /\ m.revision = mem.revision
      BY <1>0, <3>4, OperationsSound
    <3>6. Continuable(mem.transcript.items) => Continuable(draft.outcome.items)
      BY <3>2, <3>3, CompactionContinuable
    <3>7. Safe(mem) => Safe(m)
      BY <1>0, <3>6 DEF ApplyCompaction, Safe, Fallback, Sound, AgentMemoryState
    <3> HIDE DEF m
    <3> QED
      BY <1>0, <2>1, <3>1, <3>5, <3>7, PersistPreserves
  <2>3. CASE mem.revision # draft.revision
    <3>1. mem' = mem /\ disk' = disk
      BY <1>10, <2>3 DEF FinishCompaction
    <3> QED
      BY <2>1, <3>1 DEF IInv, TypeOK, InterruptedIsContinuable, PendingOnlyInRun,
           StoreFollowsMemory, CompactionIsFresh, DraftIsOutcome
  <2> QED
    BY <2>2, <2>3
<1>11. CASE Crash
  <2>1. up' = FALSE /\ draft' = None /\ mem' = disk /\ disk' = disk /\ overlapped' = overlapped
    BY <1>11 DEF Crash
  <2>2. TypeOK' /\ PendingOnlyInRun'
    BY <2>1 DEF IInv, TypeOK, PendingOnlyInRun
  <2>3. InterruptedIsContinuable'
    BY <2>1 DEF IInv, InterruptedIsContinuable
  <2>4. StoreFollowsMemory' /\ CompactionIsFresh' /\ DraftIsOutcome'
    BY <1>0, <2>1 DEF StoreFollowsMemory, CompactionIsFresh, DraftIsOutcome
  <2> QED
    BY <2>2, <2>3, <2>4 DEF IInv
<1>12. CASE Load
  <2>1. /\ ~up /\ up' = TRUE /\ draft' = draft /\ overlapped' = overlapped
        /\ mem = disk /\ draft = None
    BY <1>12 DEF Load, IInv, DraftIsOutcome
  <2>2. CASE NeedsRecovery(disk)
    <3> DEFINE m == Recover(disk)
    <3>1. PICK saved \in BOOLEAN : Persist(m, saved)
      BY <1>12, <2>2 DEF Load
    <3>2. /\ Sound(Recover(disk)) /\ Recover(disk).revision = mem.revision
          /\ Safe(disk) => Safe(Recover(disk))
      BY <1>0, <2>1, <2>2, RecoverSafe
    <3>3. draft' \in {draft, None} /\ overlapped' \in BOOLEAN /\ (overlapped => overlapped')
          /\ (~overlapped' => Safe(m))
      BY <1>0, <2>1, <3>2
    <3> HIDE DEF m
    <3>4. Sound(m) /\ m.revision = mem.revision
      BY <3>2 DEF m
    <3> QED
      BY <2>1, <3>1, <3>3, <3>4, PersistPreserves
  <2>3. CASE ~NeedsRecovery(disk)
    <3>1. mem' = mem /\ disk' = disk
      BY <1>12, <2>3 DEF Load
    <3> QED
      BY <2>1, <3>1 DEF IInv, TypeOK, InterruptedIsContinuable, PendingOnlyInRun,
           StoreFollowsMemory, CompactionIsFresh, DraftIsOutcome
  <2> QED
    BY <2>2, <2>3
<1>13. CASE UNCHANGED journal
  BY <1>13 DEF journal, IInv, TypeOK, InterruptedIsContinuable, PendingOnlyInRun,
       StoreFollowsMemory, CompactionIsFresh, DraftIsOutcome
<1> QED
  BY <1>1, <1>2, <1>3, <1>4, <1>5, <1>6, <1>7, <1>8, <1>9, <1>10, <1>11, <1>12, <1>13 DEF Next

-----------------------------------------------------------------------------
(* The theorems.                                                           *)

\* The inductive invariant holds throughout, whatever AgentMemory's callers
\* do and wherever saves fail or the process crashes.
THEOREM JournalInvariant == Spec => []IInv
BY InitInvariant, NextInvariant, PTL DEF Spec

\* The journal is well typed: in memory and in the store.
THEOREM TypeCorrectness == Spec => []TypeOK
<1>1. IInv => TypeOK
  BY DEF IInv
<1> QED
  BY <1>1, JournalInvariant, PTL

\* An agent that reports an interrupted turn can always be continued, as long
\* as no run was opened over another (AgentMemory::recover, begin_continuation).
THEOREM InterruptedTurnTheorem == Spec => []InterruptedIsContinuable
<1>1. IInv => InterruptedIsContinuable
  BY DEF IInv
<1> QED
  BY <1>1, JournalInvariant, PTL

\* try_apply_compaction never drops an entry appended while it summarised.
THEOREM CompactionTheorem == Spec => []CompactionIsFresh
<1>1. IInv => CompactionIsFresh
  BY DEF IInv
<1> QED
  BY <1>1, JournalInvariant, PTL

\* A half-streamed turn never outlives its run, and the stored copy never
\* runs ahead of the memory or differs from it at the same revision.
THEOREM StoreTheorem == Spec => [](PendingOnlyInRun /\ StoreFollowsMemory)
<1>1. IInv => PendingOnlyInRun /\ StoreFollowsMemory
  BY DEF IInv
<1> QED
  BY <1>1, JournalInvariant, PTL
=============================================================================

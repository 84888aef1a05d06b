--------------------------- MODULE SplitReassembly ---------------------------
(***************************************************************************)
(* How a node worker puts together an answer of the game server that came  *)
(* in several datagrams: the part of OnReceiveSourceServerA2SData that is  *)
(* for datagrams starting with -2.  All answers share one array of         *)
(* fragments and one counter.                                              *)
(*                                                                         *)
(* An answer is the sequence of its cells, PieceSize to a fragment; the    *)
(* proxy's header takes HeaderSize cells.  A fragment that was sent may    *)
(* arrive at any later time, several times, or never.                      *)
(***************************************************************************)
EXTENDS Integers, FiniteSets, SequencesExt

CONSTANTS Entries,       \* entries of the array splitpackets: 30
          Totals,        \* how many fragments an answer may have
          PieceSize,     \* cells of a fragment
          HeaderSize,    \* cells of the proxy's header
          MaxAnswers     \* bound: answers sent

\* The game server's answers are shorter than the array.
ASSUME FragmentsAssumption ==
    /\ Entries \in Nat
    /\ Totals \subseteq 2..(Entries - 1)
    /\ PieceSize \in Nat \ {0}
    /\ HeaderSize \in 0..PieceSize
    /\ MaxAnswers \in Nat

VARIABLES
    splitpackets, splitpackets_i,
    answer,          \* what the last datagram completed: cells, or none
    sent,            \* the fragments of each answer so far: its total
    got,             \* history: fragments that have arrived
    repeated,        \* history: answers of which a fragment arrived twice
    undisturbed      \* history: how many fragments of the answer that is
                     \* arriving came first, in order, with nothing between

worker == <<splitpackets, splitpackets_i, answer>>
history == <<got, repeated, undisturbed>>
vars == <<worker, sent, history>>

\* The memory of the array is zeroed: such an entry has packetsize 0.
Empty == [id |-> 0, number |-> 0, total |-> 0]

Fragments == {[id |-> a, number |-> n, total |-> sent[a]] :
                 a \in DOMAIN sent, n \in 0..(Entries - 1)}

SourceSplitPacket == {f \in Fragments : f.number < f.total}

\* A fragment's payload, and a whole answer.
Msg(f) == IF f = Empty THEN <<>>
          ELSE [c \in 1..PieceSize |-> <<f.id, f.number, c>>]

Answer(a) ==
    FlattenSeq([n \in 1..sent[a] |->
                   Msg([id |-> a, number |-> n - 1, total |-> sent[a]])])

-----------------------------------------------------------------------------
\* The counter, when f has arrived: another answer than the one in the first
\* entry starts it anew.
MutantStartsWithFirst(f) ==
    IF \/ splitpackets_i \notin 0..(Entries - 1)
       \/ splitpackets[0] # Empty /\ splitpackets[0].id # f.id /\ f.number = 0
    THEN 0 ELSE splitpackets_i

MutantTestsPastTheEnd(f) ==
    IF \/ splitpackets_i \notin 0..Entries
       \/ splitpackets[0] # Empty /\ splitpackets[0].id # f.id
    THEN 0 ELSE splitpackets_i

Counter(f) ==
    IF \/ splitpackets_i \notin 0..(Entries - 1)
       \/ splitpackets[0] # Empty /\ splitpackets[0].id # f.id
    THEN 0 ELSE splitpackets_i

\* The entries before the i-th, behind the header, cut to the length they have
\* without it.
Assembled(entries, i) ==
    LET payload == FlattenSeq([k \in 1..i |-> Msg(entries[k - 1])])
    IN SubSeq(payload, 1, Len(payload) - HeaderSize)

MutantCountsFromTheEntry(f) ==
    LET i == Counter(f) IN
    /\ splitpackets' = [splitpackets EXCEPT ![f.number] = f]
    /\ IF i + 1 > f.total
       THEN splitpackets_i' = 0 /\ answer' = Assembled(splitpackets', i)
       ELSE splitpackets_i' = i + 1 /\ answer' = <<>>

\* As many fragments as the answer has complete it, whichever they are; the
\* entry of the last one is not used.
OnReceiveSourceServerA2SData(f) ==
    LET i == Counter(f) IN
    /\ splitpackets' = [splitpackets EXCEPT ![f.number] = f]
    /\ IF i + 1 = f.total
       THEN splitpackets_i' = 0 /\ answer' = Assembled(splitpackets', i)
       ELSE splitpackets_i' = i + 1 /\ answer' = <<>>

-----------------------------------------------------------------------------
Init ==
    /\ splitpackets = [n \in 0..(Entries - 1) |-> Empty]
    /\ splitpackets_i = -1
    /\ answer = <<>>
    /\ sent = <<>>
    /\ got = {}
    /\ repeated = {}
    /\ undisturbed = 0

SourceAnswers(total) ==
    /\ Len(sent) < MaxAnswers
    /\ sent' = Append(sent, total)
    /\ UNCHANGED <<worker, history>>

Receive(f) ==
    LET begins == f.number = 0 /\ \A g \in got : g.id # f.id
        follows == [f EXCEPT !.number = undisturbed - 1] = splitpackets[undisturbed - 1]
    IN
    /\ OnReceiveSourceServerA2SData(f)
    /\ got' = got \cup {f}
    /\ repeated' = IF f \in got THEN repeated \cup {f.id} ELSE repeated
    /\ undisturbed' = IF begins THEN 1
                      ELSE IF undisturbed # 0 /\ f.number = undisturbed /\ follows
                      THEN f.number + 1 ELSE 0
    /\ UNCHANGED sent

Next ==
    \/ \E total \in Totals : SourceAnswers(total)
    \/ \E f \in SourceSplitPacket : Receive(f)

Spec == Init /\ [][Next]_vars

-----------------------------------------------------------------------------
\* Every variable keeps its type; the counter stays inside the array and past
\* its end by one at most.
TypeOK ==
    /\ splitpackets \in [0..(Entries - 1) -> SourceSplitPacket \cup {Empty}]
    /\ splitpackets_i \in -1..Entries
    /\ answer \in Seq(UNION {ToSet(Answer(a)) : a \in DOMAIN sent})
    /\ sent \in Seq(Totals)
    /\ got \subseteq SourceSplitPacket
    /\ repeated \subseteq DOMAIN sent
    /\ undisturbed \in 0..Entries

\* What a client can be shown of an answer: everything before its last
\* fragment and the length of a header.
Usable(a) ==
    SubSeq(Answer(a), 1, (sent[a] - 1) * PieceSize - HeaderSize)

\* However fragments of several answers overtake each other or are lost, what
\* is put together belongs to one answer and is in order, unless a fragment of
\* that answer came twice, or the first entry was never filled when counting
\* began.
OneAnswerAtATime ==
    answer # <<>> =>
        LET a == Head(answer)[1] IN
        \/ answer = Usable(a)
        \/ a \in repeated
        \/ \A g \in got : g.number = 0 => g.id = a

\* Fragments of others have arrived, but the only first one is of answer a: the
\* counter was not started anew for it, and those fragments are counted with it.
FirstToFill(a) ==
    /\ \E g \in got : g.id # a
    /\ \A g \in got : g.number = 0 => g.id = a

\* An answer whose fragments come in order and with nothing between them is put
\* together by the last of them, whatever was lost, late or repeated before,
\* unless it is the one that fills the first entry after others have lost their
\* first fragment.
RecoversWithNextAnswer ==
    [][\A f \in SourceSplitPacket :
          undisturbed' = f.total /\ got' = got \cup {f} /\ Receive(f)
              => answer' = Usable(f.id) \/ FirstToFill(f.id)]_vars
=============================================================================

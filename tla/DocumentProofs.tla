--------------------------- MODULE DocumentProofs ---------------------------
(***************************************************************************)
(* Proofs about Render and Summary, the two readers of a document, for     *)
(* documents of any depth and length, with texts of any size.              *)
(*                                                                         *)
(* Their properties fold a page, or a document, into what has been read of *)
(* it so far (Elements, TextOf).  What is known of such a fold is proved   *)
(* by induction on the number of positions it has gone through.            *)
(***************************************************************************)
EXTENDS Render, Summary, Integers, SequenceTheorems, Recursion, TLAPS

-----------------------------------------------------------------------------

AnyToken == [form : {"tag", "end", "text"}, kind : AllKinds, node : Nat]

Names == AllKinds \cup {"broken"}

LEMMA AfterType == ASSUME NEW stack \in Seq(Names), NEW t \in AnyToken
                   PROVE  After(stack, t) \in Seq(Names)
<1>1. t.form \in {"tag", "end", "text"} /\ t.kind \in Names
  BY DEF AnyToken, Names
<1>2. Broken \in Seq(Names)
  BY DEF Broken, Names
<1>3. Append(stack, t.kind) \in Seq(Names)
  BY <1>1
<1>4. stack # <<>> => Front(stack) \in Seq(Names)
  BY DEF Front
<1> QED BY <1>1, <1>2, <1>3, <1>4 DEF After

LEMMA StacksSteps ==
    ASSUME NEW tokens \in Seq(AnyToken)
    PROVE  LET st == Stacks(tokens)
           IN  /\ st[0] = <<>>
               /\ \A i \in 1..Len(tokens) : st[i] = After(st[i - 1], tokens[i])
               /\ \A i \in 0..Len(tokens) : st[i] \in Seq(Names)
<1> DEFINE m == Len(tokens)
           V == Seq(Names)
           step == [p \in V \X (1..m) |-> After(p[1], tokens[p[2]])]
           Solves(f) == f = [i \in 0..m |-> IF i = 0 THEN <<>>
                                           ELSE After(f[i - 1], tokens[i])]
<1>1. m \in Nat /\ \A i \in 1..m : tokens[i] \in AnyToken
  OBVIOUS
<1>2. step \in [V \X (1..m) -> V]
  <2>1. ASSUME NEW p \in V \X (1..m) PROVE After(p[1], tokens[p[2]]) \in V
    <3>1. p[1] \in V /\ p[2] \in 1..m
      OBVIOUS
    <3> QED BY <1>1, <3>1, AfterType
  <2> QED BY <2>1
<1>3. \A s \in V, i \in 1..m : step[<<s, i>>] = After(s, tokens[i])
  OBVIOUS
<1>4. <<>> \in V
  OBVIOUS
<1>5. PICK f \in [0..m -> V] : Follows(f, <<>>, m, step)
  <2>1. m \in Nat
    OBVIOUS
  <2> HIDE DEF step, V, m
  <2> QED BY <1>2, <1>4, <2>1, Recursion
<1>6. Solves(f)
  <2>1. \A i \in 1..m : f[i] = After(f[i - 1], tokens[i])
    <3>1. \A i \in 1..m : i - 1 \in 0..m
      BY <1>1
    <3> HIDE DEF step, V, m
    <3> QED BY <1>3, <1>5, <3>1 DEF Follows
  <2> HIDE DEF step, V, m
  <2> QED BY <1>1, <1>5, <2>1 DEF Follows
<1>7. Stacks(tokens) = CHOOSE g : Solves(g)
  BY DEF Stacks
<1>8. Solves(Stacks(tokens))
  <2> HIDE DEF Solves
  <2> QED BY <1>6, <1>7
<1> DEFINE st == Stacks(tokens)
<1>9. st[0] = <<>> /\ \A i \in 1..m : st[i] = After(st[i - 1], tokens[i])
  <2> HIDE DEF st
  <2>1. st = [i \in 0..m |-> IF i = 0 THEN <<>> ELSE After(st[i - 1], tokens[i])]
    BY <1>8 DEF st
  <2> QED BY <1>1, <2>1
<1>10. \A i \in 0..m : st[i] \in V
  <2>1. st[0] \in V /\ \A i \in 1..m : st[i - 1] \in V => st[i] \in V
    <3> HIDE DEF st
    <3> QED BY <1>1, <1>4, <1>9, AfterType
  <2> HIDE DEF st, V, m
  <2> QED BY <1>1, <2>1, RecursionType
<1> QED BY <1>9, <1>10

LEMMA ElementsOfNone == Elements(<<>>) = <<>>
<1>1. <<>> \in Seq(AnyToken) /\ Len(<<>>) = 0
  OBVIOUS
<1> QED BY <1>1, StacksSteps DEF Elements

LEMMA ElementsAppend ==
    ASSUME NEW tokens \in Seq(AnyToken), NEW t \in AnyToken
    PROVE  /\ Elements(Append(tokens, t)) = After(Elements(tokens), t)
           /\ Elements(tokens) \in Seq(Names)
<1> DEFINE more == Append(tokens, t)
           f == Stacks(tokens)
           g == Stacks(more)
           m == Len(tokens)
<1>1. /\ more \in Seq(AnyToken) /\ m \in Nat /\ Len(more) = m + 1
      /\ more[m + 1] = t /\ \A i \in 1..m : more[i] = tokens[i]
  OBVIOUS
<1>2. /\ f[0] = <<>> /\ \A i \in 1..m : f[i] = After(f[i - 1], tokens[i])
      /\ \A i \in 0..m : f[i] \in Seq(Names)
  <2> HIDE DEF m
  <2> QED BY StacksSteps DEF m
<1>3. g[0] = <<>> /\ \A i \in 1..m + 1 : g[i] = After(g[i - 1], more[i])
  <2> HIDE DEF more, m
  <2> QED BY <1>1, StacksSteps
<1> HIDE DEF f, g, more, m
<1>4. \A i \in 0..m : f[i] = g[i]
  <2>1. \A i \in 1..m : i \in 1..m + 1
    BY <1>1
  <2>2. \A i \in 1..m : f[i - 1] = g[i - 1] => f[i] = g[i]
    BY <1>1, <1>2, <1>3, <2>1
  <2>3. f[0] = g[0] /\ m \in Nat
    BY <1>1, <1>2, <1>3
  <2>4. InStep(f, g, m)
    BY <2>2, <2>3 DEF InStep
  <2> QED BY <2>3, <2>4, RecursionAgrees DEF Agree
<1>5. g[m + 1] = After(f[m], t) /\ f[m] \in Seq(Names)
  <2>1. m + 1 \in 1..m + 1 /\ (m + 1) - 1 = m /\ m \in 0..m
    BY <1>1
  <2>2. g[m + 1] = After(g[(m + 1) - 1], more[m + 1])
    BY <1>3, <2>1
  <2> QED BY <1>1, <1>2, <1>4, <2>1, <2>2
<1>6. Elements(more) = g[m + 1] /\ Elements(tokens) = f[m]
  BY <1>1 DEF Elements, f, g, m
<1> QED BY <1>5, <1>6 DEF more

-----------------------------------------------------------------------------
(* The documents                                                           *)

(* Nodes whose children are inlines.                                       *)
Holders == {"heading", "paragraph", "emph", "strong", "image", "link"}

(* What CommonMark's rules make of the nodes open at a time: the document  *)
(* is the outermost, and blocks are not within inlines.                    *)
Fits ==
    /\ trace = <<>> => open = <<>>
    /\ \A i \in 1..Len(open) :
          open[i] \notin Leaves /\ (open[i] = "document" <=> i = 1)
    /\ \A i, j \in 1..Len(open) :
          i < j /\ open[i] \in Holders => open[j] \in Inlines

DocumentInv == DocumentTypeOK /\ Fits

LEMMA FrontProperties ==
    ASSUME NEW S, NEW s \in Seq(S), s # <<>>
    PROVE  /\ Front(s) \in Seq(S)
           /\ Len(Front(s)) = Len(s) - 1
           /\ \A i \in 1..Len(s) - 1 : Front(s)[i] = s[i]
           /\ Len(s) \in Nat \ {0}
<1>1. Len(s) \in Nat \ {0} /\ \A i \in 1..Len(s) - 1 : s[i] \in S
  BY EmptySeq, ElementOfSeq
<1> DEFINE n == Len(s) - 1
<1>2. n \in Nat /\ n \in Int /\ 1 \in Int /\ \A i \in 1..n : s[i] \in S
  BY <1>1
<1> HIDE DEF n
<1>3. /\ SubSeq(s, 1, n) \in Seq(S)
      /\ Len(SubSeq(s, 1, n)) = IF 1 <= n THEN n - 1 + 1 ELSE 0
      /\ \A i \in 1..n - 1 + 1 : SubSeq(s, 1, n)[i] = s[1 + i - 1]
  BY <1>2, SubSeqProperties
<1>4. Len(SubSeq(s, 1, n)) = n
  <2>1. (IF 1 <= n THEN n - 1 + 1 ELSE 0) = n
    BY <1>2
  <2> QED BY <1>3, <2>1
<1>5. ASSUME NEW i \in 1..n PROVE SubSeq(s, 1, n)[i] = s[i]
  <2>1. i \in 1..n - 1 + 1 /\ 1 + i - 1 = i
    BY <1>2
  <2> QED BY <1>3, <2>1
<1> QED BY <1>1, <1>3, <1>4, <1>5 DEF Front, n

LEMMA Children ==
    ASSUME NEW k, NEW c \in ChildrenOf(k)
    PROVE  /\ c # "document" /\ c \in AllKinds
           /\ k \notin Leaves
           /\ k \in Holders => c \in Inlines
BY DEF ChildrenOf, Inlines, Blocks, Leaves, Holders, AllKinds

LEMMA EventFields ==
    ASSUME NEW e \in Event, e # Done
    PROVE  e.type \in {"ENTER", "EXIT"} /\ e.kind \in AllKinds
           /\ e.size \in 0..MaxText
BY DEF Event

LEMMA DocumentStep ==
    ASSUME DocumentInv, NEW e \in Event, NextEvent(e)
    PROVE  /\ DocumentInv'
           /\ trace' \in Seq(Event) /\ Len(trace') = Len(trace) + 1
           /\ \A i \in 1..Len(trace) : trace'[i] = trace[i]
           /\ trace'[Len(trace) + 1] = e
           /\ Len(trace) \in Nat /\ Len(open) \in Nat
<1>1. /\ open \in Seq(AllKinds) /\ Len(open) \in Nat /\ Len(open) <= MaxDepth
      /\ trace \in Seq(Event) /\ Len(trace) \in Nat
  BY DEF DocumentInv, DocumentTypeOK
<1>2. /\ trace' \in Seq(Event) /\ Len(trace') = Len(trace) + 1
      /\ \A i \in 1..Len(trace) : trace'[i] = trace[i]
      /\ trace'[Len(trace) + 1] = e /\ trace' # <<>>
  <2>1. trace' = Append(trace, e)
    BY DEF NextEvent
  <2> QED BY <1>1, <2>1, AppendProperties
<1>3. DocumentInv'
  <2>1. CASE Enter(e)
    <3>1. CASE e.kind \in Leaves
      <4>1. open' = open
        BY <2>1, <3>1 DEF Enter
      <4> QED BY <1>1, <1>2, <4>1 DEF DocumentInv, DocumentTypeOK, Fits
    <3>2. CASE e.kind \notin Leaves
      <4>1. Len(open) < MaxDepth /\ open' = Append(open, e.kind)
        BY <2>1, <3>2 DEF Enter
      <4>2. e.kind \in AllKinds
        <5>1. e # Done
          BY <2>1 DEF Enter, Done
        <5> QED BY <5>1, EventFields
      <4>3. /\ open' \in Seq(AllKinds) /\ Len(open') = Len(open) + 1
            /\ \A i \in 1..Len(open) : open'[i] = open[i]
            /\ open'[Len(open) + 1] = e.kind
        BY <1>1, <4>1, <4>2
      <4>4. DocumentTypeOK'
        BY <1>1, <1>2, <4>1, <4>3, MarkdownAssumption DEF DocumentTypeOK
      <4>5. (trace = <<>> => open = <<>>)
        BY DEF DocumentInv, Fits
      <4>6. CASE trace = <<>>
        <5>1. e.kind = "document" /\ Len(open) = 0
          BY <2>1, <4>5, <4>6 DEF Enter
        <5> QED BY <1>2, <3>2, <4>3, <4>4, <5>1 DEF DocumentInv, Fits
      <4>7. CASE trace # <<>>
        <5>1. open # <<>> /\ e.kind \in ChildrenOf(open[Len(open)])
          BY <2>1, <4>7 DEF Enter, Last
        <5>2. Len(open) > 0 /\ e.kind # "document"
          BY <1>1, <5>1, Children
        <5>3. ASSUME NEW i \in 1..Len(open), open[i] \in Holders
              PROVE  e.kind \in Inlines
          <6>1. open[Len(open)] \in Holders
            <7>1. CASE i = Len(open)
              BY <5>3, <7>1
            <7>2. CASE i # Len(open)
              <8>1. Len(open) \in 1..Len(open) /\ i < Len(open)
                BY <1>1, <7>2
              <8>2. open[Len(open)] \in Inlines /\ open[Len(open)] \notin Leaves
                BY <5>3, <8>1 DEF DocumentInv, Fits
              <8> QED BY <8>2 DEF Inlines, Leaves, Holders
            <7> QED BY <7>1, <7>2
          <6> QED BY <5>1, <6>1, Children
        <5>4. ASSUME NEW i \in 1..Len(open')
              PROVE  open'[i] \notin Leaves /\ (open'[i] = "document" <=> i = 1)
          BY <1>1, <3>2, <4>3, <5>2 DEF DocumentInv, Fits
        <5>5. ASSUME NEW i \in 1..Len(open'), NEW j \in 1..Len(open'),
                     i < j, open'[i] \in Holders
              PROVE  open'[j] \in Inlines
          <6>1. i \in 1..Len(open) /\ open[i] \in Holders
            BY <1>1, <4>3, <5>5
          <6>2. CASE j = Len(open) + 1
            BY <4>3, <5>3, <6>1, <6>2
          <6>3. CASE j # Len(open) + 1
            <7>1. j \in 1..Len(open) /\ open'[j] = open[j]
              BY <1>1, <4>3, <6>3
            <7> QED BY <5>5, <6>1, <7>1 DEF DocumentInv, Fits
          <6> QED BY <6>2, <6>3
        <5> QED BY <1>2, <4>4, <5>4, <5>5 DEF DocumentInv, Fits
      <4> QED BY <4>6, <4>7
    <3> QED BY <3>1, <3>2
  <2>2. CASE Exit(e)
    <3>1. open # <<>> /\ open' = Front(open)
      BY <2>2 DEF Exit
    <3>2. /\ open' \in Seq(AllKinds) /\ Len(open') = Len(open) - 1
          /\ \A i \in 1..Len(open) - 1 : open'[i] = open[i]
      BY <1>1, <3>1, FrontProperties
    <3>3. \A i \in 1..Len(open') : i \in 1..Len(open) /\ open'[i] = open[i]
      BY <1>1, <3>2
    <3>4. DocumentTypeOK'
      BY <1>1, <1>2, <3>2, MarkdownAssumption DEF DocumentTypeOK
    <3>5. Fits'
      BY <1>2, <3>3 DEF DocumentInv, Fits
    <3> QED BY <3>4, <3>5 DEF DocumentInv
  <2>3. CASE Finish(e)
    <3>1. open' = open
      BY <2>3 DEF Finish
    <3> QED BY <1>1, <1>2, <3>1 DEF DocumentInv, DocumentTypeOK, Fits
  <2> QED BY <2>1, <2>2, <2>3 DEF NextEvent
<1> QED BY <1>1, <1>2, <1>3

LEMMA DocumentStart == DocumentInit => DocumentInv
BY MarkdownAssumption DEF DocumentInit, DocumentInv, DocumentTypeOK, Fits

-----------------------------------------------------------------------------
(* Elements and nodes                                                      *)

LEMMA RemoveAtProperties ==
    ASSUME NEW S, NEW s \in Seq(S), NEW i \in 1..Len(s)
    PROVE  /\ RemoveAt(s, i) \in Seq(S)
           /\ Len(RemoveAt(s, i)) = Len(s) - 1
           /\ \A j \in 1..Len(s) - 1 :
                 RemoveAt(s, i)[j] = IF j < i THEN s[j] ELSE s[j + 1]
<1> DEFINE n == Len(s)
           l == i - 1
           f == i + 1
           before == SubSeq(s, 1, l)
           after == SubSeq(s, f, n)
<1>1. n \in Nat /\ i \in 1..n /\ l \in Nat /\ f \in Int /\ 1 \in Int /\ n \in Int
      /\ l \in Int
  BY EmptySeq
<1>2. /\ \A j \in 1..l : s[j] \in S
      /\ \A j \in f..n : s[j] \in S
  BY <1>1, ElementOfSeq
<1> HIDE DEF n, l, f
<1>3. /\ before \in Seq(S)
      /\ Len(before) = IF 1 <= l THEN l - 1 + 1 ELSE 0
      /\ \A j \in 1..l - 1 + 1 : before[j] = s[1 + j - 1]
  BY <1>1, <1>2, SubSeqProperties
<1>4. /\ after \in Seq(S)
      /\ Len(after) = IF f <= n THEN n - f + 1 ELSE 0
      /\ \A j \in 1..n - f + 1 : after[j] = s[f + j - 1]
  BY <1>1, <1>2, SubSeqProperties
<1>5. RemoveAt(s, i) = before \o after
  BY DEF RemoveAt, n, l, f
<1> HIDE DEF before, after
<1>6. Len(before) = i - 1 /\ \A j \in 1..i - 1 : before[j] = s[j]
  <2>1. (IF 1 <= l THEN l - 1 + 1 ELSE 0) = i - 1
    BY <1>1 DEF l
  <2>2. ASSUME NEW j \in 1..i - 1 PROVE before[j] = s[j]
    <3>1. j \in 1..l - 1 + 1 /\ 1 + j - 1 = j
      BY <1>1 DEF l
    <3> QED BY <1>3, <3>1
  <2> QED BY <1>3, <2>1, <2>2
<1>7. Len(after) = n - i /\ \A j \in 1..n - i : after[j] = s[i + j]
  <2>1. (IF f <= n THEN n - f + 1 ELSE 0) = n - i
    BY <1>1 DEF f
  <2>2. ASSUME NEW j \in 1..n - i PROVE after[j] = s[i + j]
    <3>1. j \in 1..n - f + 1 /\ f + j - 1 = i + j
      BY <1>1 DEF f
    <3> QED BY <1>4, <3>1
  <2> QED BY <1>4, <2>1, <2>2
<1>8. /\ before \o after \in Seq(S)
      /\ Len(before \o after) = Len(before) + Len(after)
      /\ \A j \in 1..Len(before) + Len(after) :
            (before \o after)[j] = IF j <= Len(before) THEN before[j]
                                   ELSE after[j - Len(before)]
  BY <1>3, <1>4, ConcatProperties
<1>9. Len(before) + Len(after) = n - 1
  BY <1>1, <1>6, <1>7
<1>10. ASSUME NEW j \in 1..n - 1
       PROVE  RemoveAt(s, i)[j] = IF j < i THEN s[j] ELSE s[j + 1]
  <2>1. CASE j < i
    <3>1. j \in 1..i - 1 /\ j <= Len(before) /\ j \in 1..Len(before) + Len(after)
      BY <1>1, <1>6, <1>9, <2>1
    <3> QED BY <1>5, <1>6, <1>8, <2>1, <3>1
  <2>2. CASE ~(j < i)
    <3>1. /\ j - (i - 1) \in 1..n - i /\ ~(j <= i - 1)
          /\ j \in 1..Len(before) + Len(after)
          /\ i + (j - (i - 1)) = j + 1
      BY <1>1, <1>9, <2>2
    <3>2. (before \o after)[j] = after[j - (i - 1)]
      BY <1>6, <1>8, <3>1
    <3> QED BY <1>5, <1>7, <2>2, <3>1, <3>2
  <2> QED BY <2>1, <2>2
<1> QED BY <1>5, <1>8, <1>9, <1>10 DEF n

(* What can be seen of nodes when those in items, hidden, are without tags *)
(* for their paragraphs.                                                   *)
Shows(nodes, hidden, stack) ==
    IF hidden /\ \E i \in 1..Len(nodes) : nodes[i] = "paragraph"
    THEN \E i \in 1..Len(nodes) : /\ nodes[i] = "paragraph"
                                  /\ stack = RemoveAt(nodes, i)
    ELSE stack = nodes

LEMMA ShowsMore ==
    ASSUME NEW nodes \in Seq(AllKinds), NEW hidden \in BOOLEAN,
           NEW stack, Shows(nodes, hidden, stack), NEW k \in AllKinds,
           (\E i \in 1..Len(nodes) : nodes[i] = "paragraph") => k # "paragraph"
    PROVE  Shows(Append(nodes, k), hidden,
                 IF k = "paragraph" /\ hidden THEN stack ELSE Append(stack, k))
<1> DEFINE more == Append(nodes, k)
           n == Len(nodes)
<1>1. /\ more \in Seq(AllKinds) /\ Len(more) = n + 1 /\ n \in Nat
      /\ \A i \in 1..n : more[i] = nodes[i]
      /\ more[n + 1] = k
  BY AppendProperties, EmptySeq
<1> HIDE DEF more
<1>2. CASE ~hidden
  BY <1>2 DEF Shows, more
<1>3. CASE hidden /\ k = "paragraph"
  <2>1. stack = nodes
    BY <1>3 DEF Shows
  <2>2. RemoveAt(more, n + 1) = nodes
    <3>1. n + 1 \in 1..Len(more) /\ Len(more) - 1 = n
      BY <1>1
    <3>2. /\ RemoveAt(more, n + 1) \in Seq(AllKinds)
          /\ Len(RemoveAt(more, n + 1)) = n
          /\ \A j \in 1..n : RemoveAt(more, n + 1)[j] =
                IF j < n + 1 THEN more[j] ELSE more[j + 1]
      BY <1>1, <3>1, RemoveAtProperties
    <3>3. \A j \in 1..n : RemoveAt(more, n + 1)[j] = nodes[j]
      BY <1>1, <3>2
    <3> HIDE DEF n
    <3> QED BY <3>2, <3>3, SeqEqual DEF n
  <2>3. n + 1 \in 1..Len(more)
    BY <1>1
  <2> QED BY <1>1, <1>3, <2>1, <2>2, <2>3 DEF Shows, more
<1>4. CASE hidden /\ k # "paragraph" /\ \E i \in 1..n : nodes[i] = "paragraph"
  <2>1. PICK i \in 1..n : nodes[i] = "paragraph" /\ stack = RemoveAt(nodes, i)
    BY <1>4 DEF Shows
  <2>2. /\ stack \in Seq(AllKinds) /\ Len(stack) = n - 1
        /\ \A j \in 1..n - 1 : stack[j] = IF j < i THEN nodes[j] ELSE nodes[j + 1]
    BY <2>1, RemoveAtProperties
  <2>3. /\ Append(stack, k) \in Seq(AllKinds) /\ Len(Append(stack, k)) = n
        /\ \A j \in 1..n - 1 : Append(stack, k)[j] = stack[j]
        /\ Append(stack, k)[n] = k
    <3>1. (n - 1) + 1 = n
      BY <1>1
    <3> QED BY <2>2, <3>1, AppendProperties
  <2>4. i \in 1..Len(more) /\ Len(more) - 1 = n
    BY <1>1
  <2>5. /\ RemoveAt(more, i) \in Seq(AllKinds) /\ Len(RemoveAt(more, i)) = n
        /\ \A j \in 1..n : RemoveAt(more, i)[j] =
              IF j < i THEN more[j] ELSE more[j + 1]
    BY <1>1, <2>4, RemoveAtProperties
  <2>6. ASSUME NEW j \in 1..n PROVE RemoveAt(more, i)[j] = Append(stack, k)[j]
    <3>1. CASE j = n
      <4>1. ~(j < i) /\ j + 1 = n + 1
        BY <1>1, <3>1
      <4> QED BY <1>1, <2>3, <2>5, <3>1, <4>1
    <3>2. CASE j # n
      <4>1. j \in 1..n - 1 /\ j + 1 \in 1..n
        BY <1>1, <3>2
      <4> QED BY <1>1, <2>2, <2>3, <2>5, <4>1
    <3> QED BY <3>1, <3>2
  <2>7. RemoveAt(more, i) = Append(stack, k)
    <3> HIDE DEF n
    <3> QED BY <2>3, <2>5, <2>6, SeqEqual
  <2>8. more[i] = "paragraph"
    BY <1>1, <2>1
  <2> QED BY <1>4, <2>4, <2>7, <2>8 DEF Shows, more
<1>5. CASE hidden /\ k # "paragraph" /\ ~\E i \in 1..n : nodes[i] = "paragraph"
  <2>1. stack = nodes
    BY <1>5 DEF Shows
  <2>2. ~\E i \in 1..Len(more) : more[i] = "paragraph"
    BY <1>1, <1>5
  <2> QED BY <1>5, <2>1, <2>2 DEF Shows, more
<1> QED BY <1>2, <1>3, <1>4, <1>5

LEMMA ShowsLess ==
    ASSUME NEW nodes \in Seq(AllKinds), nodes # <<>>, NEW hidden \in BOOLEAN,
           NEW stack, Shows(nodes, hidden, stack),
           \A i, j \in 1..Len(nodes) :
              nodes[i] = "paragraph" /\ nodes[j] = "paragraph" => i = j
    PROVE  IF Last(nodes) = "paragraph" /\ hidden
           THEN Shows(Front(nodes), hidden, stack)
           ELSE /\ stack # <<>> /\ Last(stack) = Last(nodes)
                /\ Shows(Front(nodes), hidden, Front(stack))
<1> DEFINE less == Front(nodes)
           n == Len(nodes)
<1>1. /\ less \in Seq(AllKinds) /\ Len(less) = n - 1 /\ n \in Nat \ {0}
      /\ \A i \in 1..n - 1 : less[i] = nodes[i]
  BY FrontProperties
<1> HIDE DEF less
<1>2. CASE ~\E i \in 1..n : nodes[i] = "paragraph"
  <2>1. stack = nodes /\ Last(nodes) # "paragraph"
    BY <1>1, <1>2 DEF Shows, Last
  <2>2. ~\E i \in 1..Len(less) : less[i] = "paragraph"
    BY <1>1, <1>2
  <2> QED BY <2>1, <2>2 DEF Shows, less
<1>3. CASE ~hidden
  BY <1>3 DEF Shows, less
<1>4. CASE hidden /\ \E i \in 1..n : nodes[i] = "paragraph"
  <2>1. PICK i \in 1..n : nodes[i] = "paragraph" /\ stack = RemoveAt(nodes, i)
    BY <1>4 DEF Shows
  <2>2. /\ stack \in Seq(AllKinds) /\ Len(stack) = n - 1
        /\ \A j \in 1..n - 1 : stack[j] = IF j < i THEN nodes[j] ELSE nodes[j + 1]
    BY <2>1, RemoveAtProperties
  <2>3. CASE i = n
    <3>1. ~\E j \in 1..Len(less) : less[j] = "paragraph"
      BY <1>1, <2>1, <2>3
    <3>2. stack = less
      <4>1. ASSUME NEW j \in 1..n - 1 PROVE stack[j] = less[j]
        BY <1>1, <2>2, <2>3
      <4> HIDE DEF n
      <4> QED BY <1>1, <2>2, <4>1, SeqEqual
    <3>3. Last(nodes) = "paragraph"
      BY <2>1, <2>3 DEF Last
    <3> QED BY <1>4, <3>1, <3>2, <3>3 DEF Shows, less
  <2>4. CASE i # n
    <3>1. i \in 1..n - 1 /\ n - 1 \in 1..n - 1 /\ (n - 1) + 1 = n /\ ~(n - 1 < i)
      BY <1>1, <2>4
    <3>2. n \in 1..n /\ Last(nodes) # "paragraph"
      BY <1>1, <2>1, <2>4 DEF Last
    <3>3. stack # <<>> /\ Last(stack) = Last(nodes)
      BY <1>1, <2>2, <3>1 DEF Last
    <3>4. /\ Front(stack) \in Seq(AllKinds) /\ Len(Front(stack)) = n - 2
          /\ \A j \in 1..n - 2 : Front(stack)[j] = stack[j]
      <4>1. (n - 1) - 1 = n - 2
        BY <1>1
      <4> QED BY <2>2, <3>3, <4>1, FrontProperties
    <3>5. i \in 1..Len(less) /\ Len(less) - 1 = n - 2
      BY <1>1, <3>1
    <3>6. /\ RemoveAt(less, i) \in Seq(AllKinds) /\ Len(RemoveAt(less, i)) = n - 2
          /\ \A j \in 1..n - 2 : RemoveAt(less, i)[j] =
                IF j < i THEN less[j] ELSE less[j + 1]
      BY <1>1, <3>5, RemoveAtProperties
    <3>7. ASSUME NEW j \in 1..n - 2 PROVE RemoveAt(less, i)[j] = Front(stack)[j]
      <4>1. j \in 1..n - 1 /\ j + 1 \in 1..n - 1
        BY <1>1
      <4> QED BY <1>1, <2>2, <3>4, <3>6, <4>1
    <3>8. RemoveAt(less, i) = Front(stack)
      <4> DEFINE l == n - 2
      <4> HIDE DEF l
      <4>1. /\ Len(RemoveAt(less, i)) = l /\ Len(Front(stack)) = l
            /\ \A j \in 1..l : RemoveAt(less, i)[j] = Front(stack)[j]
        BY <3>4, <3>6, <3>7 DEF l
      <4> QED BY <3>4, <3>6, <4>1, SeqEqual
    <3>9. less[i] = "paragraph"
      BY <1>1, <2>1, <3>1
    <3> QED BY <1>4, <3>2, <3>3, <3>5, <3>8, <3>9 DEF Shows, less
  <2> QED BY <2>3, <2>4
<1> QED BY <1>2, <1>3, <1>4

-----------------------------------------------------------------------------
(* Render                                                                  *)

(* The nodes below the document, of those open.                            *)
Below(nodes) == IF nodes = <<>> THEN <<>> ELSE Tail(nodes)

RenderInv == /\ RenderTypeOK /\ DocumentInv
             /\ TextsInOrder
             /\ Shows(Below(open), inItem, Elements(page))

(* What renderArticle makes of an event: a token, or nothing.              *)
IsWritten(e) == e.kind \notin Silent /\ ~(e.kind = "paragraph" /\ inItem)

TokenOf(e) == [form |-> IF e.type = "EXIT" THEN "end"
                        ELSE IF e.kind \in Leaves THEN "text" ELSE "tag",
               kind |-> e.kind, node |-> Len(trace) + 1]

LEMMA ChunkIs ==
    ASSUME NEW e \in Event, e # Done
    PROVE  Chunk(e) = IF IsWritten(e) THEN <<TokenOf(e)>> ELSE <<>>
<1>1. e.type \in {"ENTER", "EXIT"}
  BY EventFields
<1>2. CASE e.type = "ENTER"
  BY <1>2 DEF Chunk, OpenTag, Written, IsWritten, TokenOf, Silent
<1>3. CASE e.type = "EXIT"
  BY <1>3 DEF Chunk, CloseTag, Written, IsWritten, TokenOf, Silent
<1> QED BY <1>1, <1>2, <1>3

LEMMA TokensRemain ==
    ASSUME Len(trace) \in Nat, Len(trace') = Len(trace) + 1
    PROVE  /\ Token \subseteq Token'
           /\ \A s \in Seq(Token) : s \in Seq(Token')
<1>1. Token \subseteq Token'
  BY DEF Token
<1>2. \A s \in Seq(Token) : s \in Seq(Token')
  BY <1>1, SeqMonotonic
<1> QED BY <1>1, <1>2

LEMMA PageType ==
    ASSUME RenderTypeOK
    PROVE  /\ page \in Seq(Token) /\ page \in Seq(AnyToken)
           /\ Len(page) \in Nat /\ DOMAIN page = 1..Len(page)
           /\ DOMAIN trace = 1..Len(trace)
           /\ Len(trace) \in Nat
           /\ \A i \in 1..Len(page) : page[i].node \in 1..Len(trace)
<1>1. /\ body \in Seq(Token) /\ response \in Seq(Token)
      /\ trace \in Seq(Event) /\ Len(trace) \in Nat
  BY DEF RenderTypeOK, DocumentTypeOK
<1>2. page \in Seq(Token)
  BY <1>1, ConcatProperties DEF page
<1>3. Token \subseteq AnyToken
  BY <1>1 DEF Token, AnyToken
<1>4. page \in Seq(AnyToken)
  BY <1>2, <1>3, SeqMonotonic
<1>5. \A i \in 1..Len(page) : page[i] \in Token
  BY <1>2, ElementOfSeq
<1>6. Len(page) \in Nat /\ DOMAIN page = 1..Len(page)
  BY <1>2, LenProperties
<1>7. DOMAIN trace = 1..Len(trace)
  BY <1>1, LenProperties
<1> QED BY <1>1, <1>2, <1>4, <1>5, <1>6, <1>7 DEF Token

LEMMA PageGrows ==
    ASSUME RenderTypeOK, DocumentInv, NEW e \in Event, RenderEvent(e)
    PROVE  /\ page' = IF IsWritten(e) THEN Append(page, TokenOf(e)) ELSE page
           /\ RenderTypeOK'
<1>1. e # Done /\ NextEvent(e)
  BY DEF RenderEvent
<1>2. /\ DocumentInv'
      /\ Len(trace) \in Nat /\ Len(trace') = Len(trace) + 1
  BY <1>1, DocumentStep
<1>3. /\ body \in Seq(Token') /\ response \in Seq(Token')
      /\ page \in Seq(Token')
  BY <1>2, TokensRemain, PageType DEF RenderTypeOK
<1>4. TokenOf(e) \in Token'
  <2>1. Len(trace) + 1 \in 1..Len(trace')
    BY <1>2
  <2>2. e.kind \in AllKinds
    BY <1>1, EventFields
  <2> QED BY <2>1, <2>2 DEF TokenOf, Token
<1>5. inItem' \in BOOLEAN
  BY DEF RenderEvent, RenderTypeOK
<1> DEFINE c == Chunk(e)
<1>6. c \in Seq(Token') /\ c = IF IsWritten(e) THEN <<TokenOf(e)>> ELSE <<>>
  <2>1. c = IF IsWritten(e) THEN <<TokenOf(e)>> ELSE <<>>
    BY <1>1, ChunkIs
  <2>2. <<TokenOf(e)>> \in Seq(Token') /\ <<>> \in Seq(Token')
    BY <1>4
  <2> HIDE DEF c
  <2> QED BY <2>1, <2>2
<1>7. page' = page \o c /\ body' \in Seq(Token') /\ response' \in Seq(Token')
  <2>1. CASE Flush(c)
    <3>1. response' = response \o body /\ body' = c
      BY <2>1 DEF Flush, Prepended
    <3>2. page' = (response \o body) \o c
      BY <3>1 DEF page
    <3> QED BY <1>3, <1>6, <3>1, <3>2, ConcatProperties DEF page
  <2>2. CASE Gather(c)
    <3>1. response' = response /\ body' = body \o c
      BY <2>2 DEF Gather
    <3>2. page' = response \o (body \o c)
      BY <3>1 DEF page
    <3> HIDE DEF c
    <3>3. page' = (response \o body) \o c
      BY <1>3, <1>6, <3>2, ConcatAssociative
    <3> QED BY <1>3, <1>6, <3>1, <3>3, ConcatProperties DEF page
  <2> QED BY <2>1, <2>2 DEF RenderEvent
<1>8. page' = IF IsWritten(e) THEN Append(page, TokenOf(e)) ELSE page
  <2>1. page \o <<>> = page
    BY <1>3, ConcatEmptySeq
  <2>2. page \o <<TokenOf(e)>> = Append(page, TokenOf(e))
    BY <1>3, <1>4, AppendIsConcat
  <2> QED BY <1>6, <1>7, <2>1, <2>2
<1> QED BY <1>2, <1>5, <1>7, <1>8 DEF RenderTypeOK, DocumentInv

LEMMA TextsStep ==
    ASSUME RenderInv, NEW e \in Event, RenderEvent(e)
    PROVE  TextsInOrder'
<1> DEFINE n == Len(trace)
           l == Len(page)
           t == TokenOf(e)
<1>1. e # Done /\ NextEvent(e) /\ RenderTypeOK /\ DocumentInv /\ TextsInOrder
  BY DEF RenderEvent, RenderInv
<1>2. /\ n \in Nat /\ Len(trace') = n + 1
      /\ \A i \in 1..n : trace'[i] = trace[i]
      /\ trace'[n + 1] = e
  BY <1>1, DocumentStep
<1>3. /\ page' = IF IsWritten(e) THEN Append(page, t) ELSE page
      /\ RenderTypeOK'
  BY <1>1, PageGrows
<1>4. /\ page \in Seq(Token) /\ l \in Nat /\ DOMAIN page = 1..l
      /\ DOMAIN trace = 1..n
      /\ \A i \in 1..l : page[i].node \in 1..n
  BY <1>1, PageType
<1>5. DOMAIN trace' = 1..n + 1
  <2>1. trace' \in Seq(Event)
    BY <1>1, DocumentStep
  <2> QED BY <1>2, <2>1, LenProperties
<1>6. t.node = n + 1 /\ (t.form = "text" <=> e.type # "EXIT" /\ e.kind \in Leaves)
  BY DEF TokenOf
<1>7. e.type \in {"ENTER", "EXIT"}
  BY <1>1, EventFields
<1> DEFINE Is(i) == trace[i].type = "ENTER" /\ trace[i].kind \in Leaves \ Silent
           New == e.type = "ENTER" /\ e.kind \in Leaves \ Silent
<1>8. {i \in DOMAIN trace' : Is(i)'} =
          {i \in DOMAIN trace : Is(i)} \cup (IF New THEN {n + 1} ELSE {})
  BY <1>2, <1>4, <1>5
<1>9. CASE ~IsWritten(e)
  <2>1. page' = page
    BY <1>3, <1>9
  <2>2. ~New
    BY <1>9 DEF IsWritten, Leaves
  <2> QED BY <1>1, <1>8, <2>1, <2>2 DEF TextsInOrder
<1>10. CASE IsWritten(e)
  <2>1. page' = Append(page, t)
    BY <1>3, <1>10
  <2>2. /\ Len(page') = l + 1 /\ DOMAIN page' = 1..l + 1
        /\ \A i \in 1..l : page'[i] = page[i]
        /\ page'[l + 1] = t
    BY <1>4, <2>1
  <2> HIDE DEF l, n, t
  <2>3. New <=> t.form = "text"
    BY <1>6, <1>7, <1>10 DEF IsWritten
  <2>4. {page'[i].node : i \in {u \in DOMAIN page' : page'[u].form = "text"}} =
            {page[i].node : i \in {u \in DOMAIN page : page[u].form = "text"}}
            \cup (IF New THEN {n + 1} ELSE {})
    BY <1>4, <1>6, <2>2, <2>3
  <2>5. ASSUME NEW i \in DOMAIN page', NEW j \in DOMAIN page', i < j
        PROVE  page'[i].node < page'[j].node
    <3>1. CASE j = l + 1
      <4>1. i \in 1..l
        BY <1>4, <2>2, <2>5, <3>1
      <4> QED BY <1>2, <1>4, <1>6, <2>2, <3>1, <4>1
    <3>2. CASE j # l + 1
      <4>1. i \in 1..l /\ j \in 1..l
        BY <1>4, <2>2, <2>5, <3>2
      <4> QED BY <1>1, <1>4, <2>2, <2>5, <4>1 DEF TextsInOrder
    <3> QED BY <3>1, <3>2
  <2> QED BY <1>1, <1>8, <2>4, <2>5 DEF TextsInOrder
<1> QED BY <1>9, <1>10

LEMMA BelowIs ==
    ASSUME NEW nodes \in Seq(AllKinds)
    PROVE  /\ Below(nodes) \in Seq(AllKinds)
           /\ Len(Below(nodes)) = IF nodes = <<>> THEN 0 ELSE Len(nodes) - 1
           /\ \A i \in 1..Len(Below(nodes)) : Below(nodes)[i] = nodes[i + 1]
           /\ Len(nodes) \in Nat /\ (nodes # <<>> => Len(nodes) > 0)
<1>1. CASE nodes = <<>>
  BY <1>1 DEF Below
<1>2. CASE nodes # <<>>
  BY <1>2, HeadTailProperties, EmptySeq DEF Below
<1> QED BY <1>1, <1>2

LEMMA BelowMore ==
    ASSUME NEW nodes \in Seq(AllKinds), nodes # <<>>, NEW k \in AllKinds
    PROVE  Below(Append(nodes, k)) = Append(Below(nodes), k)
<1>1. Append(nodes, k) # <<>>
  BY AppendProperties
<1>2. Tail(Append(nodes, k)) = Append(Tail(nodes), k)
  BY HeadTailAppend
<1> QED BY <1>1, <1>2 DEF Below

LEMMA BelowLess ==
    ASSUME NEW nodes \in Seq(AllKinds), Len(nodes) > 1
    PROVE  /\ Below(nodes) # <<>> /\ Last(Below(nodes)) = Last(nodes)
           /\ Below(Front(nodes)) = Front(Below(nodes))
<1> DEFINE n == Len(nodes)
           b == Below(nodes)
           f == Front(nodes)
<1>1. n \in Nat /\ n > 1 /\ nodes # <<>>
  BY EmptySeq
<1>2. /\ b \in Seq(AllKinds) /\ Len(b) = n - 1
      /\ \A i \in 1..n - 1 : b[i] = nodes[i + 1]
  BY <1>1, BelowIs
<1>3. /\ f \in Seq(AllKinds) /\ Len(f) = n - 1
      /\ \A i \in 1..n - 1 : f[i] = nodes[i]
  BY <1>1, FrontProperties
<1> HIDE DEF n, b, f
<1>4. b # <<>> /\ f # <<>>
  BY <1>1, <1>2, <1>3
<1>5. /\ Front(b) \in Seq(AllKinds) /\ Len(Front(b)) = n - 2
      /\ \A i \in 1..n - 2 : Front(b)[i] = b[i]
  <2>1. (n - 1) - 1 = n - 2
    BY <1>1
  <2> QED BY <1>2, <1>4, <2>1, FrontProperties
<1>6. /\ Below(f) \in Seq(AllKinds) /\ Len(Below(f)) = n - 2
      /\ \A i \in 1..n - 2 : Below(f)[i] = f[i + 1]
  <2>1. (n - 1) - 1 = n - 2
    BY <1>1
  <2>2. Len(Below(f)) = Len(f) - 1
    BY <1>3, <1>4, BelowIs
  <2>3. Len(Below(f)) = n - 2
    BY <1>3, <2>1, <2>2
  <2> QED BY <1>3, <2>3, BelowIs
<1>7. \A i \in 1..n - 2 : Below(f)[i] = Front(b)[i]
  <2>1. \A i \in 1..n - 2 : i \in 1..n - 1 /\ i + 1 \in 1..n - 1
    BY <1>1
  <2> QED BY <1>2, <1>3, <1>5, <1>6, <2>1
<1>8. Below(f) = Front(b)
  <2> DEFINE l == n - 2
  <2> HIDE DEF l
  <2>1. Len(Below(f)) = l /\ Len(Front(b)) = l
        /\ \A i \in 1..l : Below(f)[i] = Front(b)[i]
    BY <1>5, <1>6, <1>7 DEF l
  <2> QED BY <1>5, <1>6, <2>1, SeqEqual
<1>9. Last(b) = nodes[n]
  <2>1. n - 1 \in 1..n - 1 /\ (n - 1) + 1 = n
    BY <1>1
  <2> QED BY <1>2, <2>1 DEF Last
<1> QED BY <1>4, <1>8, <1>9 DEF Last, n, b, f

(* Items and paragraphs are not within paragraphs.                         *)
LEMMA OneParagraph ==
    ASSUME DocumentInv, NEW i \in 1..Len(open), open[i] = "paragraph"
    PROVE  \A j \in 1..Len(open) :
              /\ open[j] = "paragraph" => i = j
              /\ open[j] = "item" => j < i
<1>1. Len(open) \in Nat
  BY BelowIs DEF DocumentInv, DocumentTypeOK
<1> TAKE j \in 1..Len(open)
<1>2. i < j => open[j] \in Inlines
  BY DEF DocumentInv, Fits, Holders
<1>3. open[j] = "paragraph" /\ j < i => open[i] \in Inlines
  BY DEF DocumentInv, Fits, Holders
<1>4. "paragraph" \notin Inlines /\ "item" \notin Inlines
  BY DEF Inlines
<1> QED BY <1>1, <1>2, <1>3, <1>4

LEMMA ShowsType ==
    ASSUME NEW nodes \in Seq(AllKinds), NEW hidden, NEW stack,
           Shows(nodes, hidden, stack)
    PROVE  stack \in Seq(AllKinds) /\ stack # Broken
<1>1. stack \in Seq(AllKinds)
  BY RemoveAtProperties DEF Shows
<1>2. "broken" \notin AllKinds
  BY MarkdownAssumption DEF AllKinds, Inlines, Blocks
<1>3. stack = Broken => Len(stack) = 1 /\ stack[1] = "broken"
  BY DEF Broken
<1>4. stack = Broken => stack[1] \in AllKinds
  BY <1>1, <1>3, ElementOfSeq
<1> QED BY <1>1, <1>2, <1>3, <1>4

LEMMA ElementsStep ==
    ASSUME RenderInv, NEW e \in Event, RenderEvent(e)
    PROVE  Shows(Below(open)', inItem', Elements(page)')
<1> DEFINE st == Elements(page)
           nodes == Below(open)
           n == Len(open)
<1>1. /\ e # Done /\ NextEvent(e) /\ RenderTypeOK /\ DocumentInv
      /\ Shows(nodes, inItem, st)
      /\ inItem' = IF e.kind = "item" THEN e.type = "ENTER" ELSE inItem
  BY DEF RenderEvent, RenderInv
<1>2. inItem \in BOOLEAN /\ open \in Seq(AllKinds) /\ n \in Nat
  BY <1>1, BelowIs DEF RenderTypeOK, DocumentTypeOK
<1>3. e.type \in {"ENTER", "EXIT"} /\ e.kind \in AllKinds
  BY <1>1, EventFields
<1>4. /\ nodes \in Seq(AllKinds)
      /\ Len(nodes) = IF open = <<>> THEN 0 ELSE n - 1
      /\ \A i \in 1..Len(nodes) : nodes[i] = open[i + 1]
      /\ open # <<>> => n > 0
  BY <1>2, BelowIs
<1>5. st # Broken
  BY <1>1, <1>4, ShowsType
<1>6. Elements(page)' = IF IsWritten(e) THEN After(st, TokenOf(e)) ELSE st
  <2>1. page' = IF IsWritten(e) THEN Append(page, TokenOf(e)) ELSE page
    BY <1>1, PageGrows
  <2>2. Elements(page)' = Elements(page')
    BY DEF Elements, Stacks, After
  <2>3. page \in Seq(AnyToken) /\ Len(trace) \in Nat
    BY <1>1, PageType
  <2>4. TokenOf(e) \in AnyToken
    BY <1>3, <2>3 DEF TokenOf, AnyToken
  <2>5. Elements(Append(page, TokenOf(e))) = After(st, TokenOf(e))
    BY <2>3, <2>4, ElementsAppend
  <2> QED BY <2>1, <2>2, <2>5
<1>7. DocumentInv'
  BY <1>1, DocumentStep
<1>8. Below(open)' = Below(open')
  BY DEF Below
<1>9. ASSUME NEW i \in 1..Len(nodes), nodes[i] = "paragraph"
      PROVE  i + 1 \in 1..n /\ open[i + 1] = "paragraph" /\ i \in Nat
  BY <1>2, <1>4, <1>9
<1> HIDE DEF st, nodes, n
<1>10. CASE e.type = "ENTER" /\ e.kind \in Leaves
  <2>1. Enter(e)
    BY <1>1, <1>10 DEF NextEvent, Exit, Finish
  <2>2. open' = open /\ inItem' = inItem
    <3>1. e.kind # "item"
      BY <1>10 DEF Leaves
    <3> QED BY <1>1, <1>10, <2>1, <3>1 DEF Enter
  <2>3. IsWritten(e) => TokenOf(e).form = "text"
    BY <1>10 DEF TokenOf
  <2>4. Elements(page)' = st
    BY <1>5, <1>6, <2>3 DEF After
  <2> QED BY <1>1, <1>8, <2>2, <2>4 DEF nodes
<1>11. CASE e.type = "ENTER" /\ e.kind \notin Leaves
  <2>1. Enter(e)
    BY <1>1, <1>11 DEF NextEvent, Exit, Finish
  <2>2. open' = Append(open, e.kind)
    BY <1>11, <2>1 DEF Enter
  <2>3. CASE trace = <<>>
    <3>1. e.kind = "document" /\ open = <<>>
      BY <1>1, <2>1, <2>3 DEF Enter, DocumentInv, Fits
    <3>2. nodes = <<>> /\ Below(open') = <<>>
      <4>1. open' = <<"document">> /\ Tail(<<"document">>) = <<>>
        BY <2>2, <3>1
      <4> QED BY <3>1, <4>1 DEF Below, nodes
    <3>3. ~IsWritten(e) /\ inItem' = inItem
      BY <1>1, <3>1 DEF IsWritten, Silent
    <3> QED BY <1>1, <1>6, <1>8, <3>2, <3>3
  <2>4. CASE trace # <<>>
    <3>1. open # <<>> /\ e.kind # "document"
      BY <2>1, <2>4, Children DEF Enter
    <3>2. Below(open') = Append(nodes, e.kind)
      BY <1>2, <1>3, <2>2, <3>1, BelowMore DEF nodes
    <3>3. (\E i \in 1..Len(nodes) : nodes[i] = "paragraph") =>
              e.kind # "paragraph" /\ e.kind # "item"
      <4> SUFFICES ASSUME NEW i \in 1..Len(nodes), nodes[i] = "paragraph"
                   PROVE  e.kind \in Inlines
        BY DEF Inlines
      <4>1. /\ i + 1 \in 1..n + 1 /\ n + 1 \in 1..n + 1 /\ i + 1 < n + 1
            /\ i + 1 \in 1..n /\ open[i + 1] = "paragraph"
        BY <1>2, <1>9
      <4>2. Len(open') = n + 1 /\ open'[i + 1] = "paragraph"
            /\ open'[n + 1] = e.kind
        BY <1>2, <1>3, <2>2, <4>1, AppendProperties DEF n
      <4> QED BY <1>7, <4>1, <4>2 DEF DocumentInv, Fits, Holders
    <3>4. ASSUME IsWritten(e) PROVE Elements(page)' = Append(st, e.kind)
      <4>1. TokenOf(e).form = "tag" /\ TokenOf(e).kind = e.kind
        BY <1>11 DEF TokenOf
      <4> QED BY <1>5, <1>6, <3>4, <4>1 DEF After
    <3>5. IsWritten(e) <=> ~(e.kind = "paragraph" /\ inItem)
      BY <1>11, <3>1 DEF IsWritten, Silent, Leaves
    <3>6. CASE e.kind = "item"
      <4>1. inItem' = TRUE
        BY <1>1, <1>11, <3>6
      <4>2. Shows(nodes, TRUE, st)
        BY <1>1, <3>3, <3>6 DEF Shows
      <4>3. Shows(Append(nodes, e.kind), TRUE, Append(st, e.kind))
        BY <1>3, <1>4, <3>6, <4>2, ShowsMore
      <4> QED BY <1>8, <3>2, <3>4, <3>5, <3>6, <4>1, <4>3
    <3>7. CASE e.kind # "item"
      <4>1. inItem' = inItem
        BY <1>1, <3>7
      <4>2. Shows(Append(nodes, e.kind), inItem,
                  IF e.kind = "paragraph" /\ inItem THEN st
                                                    ELSE Append(st, e.kind))
        BY <1>1, <1>2, <1>3, <1>4, <3>3, ShowsMore
      <4> QED BY <1>6, <1>8, <3>2, <3>4, <3>5, <4>1, <4>2
    <3> QED BY <3>6, <3>7
  <2> QED BY <2>3, <2>4
<1>12. CASE e.type = "EXIT"
  <2>1. Exit(e)
    BY <1>1, <1>12 DEF NextEvent, Enter, Finish
  <2>2. open # <<>> /\ e.kind = open[n] /\ open' = Front(open)
    BY <2>1 DEF Exit, Last, n
  <2>3. n \in 1..n /\ n > 0
    BY <1>2, <1>4, <2>2
  <2>4. e.kind \notin Leaves /\ (e.kind = "document" <=> n = 1)
    BY <1>1, <2>2, <2>3 DEF DocumentInv, Fits, n
  <2>5. CASE n = 1
    <3>1. e.kind = "document"
      BY <2>4, <2>5
    <3>2. nodes = <<>>
      BY <1>4, <2>2, <2>5, EmptySeq
    <3>3. Below(open') = <<>>
      <4>1. open' \in Seq(AllKinds) /\ Len(open') = 0
        BY <1>2, <2>2, <2>5, FrontProperties DEF n
      <4>2. open' = <<>>
        BY <4>1, EmptySeq
      <4> QED BY <4>2 DEF Below
    <3>4. ~IsWritten(e) /\ inItem' = inItem
      BY <1>1, <3>1 DEF IsWritten, Silent
    <3> QED BY <1>1, <1>6, <1>8, <3>2, <3>3, <3>4
  <2>6. CASE n # 1
    <3>1. nodes # <<>> /\ Last(nodes) = e.kind /\ Below(open') = Front(nodes)
      <4>0. n > 1
        BY <1>2, <2>3, <2>6
      <4>1. Len(open) > 1
        BY <4>0 DEF n
      <4>2. /\ nodes # <<>> /\ Last(nodes) = Last(open)
            /\ Below(Front(open)) = Front(nodes)
        BY <1>2, <4>1, BelowLess DEF nodes
      <4>3. Last(open) = e.kind
        BY <2>2 DEF Last, n
      <4> QED BY <2>2, <4>2, <4>3
    <3>2. \A i, j \in 1..Len(nodes) :
             nodes[i] = "paragraph" /\ nodes[j] = "paragraph" => i = j
      <4> TAKE i \in 1..Len(nodes), j \in 1..Len(nodes)
      <4> SUFFICES ASSUME nodes[i] = "paragraph", nodes[j] = "paragraph"
                   PROVE  i = j
        OBVIOUS
      <4>1. i + 1 \in 1..n /\ open[i + 1] = "paragraph" /\ i \in Nat
            /\ j + 1 \in 1..n /\ open[j + 1] = "paragraph" /\ j \in Nat
        BY <1>9
      <4>2. i + 1 = j + 1
        BY <1>1, <4>1, OneParagraph DEF n
      <4> QED BY <4>1, <4>2
    <3>3. IF e.kind = "paragraph" /\ inItem
          THEN Shows(Front(nodes), inItem, st)
          ELSE /\ st # <<>> /\ Last(st) = e.kind
               /\ Shows(Front(nodes), inItem, Front(st))
      BY <1>1, <1>2, <1>4, <3>1, <3>2, ShowsLess
    <3>4. IsWritten(e) <=> ~(e.kind = "paragraph" /\ inItem)
      BY <2>4, <2>6 DEF IsWritten, Silent, Leaves
    <3>5. ASSUME IsWritten(e) PROVE Elements(page)' = Front(st)
      <4>1. TokenOf(e).form = "end" /\ TokenOf(e).kind = e.kind
        BY <1>12 DEF TokenOf
      <4> QED BY <1>5, <1>6, <3>3, <3>4, <3>5, <4>1 DEF After
    <3>6. Shows(Front(nodes), inItem, Elements(page)')
      BY <1>6, <3>3, <3>4, <3>5
    <3>7. CASE e.kind # "item"
      BY <1>1, <1>8, <3>1, <3>6, <3>7
    <3>8. CASE e.kind = "item"
      <4>1. inItem' = FALSE
        BY <1>1, <1>12, <3>8
      <4>2. ~\E i \in 1..Len(nodes) : nodes[i] = "paragraph"
        <5> SUFFICES ASSUME NEW i \in 1..Len(nodes), nodes[i] = "paragraph"
                     PROVE  FALSE
          OBVIOUS
        <5>1. i + 1 \in 1..n /\ open[i + 1] = "paragraph"
          BY <1>9
        <5>2. n < i + 1
          BY <1>1, <2>2, <2>3, <3>8, <5>1, OneParagraph DEF n
        <5> QED BY <1>2, <5>1, <5>2
      <4>3. ~\E i \in 1..Len(Front(nodes)) : Front(nodes)[i] = "paragraph"
        <5>1. /\ Len(Front(nodes)) = Len(nodes) - 1
              /\ \A i \in 1..Len(nodes) - 1 : Front(nodes)[i] = nodes[i]
              /\ Len(nodes) \in Nat
          BY <1>4, <3>1, FrontProperties
        <5> QED BY <4>2, <5>1
      <4> QED BY <1>8, <3>1, <3>6, <4>1, <4>3 DEF Shows
    <3> QED BY <3>7, <3>8
  <2> QED BY <2>5, <2>6
<1> QED BY <1>3, <1>10, <1>11, <1>12

LEMMA RenderEventStep ==
    ASSUME RenderInv, NEW e \in Event, RenderEvent(e)
    PROVE  RenderInv'
<1>1. RenderTypeOK /\ DocumentInv /\ NextEvent(e)
  BY DEF RenderInv, RenderEvent
<1>2. DocumentInv'
  BY <1>1, DocumentStep
<1>3. RenderTypeOK'
  BY <1>1, PageGrows
<1>4. Shows(Below(open)', inItem', Elements(page)')
  BY ElementsStep
<1>5. Shows(Below(open), inItem, Elements(page))' =
          Shows(Below(open)', inItem', Elements(page)')
  BY DEF Shows
<1> QED BY <1>2, <1>3, <1>4, <1>5, TextsStep DEF RenderInv

LEMMA EndRenderStep == ASSUME RenderInv, EndRender PROVE RenderInv'
<1>1. RenderTypeOK /\ DocumentInv /\ NextEvent(Done) /\ Done \in Event
  BY DEF RenderInv, EndRender, Event
<1>2. /\ DocumentInv'
      /\ trace' \in Seq(Event) /\ Len(trace') = Len(trace) + 1
      /\ \A i \in 1..Len(trace) : trace'[i] = trace[i]
      /\ trace'[Len(trace) + 1] = Done
      /\ Len(trace) \in Nat
  BY <1>1, DocumentStep
<1>3. open' = open /\ inItem' = inItem
  BY <1>1 DEF NextEvent, Enter, Exit, Finish, Done, EndRender
<1>4. body \in Seq(Token') /\ response \in Seq(Token')
  BY <1>1, <1>2, TokensRemain DEF RenderTypeOK
<1>5. response' = response \o body /\ body' = <<>>
  BY DEF EndRender, Prepended
<1>6. response' \in Seq(Token') /\ body' \in Seq(Token')
  BY <1>4, <1>5, ConcatProperties
<1>7. page' = page
  BY <1>4, <1>5, <1>6, ConcatEmptySeq DEF page
<1>8. RenderTypeOK'
  BY <1>1, <1>2, <1>3, <1>6 DEF RenderTypeOK, DocumentInv
<1>9. TextsInOrder'
  <2>1. DOMAIN trace = 1..Len(trace) /\ DOMAIN trace' = 1..Len(trace) + 1
    BY <1>1, <1>2, PageType, LenProperties
  <2>2. Done.type = "DONE"
    BY DEF Done
  <2>3. {i \in DOMAIN trace' : /\ trace'[i].type = "ENTER"
                               /\ trace'[i].kind \in Leaves \ Silent} =
            {i \in DOMAIN trace : /\ trace[i].type = "ENTER"
                                  /\ trace[i].kind \in Leaves \ Silent}
    BY <1>2, <2>1, <2>2
  <2> QED BY <1>7, <2>3 DEF TextsInOrder, RenderInv
<1>10. Shows(Below(open), inItem, Elements(page))'
  <2>1. Elements(page)' = Elements(page)
    BY <1>7 DEF Elements, Stacks, After
  <2>2. Below(open)' = Below(open)
    BY <1>3 DEF Below
  <2>3. Shows(Below(open), inItem, Elements(page))
    BY DEF RenderInv
  <2> QED BY <1>3, <2>1, <2>2, <2>3 DEF Shows
<1> QED BY <1>2, <1>8, <1>9, <1>10 DEF RenderInv

LEMMA RenderStart == RenderInit => RenderInv
<1> SUFFICES ASSUME RenderInit PROVE RenderInv
  OBVIOUS
<1>1. DocumentInv /\ open = <<>> /\ trace = <<>>
  BY DocumentStart DEF RenderInit, DocumentInit
<1>2. /\ inItem = FALSE /\ page = <<>>
      /\ body \in Seq(Token) /\ response \in Seq(Token)
  BY DEF RenderInit, page
<1>3. RenderTypeOK
  BY <1>1, <1>2 DEF RenderTypeOK, DocumentInv
<1>4. TextsInOrder
  BY <1>1, <1>2 DEF TextsInOrder
<1>5. Shows(Below(open), inItem, Elements(page))
  BY <1>1, <1>2, ElementsOfNone DEF Shows, Below
<1> QED BY <1>1, <1>3, <1>4, <1>5 DEF RenderInv

LEMMA RenderInductive == RenderInv /\ [RenderNext]_renderVars => RenderInv'
<1> SUFFICES ASSUME RenderInv, [RenderNext]_renderVars PROVE RenderInv'
  OBVIOUS
<1>1. CASE UNCHANGED renderVars
  <2>1. /\ open' = open /\ trace' = trace /\ inItem' = inItem
        /\ body' = body /\ response' = response
    BY <1>1 DEF renderVars, document
  <2>2. DocumentInv' /\ RenderTypeOK'
    BY <2>1 DEF RenderInv, RenderTypeOK, DocumentInv, DocumentTypeOK, Fits, Token
  <2>3. page' = page
    BY <2>1 DEF page
  <2>4. TextsInOrder'
    BY <2>1, <2>3 DEF RenderInv, TextsInOrder
  <2>5. Elements(page)' = Elements(page) /\ Below(open)' = Below(open)
    BY <2>1, <2>3 DEF Elements, Stacks, After, Below
  <2>6. Shows(Below(open), inItem, Elements(page))'
    BY <2>1, <2>5 DEF RenderInv, Shows
  <2> QED BY <2>2, <2>4, <2>6 DEF RenderInv
<1> QED BY <1>1, RenderEventStep, EndRenderStep DEF RenderNext

(* What holds of a page and its document at every step.                    *)
THEOREM RenderAlways == RenderSpec => []RenderInv
BY RenderStart, RenderInductive, PTL DEF RenderSpec

(* Whatever the document, renderArticle handles its events with values of  *)
(* their types: every token is of an event that there was.                 *)
THEOREM RenderTyped == RenderSpec => []RenderTypeOK
<1>1. RenderInv => RenderTypeOK
  BY DEF RenderInv
<1> QED BY <1>1, RenderAlways, PTL

(* The texts of a page are those of the document, each once, and in order. *)
THEOREM TextsAreInOrder == RenderSpec => []TextsInOrder
<1>1. RenderInv => TextsInOrder
  BY DEF RenderInv
<1> QED BY <1>1, RenderAlways, PTL

(* The tags of a page are nested as the nodes of its document are.         *)
THEOREM TagsAreNested == RenderSpec => []TagsNested
<1>1. RenderInv => TagsNested
  <2> SUFFICES ASSUME RenderInv PROVE TagsNested
    OBVIOUS
  <2>1. Shows(Below(open), inItem, Elements(page)) /\ open \in Seq(AllKinds)
    BY DEF RenderInv, DocumentInv, DocumentTypeOK
  <2>2. DOMAIN Below(open) = 1..Len(Below(open))
    BY <2>1, BelowIs, LenProperties
  <2> QED BY <2>1, <2>2 DEF TagsNested, Shows, Below
<1> QED BY <1>1, RenderAlways, PTL

-----------------------------------------------------------------------------
(* Texts                                                                   *)

AnyBytes == Nat \X Nat

LEMMA LiteralType ==
    ASSUME NEW n \in Nat, NEW size \in 0..MaxText
    PROVE  Literal(n, size) \in Seq(AnyBytes) /\ Len(Literal(n, size)) = size
<1>1. size \in Nat
  BY MarkdownAssumption
<1>2. Literal(n, size) \in [1..size -> AnyBytes]
  BY <1>1 DEF Literal, AnyBytes
<1> QED BY <1>1, <1>2 DEF Literal

(* The text up to each event, and what an event adds to it.                *)
Added(events, some, n, string) ==
    IF n \in some /\ Enters(events[n], "text")
    THEN string \o Literal(n, events[n].size) ELSE string

UpTo(events, some) ==
    CHOOSE g : g = [n \in 0..Len(events) |->
                       IF n = 0 THEN <<>> ELSE Added(events, some, n, g[n - 1])]

LEMMA AddedType ==
    ASSUME NEW events \in Seq(Event), NEW some, NEW n \in 1..Len(events),
           NEW string \in Seq(AnyBytes)
    PROVE  Added(events, some, n, string) \in Seq(AnyBytes)
<1>1. events[n] \in Event /\ n \in Nat
  BY ElementOfSeq
<1>2. Enters(events[n], "text") => events[n].size \in 0..MaxText
  BY <1>1, EventFields DEF Enters, Done
<1> QED BY <1>1, <1>2, LiteralType, ConcatProperties DEF Added

LEMMA UpToSteps ==
    ASSUME NEW events \in Seq(Event), NEW some
    PROVE  /\ UpTo(events, some)[0] = <<>>
           /\ \A n \in 1..Len(events) : UpTo(events, some)[n] =
                 Added(events, some, n, UpTo(events, some)[n - 1])
           /\ \A n \in 0..Len(events) : UpTo(events, some)[n] \in Seq(AnyBytes)
           /\ TextOf(events, some) = UpTo(events, some)[Len(events)]
<1> DEFINE m == Len(events)
           V == Seq(AnyBytes)
           step == [p \in V \X (1..m) |-> Added(events, some, p[2], p[1])]
           Solves(f) == f = [n \in 0..m |-> IF n = 0 THEN <<>>
                                      ELSE Added(events, some, n, f[n - 1])]
<1>1. m \in Nat
  OBVIOUS
<1>2. step \in [V \X (1..m) -> V]
  <2>1. ASSUME NEW p \in V \X (1..m) PROVE Added(events, some, p[2], p[1]) \in V
    <3>1. p[1] \in V /\ p[2] \in 1..m
      OBVIOUS
    <3> QED BY <3>1, AddedType
  <2> QED BY <2>1
<1>3. \A s \in V, n \in 1..m : step[<<s, n>>] = Added(events, some, n, s)
  OBVIOUS
<1>4. <<>> \in V
  OBVIOUS
<1>5. PICK f \in [0..m -> V] : Follows(f, <<>>, m, step)
  <2>1. m \in Nat
    OBVIOUS
  <2> HIDE DEF step, V, m
  <2> QED BY <1>2, <1>4, <2>1, Recursion
<1>6. Solves(f)
  <2>1. \A n \in 1..m : f[n] = Added(events, some, n, f[n - 1])
    <3>1. \A n \in 1..m : n - 1 \in 0..m
      BY <1>1
    <3> HIDE DEF step, V, m
    <3> QED BY <1>3, <1>5, <3>1 DEF Follows
  <2> HIDE DEF step, V, m
  <2> QED BY <1>1, <1>5, <2>1 DEF Follows
<1>7. UpTo(events, some) = CHOOSE g : Solves(g)
  BY DEF UpTo
<1>8. Solves(UpTo(events, some))
  <2> HIDE DEF Solves
  <2> QED BY <1>6, <1>7
<1> DEFINE u == UpTo(events, some)
<1>9. /\ u[0] = <<>>
      /\ \A n \in 1..m : u[n] = Added(events, some, n, u[n - 1])
  <2> HIDE DEF u
  <2>1. u = [n \in 0..m |-> IF n = 0 THEN <<>>
                            ELSE Added(events, some, n, u[n - 1])]
    BY <1>8 DEF u
  <2> QED BY <1>1, <2>1
<1>10. \A n \in 0..m : u[n] \in V
  <2>1. u[0] \in V /\ \A n \in 1..m : u[n - 1] \in V => u[n] \in V
    <3> HIDE DEF u
    <3> QED BY <1>1, <1>4, <1>9, AddedType
  <2> HIDE DEF u, V, m
  <2> QED BY <1>1, <2>1, RecursionType
<1>11. TextOf(events, some) = u[m]
  BY DEF TextOf, UpTo, Added
<1> QED BY <1>9, <1>10, <1>11

LEMMA TextType ==
    ASSUME NEW events \in Seq(Event), NEW some
    PROVE  TextOf(events, some) \in Seq(AnyBytes)
<1>1. Len(events) \in 0..Len(events)
  BY EmptySeq
<1> QED BY <1>1, UpToSteps

(* Only events that enter a text add to it.                                *)
LEMMA NoText ==
    ASSUME NEW events \in Seq(Event), NEW some,
           \A n \in 1..Len(events) : n \in some => ~Enters(events[n], "text")
    PROVE  TextOf(events, some) = <<>>
<1> DEFINE m == Len(events)
           u == UpTo(events, some)
<1>1. /\ m \in Nat /\ u[0] = <<>>
      /\ \A n \in 1..m : u[n] = u[n - 1]
  BY UpToSteps DEF Added
<1>2. u[0] \in {<<>>} /\ \A n \in 1..m : u[n - 1] \in {<<>>} => u[n] \in {<<>>}
  BY <1>1
<1>3. \A n \in 0..m : u[n] \in {<<>>}
  <2> DEFINE V == {<<>>}
  <2>1. u[0] \in V /\ \A n \in 1..m : u[n - 1] \in V => u[n] \in V
    BY <1>2
  <2>2. m \in Nat
    BY <1>1
  <2> HIDE DEF u, m, V
  <2>3. \A n \in 0..m : u[n] \in V
    BY <2>1, <2>2, RecursionType
  <2> QED BY <2>3 DEF V
<1> QED BY <1>1, <1>3, UpToSteps

(* The text depends on the events only that there are.                     *)
LEMMA SameText ==
    ASSUME NEW events \in Seq(Event), NEW a, NEW b,
           \A n \in 1..Len(events) : n \in a <=> n \in b
    PROVE  TextOf(events, a) = TextOf(events, b)
<1> DEFINE m == Len(events)
           f == UpTo(events, a)
           g == UpTo(events, b)
<1>1. /\ m \in Nat /\ f[0] = g[0]
      /\ \A n \in 1..m : f[n] = Added(events, a, n, f[n - 1])
      /\ \A n \in 1..m : g[n] = Added(events, b, n, g[n - 1])
  BY UpToSteps
<1>2. TextOf(events, a) = f[m] /\ TextOf(events, b) = g[m]
  BY UpToSteps
<1>3. \A n \in 1..m : n \in a <=> n \in b
  OBVIOUS
<1> HIDE DEF f, g, m
<1>4. \A n \in 1..m : f[n - 1] = g[n - 1] => f[n] = g[n]
  BY <1>1, <1>3 DEF Added
<1>5. \A n \in 0..m : f[n] = g[n]
  <2>1. m \in Nat /\ InStep(f, g, m)
    BY <1>1, <1>4 DEF InStep
  <2> QED BY <2>1, RecursionAgrees DEF Agree
<1>6. m \in 0..m
  BY <1>1
<1> QED BY <1>2, <1>5, <1>6

LEMMA MoreText ==
    ASSUME NEW events \in Seq(Event), NEW e \in Event, NEW some
    PROVE  TextOf(Append(events, e), some) =
               IF Len(events) + 1 \in some /\ Enters(e, "text")
               THEN TextOf(events, some) \o Literal(Len(events) + 1, e.size)
               ELSE TextOf(events, some)
<1> DEFINE m == Len(events)
           more == Append(events, e)
           f == UpTo(events, some)
           g == UpTo(more, some)
<1>1. /\ more \in Seq(Event) /\ m \in Nat /\ Len(more) = m + 1
      /\ \A n \in 1..m : more[n] = events[n]
      /\ more[m + 1] = e
  BY AppendProperties, EmptySeq
<1>2. /\ f[0] = <<>> /\ \A n \in 1..m : f[n] = Added(events, some, n, f[n - 1])
      /\ TextOf(events, some) = f[m]
  BY UpToSteps
<1> HIDE DEF more
<1>3. /\ g[0] = <<>>
      /\ \A n \in 1..m + 1 : g[n] = Added(more, some, n, g[n - 1])
      /\ TextOf(more, some) = g[m + 1]
  <2>1. /\ g[0] = <<>>
        /\ \A n \in 1..Len(more) : g[n] = Added(more, some, n, g[n - 1])
        /\ TextOf(more, some) = g[Len(more)]
    BY <1>1, UpToSteps
  <2> QED BY <1>1, <2>1
<1> HIDE DEF f, g, m
<1>4. \A n \in 1..m : f[n - 1] = g[n - 1] => f[n] = g[n]
  <2>1. \A n \in 1..m : n \in 1..m + 1
    BY <1>1
  <2> QED BY <1>1, <1>2, <1>3, <2>1 DEF Added
<1>5. \A n \in 0..m : f[n] = g[n]
  <2>1. f[0] = g[0] /\ m \in Nat
    BY <1>1, <1>2, <1>3
  <2>2. InStep(f, g, m)
    BY <1>4, <2>1 DEF InStep
  <2> QED BY <2>1, <2>2, RecursionAgrees DEF Agree
<1>6. g[m + 1] = Added(more, some, m + 1, f[m])
  <2>1. m + 1 \in 1..m + 1 /\ (m + 1) - 1 = m /\ m \in 0..m
    BY <1>1
  <2>2. g[m + 1] = Added(more, some, m + 1, g[(m + 1) - 1])
    BY <1>3, <2>1
  <2> QED BY <1>5, <2>1, <2>2
<1> QED BY <1>1, <1>2, <1>3, <1>6 DEF Added, more, m

(* No event from i on leaves a node of kind k.                             *)
Within(events, i, k) == \A l \in i..Len(events) : ~Quits(events[l], k)

(* What the next event adds to the text of a node ...                      *)
LEMMA ThroughMore ==
    ASSUME NEW events \in Seq(Event), NEW e \in Event, NEW k,
           NEW i \in 1..Len(events) + 1
    PROVE  LET more == Append(events, e)
           IN  /\ Within(events, i, k) =>
                    TextOf(more, Through(more, i, k)) =
                        IF Enters(e, "text")
                        THEN TextOf(events, Through(events, i, k))
                             \o Literal(Len(events) + 1, e.size)
                        ELSE TextOf(events, Through(events, i, k))
               /\ ~Within(events, i, k) =>
                    TextOf(more, Through(more, i, k)) =
                        TextOf(events, Through(events, i, k))
<1> DEFINE m == Len(events)
           more == Append(events, e)
           old == Through(events, i, k)
           new == Through(more, i, k)
<1>1. /\ more \in Seq(Event) /\ m \in Nat /\ Len(more) = m + 1
      /\ \A n \in 1..m : more[n] = events[n]
      /\ more[m + 1] = e
  BY AppendProperties, EmptySeq
<1>2. i \in 1..m + 1 /\ i \in Nat
  BY <1>1
<1> HIDE DEF more, m
<1>3. \A n \in 1..m : n \in new <=> n \in old
  <2>1. ASSUME NEW n \in 1..m PROVE n \in new <=> n \in old
    <3>1. \A l \in i..n - 1 : l \in 1..m /\ more[l] = events[l]
      BY <1>1, <1>2
    <3>2. n \in new <=> i <= n /\ \A l \in i..n - 1 : ~Quits(more[l], k)
      BY <1>1, <1>2 DEF Through
    <3>3. n \in old <=> i <= n /\ \A l \in i..n - 1 : ~Quits(events[l], k)
      BY <1>1, <1>2 DEF Through, m
    <3> QED BY <3>1, <3>2, <3>3
  <2> QED BY <2>1
<1>4. m + 1 \in new <=> Within(events, i, k)
  <2>1. \A l \in i..m : l \in 1..m /\ more[l] = events[l]
    BY <1>1, <1>2
  <2>2. m + 1 \in new <=> \A l \in i..m : ~Quits(more[l], k)
    <3>1. (m + 1) - 1 = m /\ m + 1 \in i..Len(more)
      BY <1>1, <1>2
    <3> QED BY <3>1 DEF Through
  <2> QED BY <2>1, <2>2 DEF Within, m
<1>5. TextOf(events, new) = TextOf(events, old)
  <2>1. \A n \in 1..Len(events) : n \in new <=> n \in old
    BY <1>3 DEF m
  <2> HIDE DEF new, old
  <2> QED BY <2>1, SameText
<1>6. TextOf(more, new) = IF m + 1 \in new /\ Enters(e, "text")
                          THEN TextOf(events, new) \o Literal(m + 1, e.size)
                          ELSE TextOf(events, new)
  <2> HIDE DEF new
  <2> QED BY MoreText DEF more, m
<1> HIDE DEF new, old
<1> QED BY <1>4, <1>5, <1>6 DEF new, old, more, m

(* ... of which there is none when it has just been entered.               *)
LEMMA ThroughStart ==
    ASSUME NEW events \in Seq(Event), NEW e \in Event, NEW k,
           ~Enters(e, "text"), ~Quits(e, k)
    PROVE  LET more == Append(events, e)
           IN  /\ TextOf(more, Through(more, Len(more), k)) = <<>>
               /\ Within(more, Len(more), k)
<1> DEFINE m == Len(events)
           more == Append(events, e)
           new == Through(more, Len(more), k)
<1>1. /\ more \in Seq(Event) /\ m \in Nat /\ Len(more) = m + 1
      /\ more[m + 1] = e
  BY AppendProperties, EmptySeq
<1> HIDE DEF more, m
<1>2. \A n \in 1..Len(more) : n \in new => ~Enters(more[n], "text")
  BY <1>1 DEF Through
<1>3. TextOf(more, new) = <<>>
  <2> HIDE DEF new
  <2> QED BY <1>1, <1>2, NoText
<1>4. Within(more, Len(more), k)
  BY <1>1 DEF Within
<1> QED BY <1>3, <1>4 DEF more

LEMMA WithinMore ==
    ASSUME NEW events \in Seq(Event), NEW e \in Event, NEW k,
           NEW i \in 1..Len(events) + 1
    PROVE  Within(Append(events, e), i, k) <=>
               Within(events, i, k) /\ ~Quits(e, k)
<1> DEFINE m == Len(events)
           more == Append(events, e)
<1>1. /\ m \in Nat /\ Len(more) = m + 1
      /\ \A n \in 1..m : more[n] = events[n]
      /\ more[m + 1] = e
  BY AppendProperties, EmptySeq
<1>2. i \in 1..m + 1
  OBVIOUS
<1> HIDE DEF more, m
<1>3. Within(more, i, k) <=> (\A l \in i..m : ~Quits(more[l], k)) /\ ~Quits(e, k)
  <2>1. Within(more, i, k) <=> \A l \in i..m + 1 : ~Quits(more[l], k)
    BY <1>1 DEF Within
  <2>2. \A l : l \in i..m + 1 <=> l \in i..m \/ l = m + 1
    BY <1>1, <1>2
  <2> QED BY <1>1, <2>1, <2>2
<1>4. \A l \in i..m : more[l] = events[l]
  BY <1>1, <1>2
<1> QED BY <1>3, <1>4 DEF Within, more, m

-----------------------------------------------------------------------------
(* Summary                                                                 *)

LEMMA CutProperties ==
    ASSUME NEW S, NEW s \in Seq(S)
    PROVE  /\ Cut(s) \in Seq(S) /\ Len(Cut(s)) <= Limit
           /\ Cut(s) = <<>> <=> s = <<>>
           /\ \A t \in Seq(S) : Len(s) >= Limit => Cut(s \o t) = Cut(s)
<1> DEFINE l == IF Len(s) < Limit THEN Len(s) ELSE Limit
<1>1. Limit \in Nat \ {0} /\ Len(s) \in Nat /\ l \in 0..Len(s) /\ l <= Limit
  BY SummaryAssumption
<1>2. Cut(s) = SubSeq(s, 1, l)
  BY DEF Cut
<1>3. /\ SubSeq(s, 1, l) \in Seq(S)
      /\ Len(SubSeq(s, 1, l)) = l
  <2> HIDE DEF l
  <2>1. l \in Int /\ 1 \in Int /\ \A i \in 1..l : s[i] \in S
    BY <1>1, ElementOfSeq
  <2>2. /\ SubSeq(s, 1, l) \in Seq(S)
        /\ Len(SubSeq(s, 1, l)) = IF 1 <= l THEN l - 1 + 1 ELSE 0
    BY <2>1, SubSeqProperties
  <2>3. (IF 1 <= l THEN l - 1 + 1 ELSE 0) = l
    BY <1>1
  <2> QED BY <2>2, <2>3
<1>4. Cut(s) = <<>> <=> s = <<>>
  <2>1. l = 0 <=> Len(s) = 0
    BY <1>1
  <2> HIDE DEF l
  <2> QED BY <1>2, <1>3, <2>1, EmptySeq
<1>5. ASSUME NEW t \in Seq(S), Len(s) >= Limit PROVE Cut(s \o t) = Cut(s)
  <2>1. l = Limit /\ Limit \in 1..Len(s) /\ 1 \in 1..Len(s)
    BY <1>1, <1>5
  <2>2. Len(s \o t) = Len(s) + Len(t) /\ Len(t) \in Nat
    BY ConcatProperties, EmptySeq
  <2>3. ~(Len(s \o t) < Limit)
    BY <1>1, <1>5, <2>2
  <2>4. Cut(s \o t) = SubSeq(s \o t, 1, Limit)
    BY <2>3 DEF Cut
  <2>5. SubSeq(s \o t, 1, Limit) = SubSeq(s, 1, Limit)
    BY <2>1, SubSeqOfConcat1
  <2> QED BY <1>2, <2>1, <2>4, <2>5
<1> HIDE DEF l
<1> QED BY <1>1, <1>2, <1>3, <1>4, <1>5

NoParagraph(events) == \A i \in 1..Len(events) : ~Enters(events[i], "paragraph")

FirstParagraph(events, i) ==
    /\ i \in 1..Len(events) /\ Enters(events[i], "paragraph")
    /\ \A j \in 1..Len(events) : Enters(events[j], "paragraph") => i <= j

(* The title, once it has been read.                                       *)
TitleRead(events, text) ==
    /\ Len(events) >= 2
    /\ events[2].type = "ENTER" =>
          /\ Enters(events[2], "heading") /\ ~Within(events, 2, "heading")
          /\ text # <<>>
          /\ text = TextOf(events, Through(events, 2, "heading"))

LEMMA ParagraphsMore ==
    ASSUME NEW events \in Seq(Event), NEW e \in Event
    PROVE  LET more == Append(events, e)
           IN  /\ NoParagraph(more) <=>
                      NoParagraph(events) /\ ~Enters(e, "paragraph")
               /\ \A i : FirstParagraph(events, i) => FirstParagraph(more, i)
               /\ NoParagraph(events) /\ Enters(e, "paragraph") =>
                      FirstParagraph(more, Len(more))
<1> DEFINE m == Len(events)
           more == Append(events, e)
<1>1. /\ m \in Nat /\ Len(more) = m + 1
      /\ \A n \in 1..m : more[n] = events[n]
      /\ more[m + 1] = e
  BY AppendProperties, EmptySeq
<1> HIDE DEF more
<1>2. NoParagraph(more) <=> NoParagraph(events) /\ ~Enters(e, "paragraph")
  BY <1>1 DEF NoParagraph
<1>3. \A i : FirstParagraph(events, i) => FirstParagraph(more, i)
  BY <1>1 DEF FirstParagraph
<1>4. NoParagraph(events) /\ Enters(e, "paragraph") =>
          FirstParagraph(more, Len(more))
  BY <1>1 DEF FirstParagraph, NoParagraph
<1> QED BY <1>2, <1>3, <1>4 DEF more

LEMMA TitleKept ==
    ASSUME NEW events \in Seq(Event), NEW e \in Event, NEW text,
           TitleRead(events, text)
    PROVE  TitleRead(Append(events, e), text)
<1> DEFINE more == Append(events, e)
<1>1. /\ Len(events) \in Nat /\ Len(more) = Len(events) + 1
      /\ \A n \in 1..Len(events) : more[n] = events[n]
  BY AppendProperties, EmptySeq
<1>2. Len(events) >= 2 /\ 2 \in 1..Len(events) /\ 2 \in 1..Len(events) + 1
      /\ more[2] = events[2] /\ Len(more) >= 2
  BY <1>1 DEF TitleRead
<1>3. ~Within(events, 2, "heading") =>
         /\ ~Within(more, 2, "heading")
         /\ TextOf(more, Through(more, 2, "heading")) =
                TextOf(events, Through(events, 2, "heading"))
  BY <1>2, WithinMore, ThroughMore
<1> HIDE DEF more
<1> QED BY <1>2, <1>3 DEF TitleRead, more

-----------------------------------------------------------------------------
(* What is known in each phase.                                            *)

AtFirst == /\ Len(trace) = 1 /\ Len(open) = 1
           /\ title = <<>> /\ preview = <<>> /\ NoParagraph(trace)

AtTitle == /\ Len(trace) >= 2 /\ Enters(trace[2], "heading")
           /\ Within(trace, 2, "heading")
           /\ Len(open) >= 2 /\ open[2] = "heading"
           /\ title = TextOf(trace, Through(trace, 2, "heading"))
           /\ preview = <<>> /\ NoParagraph(trace)

AtSeek == TitleRead(trace, title) /\ preview = <<>> /\ NoParagraph(trace)

AtPreview ==
    /\ TitleRead(trace, title)
    /\ \E i \in 1..Len(trace) :
          /\ FirstParagraph(trace, i) /\ Within(trace, i, "paragraph")
          /\ preview = TextOf(trace, Through(trace, i, "paragraph"))

AtEnd ==
    /\ TitleRead(trace, title)
    /\ \/ NoParagraph(trace)
       \/ \E i \in 1..Len(trace) :
             /\ FirstParagraph(trace, i)
             /\ preview # <<>>
             /\ preview = Cut(TextOf(trace, Through(trace, i, "paragraph")))

SummaryInv ==
    /\ SummaryTypeOK /\ DocumentInv
    /\ phase = "skip" => trace = <<>> /\ title = <<>> /\ preview = <<>>
    /\ phase = "first" => AtFirst
    /\ phase = "title" => AtTitle
    /\ phase = "seek" => AtSeek
    /\ phase = "preview" => AtPreview
    /\ phase = "accepted" => AtEnd

(* What each step of build starts from.                                    *)
LEMMA Reads ==
    ASSUME SummaryInv, NEW e \in Event, NextEvent(e)
    PROVE  /\ DocumentInv /\ DocumentInv'
           /\ trace \in Seq(Event) /\ Len(trace) \in Nat
           /\ trace' = Append(trace, e) /\ Len(trace') = Len(trace) + 1
           /\ \A i \in 1..Len(trace) : trace'[i] = trace[i]
           /\ trace'[Len(trace) + 1] = e
           /\ title \in Seq(Bytes') /\ preview \in Seq(Bytes')
           /\ Appended(title, e) \in Seq(Bytes')
           /\ Appended(preview, e) \in Seq(Bytes')
<1>1. DocumentInv /\ trace \in Seq(Event)
      /\ title \in Seq(Bytes) /\ preview \in Seq(Bytes)
  BY DEF SummaryInv, SummaryTypeOK, DocumentInv, DocumentTypeOK
<1>2. /\ DocumentInv' /\ Len(trace) \in Nat /\ Len(trace') = Len(trace) + 1
      /\ \A i \in 1..Len(trace) : trace'[i] = trace[i]
      /\ trace'[Len(trace) + 1] = e
      /\ trace' = Append(trace, e)
  BY <1>1, DocumentStep DEF NextEvent
<1>3. Bytes \subseteq Bytes'
  BY <1>2 DEF Bytes
<1>4. title \in Seq(Bytes') /\ preview \in Seq(Bytes')
  BY <1>1, <1>3, SeqMonotonic
<1>5. Enters(e, "text") => Literal(Len(trace) + 1, e.size) \in Seq(Bytes')
  <2> SUFFICES ASSUME Enters(e, "text")
               PROVE  Literal(Len(trace) + 1, e.size) \in Seq(Bytes')
    OBVIOUS
  <2>1. e.size \in 0..MaxText /\ MaxText \in Nat
    BY EventFields, MarkdownAssumption DEF Enters, Done
  <2>2. \A b \in 1..e.size : <<Len(trace) + 1, b>> \in Bytes'
    BY <1>2, <2>1 DEF Bytes
  <2>3. Literal(Len(trace) + 1, e.size) \in [1..e.size -> Bytes']
    BY <2>2 DEF Literal
  <2>4. e.size \in Nat
    BY <2>1
  <2> QED BY <2>3, <2>4
<1> QED BY <1>1, <1>2, <1>4, <1>5, ConcatProperties DEF Appended

LEMMA SkipStep ==
    ASSUME SummaryInv, NEW e \in Event, NextEvent(e), SkipDocument
    PROVE  SummaryInv'
<1>1. /\ DocumentInv /\ DocumentInv' /\ Len(trace') = Len(trace) + 1
      /\ trace'[Len(trace) + 1] = e
      /\ title \in Seq(Bytes') /\ preview \in Seq(Bytes')
  BY Reads
<1>2. /\ phase = "skip" /\ phase' = "first" /\ title' = title
      /\ preview' = preview
  BY DEF SkipDocument
<1>3. trace = <<>> /\ title = <<>> /\ preview = <<>> /\ open = <<>>
  BY <1>1, <1>2 DEF SummaryInv, DocumentInv, Fits
<1>4. Enter(e) /\ e.kind = "document"
  BY <1>3 DEF NextEvent, Enter, Exit, Finish
<1>5. open' = <<"document">>
  BY <1>3, <1>4 DEF Enter, Leaves
<1>6. Len(trace') = 1 /\ trace'[1] = e
  BY <1>1, <1>3
<1>7. NoParagraph(trace')
  BY <1>4, <1>6 DEF NoParagraph, Enters
<1>8. AtFirst'
  BY <1>2, <1>3, <1>5, <1>6, <1>7 DEF AtFirst, NoParagraph, Enters
<1>9. SummaryTypeOK'
  BY <1>1, <1>2 DEF SummaryTypeOK, DocumentInv, Reading
<1> QED BY <1>1, <1>2, <1>8, <1>9 DEF SummaryInv

LEMMA HeadingStep ==
    ASSUME SummaryInv, NEW e \in Event, NextEvent(e), ExpectHeading(e)
    PROVE  SummaryInv'
<1>1. /\ DocumentInv /\ DocumentInv' /\ Len(trace') = Len(trace) + 1
      /\ trace \in Seq(Event) /\ trace' = Append(trace, e)
      /\ trace'[Len(trace) + 1] = e
      /\ title \in Seq(Bytes') /\ preview \in Seq(Bytes')
  BY Reads
<1>2. /\ phase = "first" /\ title' = title /\ preview' = preview
      /\ phase' = IF e.type # "ENTER" THEN "seek"
                  ELSE IF e.kind = "heading" THEN "title" ELSE "refused"
  BY DEF ExpectHeading
<1>3. /\ Len(trace) = 1 /\ Len(open) = 1 /\ title = <<>> /\ preview = <<>>
      /\ NoParagraph(trace)
  BY <1>2 DEF SummaryInv, AtFirst
<1>4. Len(trace') = 2 /\ trace'[2] = e
  BY <1>1, <1>3
<1>5. SummaryTypeOK'
  BY <1>1, <1>2 DEF SummaryTypeOK, DocumentInv, Reading
<1>6. CASE e.type # "ENTER"
  <2>1. TitleRead(trace', title')
    BY <1>4, <1>6 DEF TitleRead
  <2>2. NoParagraph(trace')
    BY <1>1, <1>3, <1>6, ParagraphsMore DEF Enters
  <2>3. AtSeek'
    BY <1>2, <1>3, <2>1, <2>2 DEF AtSeek
  <2> QED BY <1>1, <1>2, <1>5, <1>6, <2>3 DEF SummaryInv
<1>7. CASE e.type = "ENTER" /\ e.kind = "heading"
  <2>1. Enters(trace'[2], "heading") /\ ~Enters(e, "text")
        /\ ~Enters(e, "paragraph") /\ ~Quits(e, "heading")
    BY <1>4, <1>7 DEF Enters, Quits
  <2>2. open' = Append(open, "heading") /\ open \in Seq(AllKinds)
    <3>1. Enter(e)
      BY <1>7 DEF NextEvent, Exit, Finish, Done
    <3> QED BY <1>1, <1>7, <3>1 DEF Enter, Leaves, DocumentInv, DocumentTypeOK
  <2>3. Len(open') >= 2 /\ open'[2] = "heading"
    <3>1. Len(open') = Len(open) + 1 /\ open'[Len(open) + 1] = "heading"
      BY <2>2
    <3> QED BY <1>3, <3>1
  <2>4. /\ TextOf(trace', Through(trace', 2, "heading")) = <<>>
        /\ Within(trace', 2, "heading")
    BY <1>1, <1>4, <2>1, ThroughStart
  <2>5. NoParagraph(trace')
    BY <1>1, <1>3, <2>1, ParagraphsMore
  <2>6. AtTitle'
    <3>1. /\ Len(trace') >= 2 /\ title' = <<>> /\ preview' = <<>>
      BY <1>2, <1>3, <1>4
    <3> QED BY <2>1, <2>3, <2>4, <2>5, <3>1 DEF AtTitle
  <2> QED BY <1>1, <1>2, <1>5, <1>7, <2>6 DEF SummaryInv
<1>8. CASE e.type = "ENTER" /\ e.kind # "heading"
  BY <1>1, <1>2, <1>5, <1>8 DEF SummaryInv
<1> QED BY <1>6, <1>7, <1>8

(* A heading is open while the title is read: no paragraph is entered, and *)
(* the document does not end.                                              *)
LEMMA InHeading ==
    ASSUME SummaryInv, NEW e \in Event, NextEvent(e), AtTitle
    PROVE  /\ e # Done /\ ~Enters(e, "paragraph")
           /\ ~Quits(e, "heading") => Len(open') >= 2 /\ open'[2] = "heading"
<1>1. DocumentInv /\ DocumentInv' /\ open \in Seq(AllKinds)
  BY Reads DEF DocumentInv, DocumentTypeOK
<1> DEFINE n == Len(open)
<1>2. /\ n \in Nat /\ n >= 2 /\ open[2] = "heading"
      /\ trace # <<>> /\ 2 \in 1..n
  BY <1>1, EmptySeq DEF AtTitle
<1> HIDE DEF n
<1>3. e # Done
  <2>1. open # <<>>
    BY <1>2, EmptySeq DEF n
  <2> QED BY <2>1 DEF NextEvent, Enter, Exit, Finish, Done
<1>4. CASE Enter(e)
  <2>1. e.kind \in ChildrenOf(Last(open)) /\ e.kind \in AllKinds
    BY <1>2, <1>3, <1>4, EventFields DEF Enter
  <2>2. Last(open) \in Holders
    <3>1. CASE n = 2
      BY <1>2, <3>1 DEF Last, Holders, n
    <3>2. CASE n # 2
      <4>1. n \in 1..n /\ 2 < n
        BY <1>2, <3>2
      <4>2. open[n] \in Inlines /\ open[n] \notin Leaves
        BY <1>1, <1>2, <4>1 DEF DocumentInv, Fits, Holders, n
      <4> QED BY <4>2 DEF Last, Holders, Inlines, Leaves, n
    <3> QED BY <3>1, <3>2
  <2>3. e.kind \in Inlines
    BY <2>1, <2>2, Children
  <2>4. ~Enters(e, "paragraph")
    BY <2>3 DEF Enters, Inlines
  <2>5. open' = open \/ open' = Append(open, e.kind)
    BY <1>4 DEF Enter
  <2>6. Len(open') >= 2 /\ open'[2] = "heading"
    <3>1. CASE open' = open
      BY <1>2, <3>1 DEF n
    <3>2. CASE open' = Append(open, e.kind)
      <4>1. Len(open') = n + 1 /\ \A i \in 1..n : open'[i] = open[i]
        BY <1>1, <2>1, <3>2, AppendProperties DEF n
      <4> QED BY <1>2, <4>1
    <3> QED BY <2>5, <3>1, <3>2
  <2> QED BY <1>3, <2>4, <2>6
<1>5. CASE Exit(e)
  <2>1. e.type = "EXIT" /\ open' = Front(open) /\ e.kind = open[n] /\ open # <<>>
    BY <1>5 DEF Exit, Last, n
  <2>2. /\ Len(open') = n - 1
        /\ \A i \in 1..n - 1 : open'[i] = open[i]
    BY <1>1, <2>1, FrontProperties DEF n
  <2>3. ~Quits(e, "heading") => n # 2
    BY <1>2, <2>1 DEF Quits
  <2>4. n # 2 => Len(open') >= 2 /\ open'[2] = "heading"
    <3>1. n # 2 => 2 \in 1..n - 1 /\ n - 1 >= 2
      BY <1>2
    <3> QED BY <1>2, <2>2, <3>1
  <2> QED BY <1>3, <2>1, <2>3, <2>4 DEF Enters
<1> QED BY <1>3, <1>4, <1>5 DEF NextEvent, Finish

LEMMA TitleStep ==
    ASSUME SummaryInv, NEW e \in Event, NextEvent(e), BuildTitle(e)
    PROVE  SummaryInv'
<1>1. /\ DocumentInv /\ DocumentInv' /\ Len(trace') = Len(trace) + 1
      /\ trace \in Seq(Event) /\ trace' = Append(trace, e)
      /\ Len(trace) \in Nat
      /\ \A i \in 1..Len(trace) : trace'[i] = trace[i]
      /\ preview \in Seq(Bytes') /\ Appended(title, e) \in Seq(Bytes')
  BY Reads
<1>2. /\ phase = "title" /\ title' = Appended(title, e) /\ preview' = preview
      /\ phase' = IF ~EndsTitle(e) THEN "title"
                  ELSE IF title' = <<>> THEN "refused" ELSE "seek"
  BY DEF BuildTitle
<1>3. AtTitle
  BY <1>2 DEF SummaryInv
<1>4. SummaryTypeOK'
  BY <1>1, <1>2 DEF SummaryTypeOK, DocumentInv, Reading
<1>5. /\ 2 \in 1..Len(trace) + 1 /\ Len(trace') >= 2 /\ 2 \in 1..Len(trace)
      /\ Enters(trace'[2], "heading")
  BY <1>1, <1>3 DEF AtTitle
<1>6. title' = TextOf(trace', Through(trace', 2, "heading"))
  BY <1>1, <1>2, <1>3, <1>5, ThroughMore DEF AtTitle, Appended
<1>7. Within(trace', 2, "heading") <=> ~Quits(e, "heading")
  BY <1>1, <1>3, <1>5, WithinMore DEF AtTitle
<1>8. NoParagraph(trace') /\ e # Done
  BY <1>1, <1>3, InHeading, ParagraphsMore DEF AtTitle
<1>9. preview' = <<>>
  BY <1>2, <1>3 DEF AtTitle
<1>10. CASE ~EndsTitle(e)
  <2>1. ~Quits(e, "heading")
    BY <1>10 DEF EndsTitle
  <2>2. Len(open') >= 2 /\ open'[2] = "heading"
    BY <1>3, <2>1, InHeading
  <2>3. AtTitle'
    BY <1>5, <1>6, <1>7, <1>8, <1>9, <2>1, <2>2 DEF AtTitle
  <2> QED BY <1>1, <1>2, <1>4, <1>10, <2>3 DEF SummaryInv
<1>11. CASE EndsTitle(e) /\ title' # <<>>
  <2>1. Quits(e, "heading")
    BY <1>8, <1>11 DEF EndsTitle
  <2>2. TitleRead(trace', title')
    BY <1>5, <1>6, <1>7, <1>11, <2>1 DEF TitleRead
  <2>3. AtSeek'
    BY <1>8, <1>9, <2>2 DEF AtSeek
  <2> QED BY <1>1, <1>2, <1>4, <1>11, <2>3 DEF SummaryInv
<1>12. CASE EndsTitle(e) /\ title' = <<>>
  BY <1>1, <1>2, <1>4, <1>12 DEF SummaryInv
<1> QED BY <1>10, <1>11, <1>12

LEMMA SeekStep ==
    ASSUME SummaryInv, NEW e \in Event, NextEvent(e), Seek(e)
    PROVE  SummaryInv'
<1>1. /\ DocumentInv' /\ Len(trace') = Len(trace) + 1
      /\ trace \in Seq(Event) /\ trace' = Append(trace, e)
      /\ Len(trace) \in Nat
      /\ title \in Seq(Bytes') /\ preview \in Seq(Bytes')
  BY Reads
<1>2. /\ phase = "seek" /\ title' = title /\ preview' = preview
      /\ phase' = IF e = Done THEN "accepted"
                  ELSE IF Enters(e, "paragraph") THEN "preview" ELSE "seek"
  BY DEF Seek
<1>3. TitleRead(trace, title) /\ preview = <<>> /\ NoParagraph(trace)
  BY <1>2 DEF SummaryInv, AtSeek
<1>4. Len(preview) <= Limit
  BY <1>3, SummaryAssumption
<1>5. SummaryTypeOK'
  BY <1>1, <1>2, <1>4 DEF SummaryTypeOK, DocumentInv, Reading
<1>6. TitleRead(trace', title')
  BY <1>1, <1>2, <1>3, TitleKept
<1>7. NoParagraph(trace') <=> ~Enters(e, "paragraph")
  BY <1>1, <1>3, ParagraphsMore
<1>8. CASE e = Done
  <2>1. NoParagraph(trace')
    BY <1>7, <1>8 DEF Enters, Done
  <2>2. AtEnd'
    BY <1>6, <2>1 DEF AtEnd
  <2> QED BY <1>1, <1>2, <1>5, <1>8, <2>2 DEF SummaryInv
<1>9. CASE e # Done /\ Enters(e, "paragraph")
  <2>1. ~Enters(e, "text") /\ ~Quits(e, "paragraph")
    BY <1>9 DEF Enters, Quits
  <2>2. FirstParagraph(trace', Len(trace'))
    BY <1>1, <1>3, <1>9, ParagraphsMore
  <2>3. /\ TextOf(trace', Through(trace', Len(trace'), "paragraph")) = <<>>
        /\ Within(trace', Len(trace'), "paragraph")
    BY <1>1, <2>1, ThroughStart
  <2>4. AtPreview'
    <3>1. Len(trace') \in 1..Len(trace')
      BY <1>1
    <3> QED BY <1>2, <1>3, <1>6, <2>2, <2>3, <3>1 DEF AtPreview
  <2> QED BY <1>1, <1>2, <1>5, <1>9, <2>4 DEF SummaryInv
<1>10. CASE e # Done /\ ~Enters(e, "paragraph")
  <2>1. AtSeek'
    BY <1>2, <1>3, <1>6, <1>7, <1>10 DEF AtSeek
  <2> QED BY <1>1, <1>2, <1>5, <1>10, <2>1 DEF SummaryInv
<1> QED BY <1>8, <1>9, <1>10

LEMMA PreviewStep ==
    ASSUME SummaryInv, NEW e \in Event, NextEvent(e), BuildPreview(e)
    PROVE  SummaryInv'
<1> DEFINE stops == StopsPreview(e)
           text == IF stops THEN preview ELSE Appended(preview, e)
<1>1. /\ DocumentInv' /\ Len(trace') = Len(trace) + 1
      /\ trace \in Seq(Event) /\ trace' = Append(trace, e)
      /\ Len(trace) \in Nat
      /\ title \in Seq(Bytes') /\ preview \in Seq(Bytes')
      /\ Appended(preview, e) \in Seq(Bytes')
  BY Reads
<1>2. /\ phase = "preview" /\ title' = title
      /\ IF stops \/ Quits(e, "paragraph")
         THEN /\ preview' = Cut(text)
              /\ phase' = IF text = <<>> THEN "refused" ELSE "accepted"
         ELSE preview' = text /\ phase' = phase
  BY DEF BuildPreview
<1>3. TitleRead(trace, title)
  BY <1>2 DEF SummaryInv, AtPreview
<1>4. PICK i \in 1..Len(trace) :
         /\ FirstParagraph(trace, i) /\ Within(trace, i, "paragraph")
         /\ preview = TextOf(trace, Through(trace, i, "paragraph"))
  BY <1>2 DEF SummaryInv, AtPreview
<1>5. i \in 1..Len(trace) + 1 /\ i \in 1..Len(trace')
  BY <1>1
<1> DEFINE full == TextOf(trace', Through(trace', i, "paragraph"))
<1>6. full = Appended(preview, e)
  BY <1>1, <1>4, <1>5, ThroughMore DEF Appended
<1>7. TitleRead(trace', title') /\ FirstParagraph(trace', i)
  BY <1>1, <1>2, <1>3, <1>4, TitleKept, ParagraphsMore
<1> HIDE DEF full
<1>8. text \in Seq(Bytes')
  BY <1>1
<1>9. CASE stops \/ Quits(e, "paragraph")
  <2>1. /\ preview' = Cut(text)
        /\ phase' = IF text = <<>> THEN "refused" ELSE "accepted"
    BY <1>2, <1>9
  <2>2. /\ Cut(text) \in Seq(Bytes') /\ Len(Cut(text)) <= Limit
        /\ Cut(text) = <<>> <=> text = <<>>
    <3> HIDE DEF text
    <3> QED BY <1>8, CutProperties
  <2>3. Cut(text) = Cut(full)
    <3>1. CASE e = Done
      <4>1. text = preview /\ Appended(preview, e) = preview
        BY <3>1 DEF StopsPreview, Appended, Enters, Done
      <4> QED BY <1>6, <4>1
    <3>2. CASE Len(preview) >= Limit
      <4>1. text = preview
        BY <3>2 DEF StopsPreview
      <4>2. CASE Enters(e, "text")
        <5>1. full = preview \o Literal(Len(trace) + 1, e.size)
          BY <1>6, <4>2 DEF Appended
        <5>2. e.size \in 0..MaxText /\ Len(trace) + 1 \in Nat
          BY <1>1, <4>2, EventFields DEF Enters, Done
        <5>3. Literal(Len(trace) + 1, e.size) \in Seq(AnyBytes)
          BY <5>2, LiteralType
        <5>4. preview \in Seq(AnyBytes)
          BY <1>1, <1>4, TextType
        <5> HIDE DEF text
        <5> QED BY <3>2, <4>1, <5>1, <5>3, <5>4, CutProperties
      <4>3. CASE ~Enters(e, "text")
        BY <1>6, <4>1, <4>3 DEF Appended
      <4> QED BY <4>2, <4>3
    <3>3. CASE ~stops
      BY <1>6, <3>3
    <3> QED BY <3>1, <3>2, <3>3 DEF StopsPreview
  <2> HIDE DEF text
  <2>4. SummaryTypeOK'
    BY <1>1, <1>2, <2>1, <2>2 DEF SummaryTypeOK, DocumentInv, Reading
  <2>5. CASE text = <<>>
    BY <1>1, <2>1, <2>4, <2>5 DEF SummaryInv
  <2>6. CASE text # <<>>
    <3>1. AtEnd'
      BY <1>5, <1>7, <2>1, <2>2, <2>3, <2>6 DEF AtEnd, full
    <3> QED BY <1>1, <2>1, <2>4, <2>6, <3>1 DEF SummaryInv
  <2> QED BY <2>5, <2>6
<1>10. CASE ~(stops \/ Quits(e, "paragraph"))
  <2>1. preview' = full /\ phase' = "preview" /\ preview' \in Seq(Bytes')
    BY <1>1, <1>2, <1>6, <1>10
  <2>2. Within(trace', i, "paragraph")
    BY <1>1, <1>4, <1>5, <1>10, WithinMore
  <2>3. AtPreview'
    BY <1>5, <1>7, <2>1, <2>2 DEF AtPreview, full
  <2>4. SummaryTypeOK'
    BY <1>1, <1>2, <2>1 DEF SummaryTypeOK, DocumentInv, Reading
  <2> QED BY <1>1, <2>1, <2>3, <2>4 DEF SummaryInv
<1> QED BY <1>9, <1>10

LEMMA SummaryInductive == SummaryInv /\ [SummaryNext]_summaryVars => SummaryInv'
<1> SUFFICES ASSUME SummaryInv, [SummaryNext]_summaryVars PROVE SummaryInv'
  OBVIOUS
<1>1. CASE UNCHANGED summaryVars
  <2>1. /\ open' = open /\ trace' = trace /\ phase' = phase
        /\ title' = title /\ preview' = preview
    BY <1>1 DEF summaryVars, document
  <2>2. SummaryTypeOK' /\ DocumentInv'
    BY <2>1 DEF SummaryInv, SummaryTypeOK, DocumentInv, DocumentTypeOK, Fits,
       Bytes
  <2>3. /\ AtFirst' = AtFirst /\ AtTitle' = AtTitle /\ AtSeek' = AtSeek
        /\ AtPreview' = AtPreview /\ AtEnd' = AtEnd
    BY <2>1 DEF AtFirst, AtTitle, AtSeek, AtPreview, AtEnd
  <2> QED BY <2>1, <2>2, <2>3 DEF SummaryInv
<1>2. CASE SummaryNext
  BY <1>2, SkipStep, HeadingStep, TitleStep, SeekStep, PreviewStep
     DEF SummaryNext, Read
<1> QED BY <1>1, <1>2

LEMMA SummaryStart == SummaryInit => SummaryInv
<1> SUFFICES ASSUME SummaryInit PROVE SummaryInv
  OBVIOUS
<1>1. DocumentInv /\ phase = "skip" /\ trace = <<>>
      /\ title = <<>> /\ preview = <<>>
  BY DocumentStart DEF SummaryInit, DocumentInit
<1>2. SummaryTypeOK
  BY <1>1 DEF SummaryTypeOK, DocumentInv, Reading
<1> QED BY <1>1, <1>2 DEF SummaryInv

(* What holds of the title and the preview in every phase.                 *)
THEOREM SummaryAlways == SummarySpec => []SummaryInv
BY SummaryStart, SummaryInductive, PTL DEF SummarySpec

(* Titles and previews are made of bytes of the document's texts, and a    *)
(* preview that is stored fits.                                            *)
THEOREM SummaryTyped == SummarySpec => []SummaryTypeOK
<1>1. SummaryInv => SummaryTypeOK
  BY DEF SummaryInv
<1> QED BY <1>1, SummaryAlways, PTL

(* Whatever is accepted with a block has a heading first, and all of its   *)
(* text is the title.                                                      *)
THEOREM TitleIsTheHeading == SummarySpec => []TitleIsHeading
<1>1. SummaryInv => TitleIsHeading
  BY DEF SummaryInv, TitleIsHeading, AtEnd, TitleRead
<1> QED BY <1>1, SummaryAlways, PTL

(* The preview is the beginning of the first paragraph's text.             *)
THEOREM PreviewIsTheParagraph == SummarySpec => []PreviewIsParagraph
<1>1. SummaryInv => PreviewIsParagraph
  <2> SUFFICES ASSUME SummaryInv, phase = "accepted",
                      NEW first \in Paragraphs,
                      \A i \in Paragraphs : first <= i
               PROVE  /\ preview # <<>>
                      /\ preview =
                         Cut(TextOf(trace, Through(trace, first, "paragraph")))
    BY DEF PreviewIsParagraph
  <2>1. trace \in Seq(Event) /\ AtEnd
    BY DEF SummaryInv, DocumentInv, DocumentTypeOK
  <2>2. DOMAIN trace = 1..Len(trace) /\ Len(trace) \in Nat
    BY <2>1, LenProperties
  <2>3. first \in 1..Len(trace) /\ Enters(trace[first], "paragraph")
    BY <2>2 DEF Paragraphs
  <2>4. PICK i \in 1..Len(trace) :
           /\ FirstParagraph(trace, i)
           /\ preview # <<>>
           /\ preview = Cut(TextOf(trace, Through(trace, i, "paragraph")))
    BY <2>1, <2>3 DEF AtEnd, NoParagraph
  <2>5. i <= first /\ i \in Paragraphs
    BY <2>2, <2>3, <2>4 DEF FirstParagraph, Paragraphs
  <2>6. i = first
    BY <2>2, <2>3, <2>5
  <2> QED BY <2>4, <2>6
<1> QED BY <1>1, SummaryAlways, PTL

=============================================================================

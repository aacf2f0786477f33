-------------------------- MODULE ShareLifeProofs --------------------------
(***************************************************************************)
(* What the parser reads of a share, for every page that parses, and what  *)
(* becomes of it while the conversation grows, for conversations of any    *)
(* size and limits of any size.                                            *)
(*                                                                         *)
(* Every stage of the climb of ancestry is a chain of parents              *)
(* (AncestryIsChain), and the set above a node of a rooted chain is what   *)
(* comes before it (AboveInChain): with the parser's own checks this is    *)
(* what ReadsTheShownBranch and CompleteHasNoGap say.  The inductive       *)
(* invariant LifeInv adds what ChatGPT keeps of a conversation (ConvInv:   *)
(* every node below an earlier one), that nodes have names (PageInv), and  *)
(* that the snapshot applied last is still what is read of the branch it   *)
(* was made of (AppliedInv).  A rooted chain to a node is unique           *)
(* (RootedIsUnique), so that the list of the page is the parser's chain,   *)
(* and reading a list that begins with the applied branch begins with what *)
(* was applied (ReadPrefix).                                               *)
(***************************************************************************)
EXTENDS ShareLife, ListProofs

-----------------------------------------------------------------------------
(* Chains of parents *)

\* Nodes each of which is the parent of the next, down to the current one.
IsChain(p, s) ==
  /\ s # <<>> /\ s[Len(s)] = p.current
  /\ \A i \in 2..Len(s) :
       s[i] \in NodesOf(p) /\ ParentOf(p, s[i]) = s[i - 1] /\ s[i - 1] # None

\* From a node without a parent.
IsRooted(p, s) == s[1] \in NodesOf(p) /\ ParentOf(p, s[1]) = None

Values(p) == {p.current} \cup {ParentOf(p, n) : n \in NodesOf(p)}
Chains(p) == {s \in Seq(Values(p)) : IsChain(p, s)}

ClimbStep(p, t) ==
  IF Head(t) \notin NodesOf(p) \/ ParentOf(p, Head(t)) = None THEN t
  ELSE <<ParentOf(p, Head(t))>> \o t

Climbs(f, p, K) ==
  /\ f[0] = <<p.current>>
  /\ \A n \in 1..K : f[n] = ClimbStep(p, f[n - 1])

LEMMA ChainStarts ==
  ASSUME NEW p
  PROVE  <<p.current>> \in Chains(p)
<1> DEFINE c == p.current s == <<c>>
<1>1. c \in Values(p)
  BY DEF Values
<1>2. s \in Seq(Values(p)) /\ s # <<>> /\ Len(s) = 1 /\ s[Len(s)] = c
  BY <1>1
<1>3. 2..Len(s) = {}
  BY <1>2
<1> HIDE DEF s
<1>4. s \in Chains(p)
  BY <1>2, <1>3 DEF Chains, IsChain
<1> QED
  BY <1>4 DEF s

LEMMA ChainShape ==
  ASSUME NEW p, NEW s \in Chains(p)
  PROVE  /\ s \in Seq(Values(p)) /\ s # <<>> /\ IsChain(p, s)
         /\ Len(s) \in Nat \ {0} /\ DOMAIN s = 1..Len(s) /\ Head(s) = s[1]
<1>1. s \in Seq(Values(p)) /\ IsChain(p, s)
  BY DEF Chains
<1>2. s # <<>>
  BY <1>1 DEF IsChain
<1> QED
  BY <1>1, <1>2

\* A step of ancestry adds the parent, or the chain has come to its end.
LEMMA ChainStep ==
  ASSUME NEW p, NEW s \in Chains(p)
  PROVE  /\ ClimbStep(p, s) \in Chains(p)
         /\ IsRooted(p, s) => ClimbStep(p, s) = s
         /\ s[1] \in NodesOf(p) /\ ~IsRooted(p, s) =>
              Len(ClimbStep(p, s)) = Len(s) + 1 /\ ClimbStep(p, s)[1] = ParentOf(p, s[1])
<1> DEFINE V == Values(p)
           up == ParentOf(p, s[1])
           t == <<up>> \o s
           L == Len(s)
<1>1. s \in Seq(V) /\ s # <<>> /\ IsChain(p, s) /\ L \in Nat \ {0} /\ Head(s) = s[1]
  BY ChainShape
<1>2. ClimbStep(p, s) = IF s[1] \notin NodesOf(p) \/ up = None THEN s ELSE t
  BY <1>1 DEF ClimbStep
<1>3. s[1] \in NodesOf(p) => up \in V
  BY DEF Values
<1>4. /\ s[L] = p.current
      /\ \A i \in 2..L : s[i] \in NodesOf(p) /\ ParentOf(p, s[i]) = s[i - 1] /\ s[i - 1] # None
  BY <1>1 DEF IsChain
<1>5. up \in V => /\ t \in Seq(V) /\ Len(t) = L + 1 /\ t[1] = up
                  /\ \A i \in 1..L : t[i + 1] = s[i]
  <2> HIDE DEF V, up
  <2> QED
    BY <1>1
<1> HIDE DEF t, V, L
<1>6. ASSUME s[1] \in NodesOf(p), up # None PROVE t \in Chains(p)
  <2>1. /\ t \in Seq(V) /\ Len(t) = L + 1 /\ t[1] = up
        /\ \A i \in 1..L : t[i + 1] = s[i]
    BY <1>3, <1>5, <1>6
  <2>2. t # <<>>
    BY <1>1, <2>1
  <2>3. t[Len(t)] = p.current
    <3>1. L \in 1..L
      BY <1>1
    <3> QED
      BY <1>4, <2>1, <3>1
  <2>4. ASSUME NEW i \in 2..Len(t)
        PROVE  t[i] \in NodesOf(p) /\ ParentOf(p, t[i]) = t[i - 1] /\ t[i - 1] # None
    <3> DEFINE j == i - 1
    <3>1. j \in 1..L /\ i = j + 1
      BY <1>1, <2>1
    <3>2. t[i] = s[j]
      BY <2>1, <3>1
    <3>3. CASE j = 1
      BY <1>6, <2>1, <3>2, <3>3
    <3>4. CASE j # 1
      <4>1. j \in 2..L /\ j - 1 \in 1..L /\ j = (j - 1) + 1
        BY <1>1, <3>1, <3>4
      <4>2. t[j] = s[j - 1]
        <5> DEFINE k == j - 1
        <5>1. k \in 1..L /\ j = k + 1
          BY <4>1
        <5> HIDE DEF k, j
        <5>2. t[j] = s[k]
          BY <2>1, <5>1
        <5> QED
          BY <5>2 DEF k
      <4>3. t[i - 1] = t[j]
        OBVIOUS
      <4> HIDE DEF j
      <4> QED
        BY <1>4, <3>2, <4>1, <4>2, <4>3
    <3> QED
      BY <3>3, <3>4
  <2>5. IsChain(p, t)
    BY <2>2, <2>3, <2>4 DEF IsChain
  <2> QED
    BY <2>1, <2>5 DEF Chains, V
<1>7. ClimbStep(p, s) \in Chains(p)
  BY <1>2, <1>6
<1>8. IsRooted(p, s) => ClimbStep(p, s) = s
  BY <1>2 DEF IsRooted
<1>9. ASSUME s[1] \in NodesOf(p), ~IsRooted(p, s)
      PROVE  Len(ClimbStep(p, s)) = L + 1 /\ ClimbStep(p, s)[1] = up
  <2>1. up # None
    BY <1>9 DEF IsRooted
  <2> QED
    BY <1>2, <1>3, <1>5, <1>9, <2>1
<1> QED
  BY <1>7, <1>8, <1>9 DEF L

LEMMA AncestryIsDefined ==
  ASSUME NEW p
  PROVE  \E f : Climbs(f, p, MaxDepth) /\ Ancestry(p) = f[MaxDepth]
<1> DEFINE N == MaxDepth
           T == Chains(p)
           first == <<p.current>>
           step == [n \in 1..N |-> [t \in T |-> ClimbStep(p, t)]]
           Body(g) ==
             [k \in 0..N |->
                IF k = 0 THEN <<p.current>>
                ELSE IF Head(g[k - 1]) \notin NodesOf(p) \/ ParentOf(p, Head(g[k - 1])) = None
                THEN g[k - 1]
                ELSE <<ParentOf(p, Head(g[k - 1]))>> \o g[k - 1]]
           f == CHOOSE g : g = Body(g)
<1>0. N \in Nat
  BY LimitsAssumption
<1>1. Ancestry(p) = f[N]
  BY Zenon DEF Ancestry
<1>2. first \in T
  BY ChainStarts
<1>3. \A t \in T : ClimbStep(p, t) \in T
  BY ChainStep
<1>4. \A g : Body(g)[0] = first
  BY <1>0
<1>5. \A g : \A n \in 1..N : Body(g)[n] = ClimbStep(p, g[n - 1])
  <2> SUFFICES ASSUME NEW g, NEW n \in 1..N PROVE Body(g)[n] = ClimbStep(p, g[n - 1])
    OBVIOUS
  <2>1. n \in 0..N /\ n # 0
    BY <1>0
  <2>2. Body(g)[n] =
          IF Head(g[n - 1]) \notin NodesOf(p) \/ ParentOf(p, Head(g[n - 1])) = None
          THEN g[n - 1]
          ELSE <<ParentOf(p, Head(g[n - 1]))>> \o g[n - 1]
    BY <2>1, Zenon
  <2> QED
    BY <2>2, Zenon DEF ClimbStep
<1> HIDE DEF T, first
<1>7. step \in Steps(N, T)
  BY <1>3 DEF Steps
<1>8. \A n \in 1..N, t \in T : step[n][t] = ClimbStep(p, t)
  OBVIOUS
<1> HIDE DEF step, N
<1>9. PICK h : Follows(h, N, T, first, step)
  BY <1>0, <1>2, <1>7, RecursionIsDefined
<1>10. h \in [0..N -> T] /\ h[0] = first /\ \A n \in 1..N : h[n] = step[n][h[n - 1]]
  BY <1>9 DEF Follows
<1>11. \A n \in 1..N : h[n] = ClimbStep(p, h[n - 1])
  <2>1. \A n \in 1..N : h[n - 1] \in T
    BY <1>0, <1>10
  <2> QED
    BY <2>1, <1>8, <1>10
<1>12. \A n \in 0..N : n = 0 \/ n \in 1..N
  BY <1>0
<1>13. \A g : Body(g) = [n \in 0..N |-> Body(g)[n]]
  OBVIOUS
<1> HIDE DEF Body
<1>14. h = Body(h)
  <2>1. ASSUME NEW n \in 0..N PROVE h[n] = Body(h)[n]
    BY <1>4, <1>5, <1>10, <1>11, <1>12
  <2>2. h = [n \in 0..N |-> h[n]]
    BY <1>10
  <2> QED
    BY <2>1, <2>2, <1>13
<1>15. f = Body(f)
  BY <1>14
<1> HIDE DEF f
<1>16. f[0] = first /\ \A n \in 1..N : f[n] = ClimbStep(p, f[n - 1])
  BY <1>4, <1>5, <1>15
<1>17. Climbs(f, p, MaxDepth)
  BY <1>16 DEF Climbs, first, N
<1> QED
  BY <1>1, <1>17 DEF N

\* Every stage of a climb is a chain: one step longer than the one before, or the last.
LEMMA ClimbsChains ==
  ASSUME NEW p, NEW K \in Nat, NEW f, Climbs(f, p, K)
  PROVE  \A n \in 0..K : f[n] \in Chains(p)
<1> DEFINE P == {n \in 0..K : f[n] \in Chains(p)}
<1>1. f[0] = <<p.current>> /\ \A n \in 1..K : f[n] = ClimbStep(p, f[n - 1])
  BY DEF Climbs
<1>2. 0 \in P
  BY <1>1, ChainStarts
<1>3. ASSUME NEW n \in 1..K, n - 1 \in P PROVE n \in P
  <2>1. f[n - 1] \in Chains(p) /\ n \in 0..K
    BY <1>3
  <2> DEFINE s == f[n - 1]
  <2> HIDE DEF s
  <2>2. s \in Chains(p)
    BY <2>1 DEF s
  <2>3. ClimbStep(p, s) \in Chains(p)
    BY <2>2, ChainStep
  <2>4. f[n] = ClimbStep(p, s)
    BY <1>1 DEF s
  <2> QED
    BY <2>1, <2>3, <2>4
<1>4. \A n \in 0..K : n \in P
  <2> HIDE DEF P
  <2> QED
    BY <1>2, <1>3, UpTo
<1> QED
  BY <1>4

LEMMA AncestryIsChain ==
  ASSUME NEW p
  PROVE  Ancestry(p) \in Chains(p)
<1>1. PICK f : Climbs(f, p, MaxDepth) /\ Ancestry(p) = f[MaxDepth]
  BY AncestryIsDefined
<1>2. MaxDepth \in Nat /\ MaxDepth \in 0..MaxDepth
  BY LimitsAssumption
<1>3. \A n \in 0..MaxDepth : f[n] \in Chains(p)
  BY <1>1, <1>2, ClimbsChains
<1> QED
  BY <1>1, <1>2, <1>3

-----------------------------------------------------------------------------
(* What is above a node *)

Closed(p, up) == \A m \in up : ParentOf(p, m) \in up \cup {None}

\* The nodes above one of a rooted chain are those before it in the chain.
LEMMA AboveInChain ==
  ASSUME NEW p, NEW s \in Chains(p), IsRooted(p, s), NEW k \in 1..Len(s)
  PROVE  UpSet(p, s[k]) = {s[i] : i \in 1..k}
<1> DEFINE C == {s[i] : i \in 1..k}
           n == s[k]
           Least(up) == \A other \in SUBSET up : n \in other /\ Closed(p, other) => other = up
<1>1. Len(s) \in Nat \ {0} /\ IsChain(p, s)
  BY ChainShape
<1>2. \A i \in 2..Len(s) : s[i] \in NodesOf(p) /\ ParentOf(p, s[i]) = s[i - 1] /\ s[i - 1] # None
  BY <1>1 DEF IsChain
<1>3. s[1] \in NodesOf(p) /\ ParentOf(p, s[1]) = None
  BY DEF IsRooted
<1>4. C \in SUBSET NodesOf(p) /\ n \in C
  <2>1. \A i \in 1..k : i = 1 \/ i \in 2..Len(s)
    BY <1>1
  <2>2. k \in 1..k
    BY <1>1
  <2> QED
    BY <1>2, <1>3, <2>1, <2>2
<1>5. Closed(p, C)
  <2> SUFFICES ASSUME NEW i \in 1..k PROVE ParentOf(p, s[i]) \in C \cup {None}
    BY DEF Closed
  <2>1. CASE i = 1
    BY <1>3, <2>1
  <2>2. CASE i # 1
    <3>1. i \in 2..Len(s) /\ i - 1 \in 1..k
      BY <1>1, <2>2
    <3> QED
      BY <1>2, <3>1
  <2> QED
    BY <2>1, <2>2
<1>6. ASSUME NEW up, n \in up, Closed(p, up) PROVE C \subseteq up
  <2> DEFINE P == {j \in 0..(k - 1) : s[k - j] \in up}
  <2>1. 0 \in P
    <3>1. k - 0 = k /\ 0 \in 0..(k - 1)
      BY <1>1
    <3> QED
      BY <1>6, <3>1
  <2>2. ASSUME NEW j \in 1..(k - 1), j - 1 \in P PROVE j \in P
    <3> DEFINE i == k - j
    <3>1. /\ i \in Nat /\ i + 1 \in 2..Len(s)
          /\ k - (j - 1) = i + 1 /\ i + 1 - 1 = i /\ j \in 0..(k - 1)
      BY <1>1
    <3> HIDE DEF i
    <3>2. s[i + 1] \in up
      BY <2>2, <3>1
    <3>3. ParentOf(p, s[i + 1]) = s[i] /\ s[i] # None
      BY <1>2, <3>1
    <3>4. s[i] \in up
      BY <1>6, <3>2, <3>3 DEF Closed
    <3> QED
      BY <3>1, <3>4 DEF i
  <2>3. \A j \in 0..(k - 1) : j \in P
    <3>1. k - 1 \in Nat
      BY <1>1
    <3> DEFINE K == k - 1
    <3> HIDE DEF P, K
    <3>2. K \in Nat /\ 0 \in P /\ \A j \in 1..K : j - 1 \in P => j \in P
      BY <3>1, <2>1, <2>2 DEF K
    <3>3. \A j \in 0..K : j \in P
      BY <3>2, UpTo
    <3> QED
      BY <3>3 DEF K
  <2>4. ASSUME NEW i \in 1..k PROVE s[i] \in up
    <3> DEFINE j == k - i
    <3>1. j \in 0..(k - 1) /\ k - j = i
      BY <1>1
    <3> HIDE DEF j
    <3>2. s[k - j] \in up
      BY <2>3, <3>1
    <3> QED
      BY <3>1, <3>2
  <2> QED
    BY <2>4
<1> HIDE DEF C, n
<1>7. Least(C)
  BY <1>6
<1>8. ASSUME NEW up \in SUBSET NodesOf(p), n \in up, Closed(p, up), Least(up) PROVE up = C
  BY <1>4, <1>5, <1>6, <1>8
<1>9. UpSet(p, n) = CHOOSE up \in SUBSET NodesOf(p) : n \in up /\ Closed(p, up) /\ Least(up)
  BY Zenon DEF UpSet, Closed
<1> HIDE DEF Least
<1>10. UpSet(p, n) = C
  BY <1>4, <1>5, <1>7, <1>8, <1>9
<1> QED
  BY <1>10 DEF C, n

-----------------------------------------------------------------------------
(* The conversation *)

IsNode(x) ==
  x = [id |-> x.id, parent |-> x.parent, children |-> x.children, message |-> x.message]

\* N nodes, each below earlier ones, whose children are what says so too.
IsConversation(c, N) ==
  /\ c = [mapping |-> c.mapping, current |-> c.current]
  /\ NodesOf(c) = 1..N /\ c.current \in 1..N
  /\ \A n \in 1..N :
       /\ IsNode(c.mapping[n]) /\ c.mapping[n].id = n
       /\ ParentOf(c, n) \in 1..(n - 1) \cup {None}
       /\ c.mapping[n].children \in Seq(1..N)
       /\ c.mapping[n].message # None => c.mapping[n].message.id = n
  /\ \A m, n \in 1..N : n \in ToSet(c.mapping[m].children) <=> ParentOf(c, n) = m

ConvInv == \E N \in 1..Size : IsConversation(conv, N)

\* What nobody said later changes no message.
SameMessages(c, d) ==
  /\ NodesOf(c) \subseteq NodesOf(d)
  /\ \A n \in NodesOf(c) : d.mapping[n].message = c.mapping[n].message

LEMMA NewNode ==
  ASSUME NEW n \in Nat, NEW parent, NEW content
  PROVE  LET x == Node(n, parent, <<>>, content)
         IN  /\ IsNode(x) /\ x.id = n /\ x.parent = parent /\ x.children = <<>>
             /\ x.message # None => x.message.id = n
<1> DEFINE x == Node(n, parent, <<>>, content)
<1>1. IsNode(x) /\ x.id = n /\ x.parent = parent /\ x.children = <<>>
  BY DEF Node, IsNode
<1>2. x.message = Message(n, content)
  BY DEF Node
<1>3. Message(n, content) # None => Message(n, content).id = n
  BY DEF Message
<1> QED
  BY <1>1, <1>2, <1>3

LEMMA ConvInit ==
  LifeInit => ConvInv
<1> SUFFICES ASSUME LifeInit PROVE ConvInv
  OBVIOUS
<1>1. PICK content \in Contents \cup {None} :
        conv = [mapping |-> [n \in {1} |-> Node(1, None, <<>>, content)], current |-> 1]
  BY DEF LifeInit
<1> DEFINE x == Node(1, None, <<>>, content)
<1>2. conv = [mapping |-> conv.mapping, current |-> conv.current]
  BY <1>1
<1>3. /\ conv.current = 1 /\ NodesOf(conv) = {1} /\ conv.mapping[1] = x
  BY <1>1 DEF NodesOf
<1>4. /\ IsNode(x) /\ x.id = 1 /\ x.parent = None /\ x.children = <<>>
      /\ x.message # None => x.message.id = 1
  BY NewNode
<1>5. ToSet(x.children) = {} /\ x.children \in Seq(1..1)
  <2>1. <<>> \in Seq(1..1)
    OBVIOUS
  <2> HIDE DEF x
  <2> QED
    BY <1>4, <2>1, EmptySet
<1> HIDE DEF x
<1>6. 1..1 = {1} /\ 1 \in 1..Size
  BY SizeAssumption
<1>7. ParentOf(conv, 1) = None /\ 1 # None
  BY <1>3, <1>4, NoneAssumption DEF ParentOf
<1>8. IsConversation(conv, 1)
  BY <1>2, <1>3, <1>4, <1>5, <1>6, <1>7 DEF IsConversation
<1> QED
  BY <1>6, <1>8 DEF ConvInv

LEMMA GrowConversation ==
  ASSUME NEW N \in 1..Size, IsConversation(conv, N), NEW parent \in 1..N, NEW content,
         Grow(parent, content)
  PROVE  N + 1 \in 1..Size /\ IsConversation(conv', N + 1) /\ SameMessages(conv, conv')
<1> DEFINE new == N + 1
           x == Node(new, parent, <<>>, content)
           c == conv
           d == conv'
<1>0. /\ Size \in Nat /\ N \in Nat /\ 1 <= N
      /\ new \in Nat /\ 1..new = 1..N \cup {new} /\ new \notin 1..N
  BY SizeAssumption
<1>1. /\ c = [mapping |-> c.mapping, current |-> c.current]
      /\ NodesOf(c) = 1..N /\ DOMAIN c.mapping = 1..N
      /\ \A n \in 1..N :
           /\ IsNode(c.mapping[n]) /\ c.mapping[n].id = n
           /\ ParentOf(c, n) \in 1..(n - 1) \cup {None}
           /\ c.mapping[n].children \in Seq(1..N)
           /\ c.mapping[n].message # None => c.mapping[n].message.id = n
      /\ \A m, n \in 1..N : n \in ToSet(c.mapping[m].children) <=> ParentOf(c, n) = m
  BY DEF IsConversation, NodesOf
<1>2. Cardinality(1..N) = N
  <2>1. 1 \in Int /\ N \in Int
    BY <1>0
  <2>2. Cardinality(1..N) = IF 1 > N THEN 0 ELSE N - 1 + 1
    BY <2>1, FS_Interval
  <2> QED
    BY <1>0, <2>2
<1>3. Cardinality(DOMAIN c.mapping) + 1 = new
  BY <1>1, <1>2
<1> DEFINE Changed(m) ==
             IF m = new THEN x
             ELSE IF m = parent THEN [c.mapping[m] EXCEPT !.children = Append(@, new)]
             ELSE c.mapping[m]
<1>4. /\ new <= Size
      /\ d = [mapping |-> [m \in DOMAIN c.mapping \cup {new} |-> Changed(m)], current |-> new]
  BY <1>3 DEF Grow
<1>5. /\ d = [mapping |-> d.mapping, current |-> d.current] /\ d.current = new
      /\ NodesOf(d) = 1..new /\ \A m \in 1..new : d.mapping[m] = Changed(m)
  BY <1>0, <1>1, <1>4 DEF NodesOf
<1>6. d.mapping[new] = x
  BY <1>0, <1>5
<1>7. /\ IsNode(x) /\ x.id = new /\ x.parent = parent /\ x.children = <<>>
      /\ x.message # None => x.message.id = new
  BY <1>0, NewNode
<1>8. ToSet(x.children) = {} /\ x.children \in Seq(1..new)
  <2>1. <<>> \in Seq(1..new)
    OBVIOUS
  <2> HIDE DEF x
  <2> QED
    BY <1>7, <2>1, EmptySet
<1> DEFINE old == c.mapping[parent].children
           more == Append(old, new)
<1>9. /\ d.mapping[parent] = [c.mapping[parent] EXCEPT !.children = more]
      /\ \A m \in (1..N) \ {parent} : d.mapping[m] = c.mapping[m]
  BY <1>0, <1>5
<1> HIDE DEF x, Changed, new, c, d
<1>10. old \in Seq(1..N) /\ old \in Seq(1..new) /\ more \in Seq(1..new)
       /\ ToSet(more) = ToSet(old) \cup {new}
  <2>1. old \in Seq(1..N)
    BY <1>1
  <2> HIDE DEF old
  <2>2. old \in Seq(1..new)
    BY <1>0, <2>1, SequenceWithin DEF ToSet
  <2>3. new \in 1..new
    BY <1>0
  <2> QED
    BY <2>1, <2>2, <2>3, AppendedSet
<1>11. /\ IsNode(d.mapping[parent]) /\ d.mapping[parent].id = parent
       /\ d.mapping[parent].parent = c.mapping[parent].parent
       /\ d.mapping[parent].children = more
       /\ d.mapping[parent].message = c.mapping[parent].message
  <2> DEFINE y == c.mapping[parent]
  <2>1. IsNode(y) /\ y.id = parent
    BY <1>1
  <2>2. y = [id |-> y.id, parent |-> y.parent, children |-> y.children, message |-> y.message]
    BY <2>1 DEF IsNode
  <2> HIDE DEF y, more
  <2>3. d.mapping[parent] =
          [id |-> y.id, parent |-> y.parent, children |-> more, message |-> y.message]
    BY <1>9, <2>2 DEF y
  <2> QED
    BY <2>1, <2>3 DEF IsNode, y
<1> HIDE DEF more, old
<1>12. ASSUME NEW n \in 1..N
       PROVE  /\ IsNode(d.mapping[n]) /\ d.mapping[n].id = n
              /\ ParentOf(d, n) = ParentOf(c, n)
              /\ d.mapping[n].message = c.mapping[n].message
              /\ d.mapping[n].children \in Seq(1..new)
              /\ ToSet(d.mapping[n].children) =
                   ToSet(c.mapping[n].children) \cup (IF n = parent THEN {new} ELSE {})
  <2>1. CASE n = parent
    BY <1>10, <1>11, <2>1 DEF ParentOf, old
  <2>2. CASE n # parent
    <3>1. d.mapping[n] = c.mapping[n]
      BY <1>9, <2>2
    <3>2. c.mapping[n].children \in Seq(1..N)
      BY <1>1
    <3>3. ToSet(c.mapping[n].children) \subseteq 1..new
      BY <1>0, <3>2 DEF ToSet
    <3>4. c.mapping[n].children \in Seq(1..new)
      BY <3>2, <3>3, SequenceWithin
    <3> QED
      BY <1>1, <2>2, <3>1, <3>4 DEF ParentOf
  <2> QED
    BY <2>1, <2>2
<1>13. ParentOf(d, new) = parent
  BY <1>6, <1>7 DEF ParentOf
<1>14. ASSUME NEW n \in 1..new
       PROVE  /\ IsNode(d.mapping[n]) /\ d.mapping[n].id = n
              /\ ParentOf(d, n) \in 1..(n - 1) \cup {None}
              /\ d.mapping[n].children \in Seq(1..new)
              /\ d.mapping[n].message # None => d.mapping[n].message.id = n
  <2>1. CASE n = new
    <3>1. parent \in 1..(new - 1)
      BY <1>0 DEF new
    <3> QED
      BY <1>6, <1>7, <1>8, <1>13, <2>1, <3>1
  <2>2. CASE n # new
    <3>1. n \in 1..N
      BY <1>0, <2>2
    <3> QED
      BY <1>1, <1>12, <3>1
  <2> QED
    BY <2>1, <2>2
<1>15. ASSUME NEW m \in 1..new, NEW n \in 1..new
       PROVE  n \in ToSet(d.mapping[m].children) <=> ParentOf(d, n) = m
  <2>1. \A k \in 1..N : ToSet(c.mapping[k].children) \subseteq 1..N
    BY <1>1 DEF ToSet
  <2>2. \A k \in 1..N : ParentOf(c, k) # new
    <3>1. ASSUME NEW k \in 1..N PROVE ParentOf(c, k) # new
      <4>1. ParentOf(c, k) \in 1..(k - 1) \cup {None}
        BY <1>1
      <4>2. new \notin 1..(k - 1)
        BY <1>0 DEF new
      <4>3. new # None
        BY <1>0, NoneAssumption
      <4> QED
        BY <4>1, <4>2, <4>3
    <3> QED
      BY <3>1
  <2>3. CASE m = new
    <3>1. ToSet(d.mapping[m].children) = {}
      BY <1>6, <1>8, <2>3
    <3>2. CASE n = new
      BY <1>0, <1>13, <2>3, <3>1, <3>2
    <3>3. CASE n # new
      <4>1. n \in 1..N
        BY <1>0, <3>3
      <4> QED
        BY <1>12, <2>2, <2>3, <3>1, <4>1
    <3> QED
      BY <3>2, <3>3
  <2>4. CASE m # new
    <3>1. m \in 1..N
      BY <1>0, <2>4
    <3>2. ToSet(d.mapping[m].children) =
            ToSet(c.mapping[m].children) \cup (IF m = parent THEN {new} ELSE {})
      BY <1>12, <3>1
    <3>3. CASE n = new
      <4>1. n \notin ToSet(c.mapping[m].children)
        BY <1>0, <2>1, <3>1, <3>3
      <4> QED
        BY <1>13, <3>2, <3>3, <4>1
    <3>4. CASE n # new
      <4>1. n \in 1..N
        BY <1>0, <3>4
      <4>2. n \in ToSet(c.mapping[m].children) <=> ParentOf(c, n) = m
        BY <1>1, <3>1, <4>1
      <4>3. ParentOf(d, n) = ParentOf(c, n)
        BY <1>12, <4>1
      <4> QED
        BY <3>2, <3>4, <4>2, <4>3
    <3> QED
      BY <3>3, <3>4
  <2> QED
    BY <2>3, <2>4
<1>16. new \in 1..Size /\ d.current \in 1..new
  BY <1>0, <1>4, <1>5
<1>17. IsConversation(d, new)
  BY <1>5, <1>14, <1>15, <1>16 DEF IsConversation
<1>18. SameMessages(c, d)
  <2>1. \A n \in 1..N : n \in 1..new
    BY <1>0
  <2> QED
    BY <1>1, <1>5, <1>12, <2>1 DEF SameMessages
<1> QED
  BY <1>16, <1>17, <1>18 DEF c, d, new

LEMMA SwitchConversation ==
  ASSUME NEW N \in 1..Size, IsConversation(conv, N), NEW leaf \in NodesOf(conv),
         SwitchBranch(leaf)
  PROVE  IsConversation(conv', N) /\ SameMessages(conv, conv')
<1>1. /\ conv = [mapping |-> conv.mapping, current |-> conv.current]
      /\ leaf \in 1..N
  BY DEF IsConversation
<1>2. conv' = [mapping |-> conv.mapping, current |-> leaf]
  BY <1>1 DEF SwitchBranch
<1>3. /\ conv'.mapping = conv.mapping /\ conv'.current = leaf
      /\ conv' = [mapping |-> conv'.mapping, current |-> conv'.current]
  BY <1>2
<1>4. \A n : ParentOf(conv', n) = ParentOf(conv, n)
  BY <1>3 DEF ParentOf
<1>5. NodesOf(conv') = NodesOf(conv)
  BY <1>3 DEF NodesOf
<1>6. SameMessages(conv, conv')
  BY <1>3, <1>5 DEF SameMessages
<1> DEFINE d == conv'
<1> HIDE DEF d
<1>7. IsConversation(d, N)
  BY <1>1, <1>3, <1>4, <1>5 DEF IsConversation, d
<1> QED
  BY <1>6, <1>7 DEF d

\* Every step leaves a conversation, with the messages there were.
LEMMA ConvStep ==
  ASSUME ConvInv, [LifeNext]_vars
  PROVE  ConvInv' /\ SameMessages(conv, conv')
<1>1. PICK N \in 1..Size : IsConversation(conv, N)
  BY DEF ConvInv
<1>2. NodesOf(conv) = 1..N /\ conv.current \in 1..N
  BY <1>1 DEF IsConversation
<1>3. ASSUME UNCHANGED conv PROVE ConvInv' /\ SameMessages(conv, conv')
  BY <1>3 DEF ConvInv, SameMessages
<1>4. ASSUME NEW parent \in 1..N, NEW content, Grow(parent, content)
      PROVE  ConvInv' /\ SameMessages(conv, conv')
  <2>1. N + 1 \in 1..Size /\ IsConversation(conv', N + 1) /\ SameMessages(conv, conv')
    BY <1>1, <1>4, GrowConversation
  <2>2. \E M \in 1..Size : IsConversation(conv', M)
    BY <2>1
  <2> QED
    BY <2>1, <2>2 DEF ConvInv
<1>5. ASSUME NEW content \in Contents, Continue(content)
      PROVE  ConvInv' /\ SameMessages(conv, conv')
  BY <1>2, <1>4, <1>5 DEF Continue
<1>6. ASSUME NEW content \in Contents, NEW n \in DOMAIN conv.mapping, Regenerate(n, content)
      PROVE  ConvInv' /\ SameMessages(conv, conv')
  BY <1>2, <1>4, <1>6 DEF Regenerate, NodesOf
<1>7. ASSUME NEW n \in DOMAIN conv.mapping, SwitchBranch(n)
      PROVE  ConvInv' /\ SameMessages(conv, conv')
  <2>1. IsConversation(conv', N) /\ SameMessages(conv, conv')
    BY <1>1, <1>7, SwitchConversation DEF NodesOf
  <2>2. \E M \in 1..Size : IsConversation(conv', M)
    BY <2>1
  <2> QED
    BY <2>1, <2>2 DEF ConvInv
<1> QED
  BY <1>3, <1>5, <1>6, <1>7 DEF LifeNext, Read, ReadGarbled, Apply, vars

-----------------------------------------------------------------------------
(* The page *)

IsPayload(p) ==
  p = [mapping |-> p.mapping, current |-> p.current, title |-> p.title,
       candidate |-> p.candidate, linear |-> p.linear]

\* Whatever page it is, its nodes have names.
PageInv == page # None => NodesOf(page) \subseteq Nat

LEMMA PublishedShape ==
  /\ IsPayload(Published)
  /\ Published.mapping = conv.mapping /\ Published.current = conv.current
  /\ Published.title = "t" /\ Published.candidate = "k"
<1> DEFINE p == [mapping |-> conv.mapping, current |-> conv.current, title |-> "t",
                 candidate |-> "k", linear |-> <<>>]
<1>1. \E linear : Published = [p EXCEPT !.linear = linear]
  BY DEF Published
<1>2. PICK linear : Published = [p EXCEPT !.linear = linear]
  BY <1>1
<1>3. Published = [mapping |-> conv.mapping, current |-> conv.current, title |-> "t",
                   candidate |-> "k", linear |-> linear]
  BY <1>2
<1> QED
  BY <1>3 DEF IsPayload

LEMMA GarbledNodes ==
  ASSUME NEW p, IsPayload(p), NEW q \in Garbled(p)
  PROVE  NodesOf(q) \subseteq NodesOf(p)
<1> DEFINE N == NodesOf(p)
<1>1. p = [mapping |-> p.mapping, current |-> p.current, title |-> p.title,
           candidate |-> p.candidate, linear |-> p.linear]
  BY DEF IsPayload
<1>2. \A x : [p EXCEPT !.current = x].mapping = p.mapping
  BY <1>1
<1>3. \A x : [p EXCEPT !.linear = x].mapping = p.mapping
  BY <1>1
<1>4. \A x : [p EXCEPT !.mapping = x].mapping = x
  BY <1>1
<1>5. \A n, node : DOMAIN InMapping(p, n, node).mapping = DOMAIN p.mapping
  <2> SUFFICES ASSUME NEW n, NEW node
               PROVE  DOMAIN InMapping(p, n, node).mapping = DOMAIN p.mapping
    OBVIOUS
  <2>1. InMapping(p, n, node).mapping = [p.mapping EXCEPT ![n] = node]
    BY <1>1 DEF InMapping
  <2> QED
    BY <2>1
<1>6. \A n, node : DOMAIN InBoth(p, n, node).mapping = DOMAIN p.mapping
  <2> SUFFICES ASSUME NEW n, NEW node
               PROVE  DOMAIN InBoth(p, n, node).mapping = DOMAIN p.mapping
    OBVIOUS
  <2>1. \E x : InBoth(p, n, node) = [p EXCEPT !.mapping[n] = node, !.linear = x]
    BY DEF InBoth
  <2>2. PICK x : InBoth(p, n, node) = [p EXCEPT !.mapping[n] = node, !.linear = x]
    BY <2>1
  <2>3. InBoth(p, n, node).mapping = [p.mapping EXCEPT ![n] = node]
    BY <1>1, <2>2
  <2> QED
    BY <2>3
<1>7. CASE \E n \in N : \E node \in Variants(p, n) :
              q \in {InMapping(p, n, node), InBoth(p, n, node)}
  BY <1>5, <1>6, <1>7 DEF NodesOf
<1>8. CASE \E m : q = [p EXCEPT !.current = m]
  BY <1>2, <1>8 DEF NodesOf
<1>9. CASE \E x : q = [p EXCEPT !.linear = x]
  BY <1>3, <1>9 DEF NodesOf
<1>10. CASE \E m \in N : q = [p EXCEPT !.mapping = Restrict(@, N \ {m})]
  <2>1. PICK m \in N : q = [p EXCEPT !.mapping = Restrict(@, N \ {m})]
    BY <1>10
  <2>2. q.mapping = Restrict(p.mapping, N \ {m})
    BY <1>1, <2>1
  <2>3. DOMAIN q.mapping = N \ {m}
    BY <2>2 DEF Restrict
  <2> QED
    BY <2>3 DEF NodesOf
<1>11. \/ \E n \in N : \E node \in Variants(p, n) :
            q \in {InMapping(p, n, node), InBoth(p, n, node)}
       \/ \E m : q = [p EXCEPT !.current = m]
       \/ \E x : q = [p EXCEPT !.linear = x]
       \/ \E m \in N : q = [p EXCEPT !.mapping = Restrict(@, N \ {m})]
  <2> DEFINE G1 == UNION {UNION {{InMapping(p, n, node), InBoth(p, n, node)} :
                                   node \in Variants(p, n)} :
                            n \in NodesOf(p)}
             G2 == {[p EXCEPT !.current = m] : m \in NodesOf(p) \cup {None}}
             G3 == {[p EXCEPT !.linear = Only(@, {x \in ToSet(@) : x.id # m})] : m \in NodesOf(p)}
             G4 == {[p EXCEPT !.linear = Append(@, p.mapping[m])] : m \in NodesOf(p)}
             G5 == {[p EXCEPT !.mapping = Restrict(@, NodesOf(p) \ {m})] : m \in NodesOf(p)}
  <2>1. Garbled(p) = G1 \cup G2 \cup G3 \cup G4 \cup G5
    BY Zenon DEF Garbled
  <2>2. CASE q \in G1
    BY <2>2
  <2>3. CASE q \in G2
    BY <2>3
  <2>4. CASE q \in G3
    BY <2>4
  <2>5. CASE q \in G4
    BY <2>5
  <2>6. CASE q \in G5
    BY <2>6
  <2> HIDE DEF G1, G2, G3, G4, G5
  <2> QED
    BY <2>1, <2>2, <2>3, <2>4, <2>5, <2>6
<1> QED
  BY <1>7, <1>8, <1>9, <1>10, <1>11

LEMMA PageStep ==
  ASSUME ConvInv, PageInv, [LifeNext]_vars
  PROVE  PageInv'
<1>1. NodesOf(Published) = NodesOf(conv)
  BY PublishedShape DEF NodesOf
<1>2. NodesOf(conv) \subseteq Nat
  BY DEF ConvInv, IsConversation
<1>3. CASE UNCHANGED page
  BY <1>3 DEF PageInv
<1>4. CASE page' = None
  BY <1>4 DEF PageInv
<1>5. CASE Read
  BY <1>1, <1>2, <1>5 DEF Read, PageInv
<1>6. CASE ReadGarbled
  <2>1. page' \in Garbled(Published) /\ IsPayload(Published)
    BY <1>6, PublishedShape DEF ReadGarbled
  <2>2. NodesOf(page') \subseteq NodesOf(Published)
    BY <2>1, GarbledNodes
  <2> QED
    BY <1>1, <1>2, <2>2 DEF PageInv
<1> QED
  BY <1>3, <1>4, <1>5, <1>6
     DEF LifeNext, vars, Continue, Regenerate, Grow, SwitchBranch, Apply

-----------------------------------------------------------------------------
(* What is read *)

\* The nodes whose message the reader is to see and the parser understands.
ForReader(p) == {n \in NodesOf(p) : p.mapping[n].message # None /\ Selected(p.mapping[n].message)}

LEMMA ReadableChain ==
  ASSUME NEW p, Readable(p)
  PROVE  /\ LinearIds(p) \in Chains(p) /\ IsRooted(p, LinearIds(p))
         /\ ToSet(LinearIds(p)) = UpSet(p, p.current) /\ ToSet(LinearIds(p)) \subseteq NodesOf(p)
<1> DEFINE s == LinearIds(p)
<1>1. Ancestry(p) = s /\ Rooted(p)
  BY DEF Readable, CurrentBranch
<1>2. s \in Chains(p)
  BY <1>1, AncestryIsChain
<1> HIDE DEF s
<1>3. /\ Len(s) \in Nat \ {0} /\ DOMAIN s = 1..Len(s) /\ Head(s) = s[1] /\ IsChain(p, s)
  BY <1>2, ChainShape
<1>4. IsRooted(p, s)
  BY <1>1, <1>3 DEF Rooted, IsRooted
<1>5. Len(s) \in 1..Len(s) /\ s[Len(s)] = p.current
  BY <1>3 DEF IsChain
<1>6. UpSet(p, p.current) = {s[i] : i \in 1..Len(s)}
  BY <1>2, <1>4, <1>5, AboveInChain
<1>7. \A i \in 1..Len(s) : s[i] \in NodesOf(p)
  <2>1. \A i \in 1..Len(s) : i = 1 \/ i \in 2..Len(s)
    BY <1>3
  <2> QED
    BY <1>3, <1>4, <2>1 DEF IsChain, IsRooted
<1>8. ToSet(s) = {s[i] : i \in 1..Len(s)}
  BY <1>3 DEF ToSet
<1> QED
  BY <1>2, <1>4, <1>6, <1>7, <1>8 DEF s

\* The nodes chosen of a list, and what is read of each.
Chosen(p, list) == Only(list, ForReader(p))
IsRead(p, list, msgs) ==
  msgs = [i \in DOMAIN Chosen(p, list) |->
            [id |-> p.mapping[Chosen(p, list)[i]].message.id, node |-> Chosen(p, list)[i],
             text |-> DegradeCitations(p.mapping[Chosen(p, list)[i]].message.parts)]]

LEMMA MessagesRead ==
  ASSUME NEW p, NEW E, LinearIds(p) \in Seq(E)
  PROVE  IsRead(p, LinearIds(p), Messages(p)) /\ ToSet(Speaking(p)) = ToSet(LinearIds(p)) \cap
                                    {n \in NodesOf(p) : p.mapping[n].message # None}
<1> DEFINE s == LinearIds(p)
           A == {n \in NodesOf(p) : p.mapping[n].message # None}
           B == {n \in ToSet(Speaking(p)) : Selected(p.mapping[n].message)}
<1>1. Speaking(p) = Only(s, A)
  BY DEF Speaking
<1>2. ToSet(Speaking(p)) = ToSet(s) \cap A
  BY <1>1, OnlyTakes
<1>3. ToSet(s) \cap (A \cap B) = ToSet(s) \cap ForReader(p)
  BY <1>2 DEF ForReader
<1> HIDE DEF s, A, B
<1>4. s \in Seq(E)
  BY DEF s
<1>5. Only(Only(s, A), B) = Only(s, A \cap B)
  BY <1>4, OnlyTwice
<1>6. Only(s, A \cap B) = Only(s, ForReader(p))
  BY <1>3, <1>4, OnlyAgrees
<1>7. Only(Speaking(p), B) = Chosen(p, LinearIds(p))
  BY <1>1, <1>5, <1>6 DEF Chosen, s
<1>8. IsRead(p, LinearIds(p), Messages(p))
  BY <1>7, Zenon DEF IsRead, Messages, B
<1> QED
  BY <1>2, <1>8 DEF s, A

LEMMA ChosenShape ==
  ASSUME NEW p, Readable(p)
  PROVE  /\ Chosen(p, LinearIds(p)) \in Seq(Values(p))
         /\ InOrder(Chosen(p, LinearIds(p)), LinearIds(p))
         /\ ToSet(Chosen(p, LinearIds(p))) = ToSet(LinearIds(p)) \cap ForReader(p)
         /\ IsRead(p, LinearIds(p), Messages(p))
         /\ ToSet(Speaking(p)) = ToSet(LinearIds(p)) \cap
                                  {n \in NodesOf(p) : p.mapping[n].message # None}
<1>1. LinearIds(p) \in Seq(Values(p))
  BY ReadableChain, ChainShape
<1> QED
  BY <1>1, OnlyTakes, OnlyOrdered, MessagesRead DEF Chosen

LEMMA ReadMessages ==
  ASSUME NEW p, Readable(p), NEW msgs, IsRead(p, LinearIds(p), msgs)
  PROVE  /\ DOMAIN msgs = DOMAIN Chosen(p, LinearIds(p))
         /\ DOMAIN Chosen(p, LinearIds(p)) = 1..Len(Chosen(p, LinearIds(p)))
         /\ Len(Chosen(p, LinearIds(p))) \in Nat
         /\ \A i \in DOMAIN msgs : msgs[i].node = Chosen(p, LinearIds(p))[i]
<1>1. Chosen(p, LinearIds(p)) \in Seq(Values(p))
  BY ChosenShape
<1>2. /\ DOMAIN Chosen(p, LinearIds(p)) = 1..Len(Chosen(p, LinearIds(p)))
      /\ Len(Chosen(p, LinearIds(p))) \in Nat
  BY <1>1
<1> QED
  BY <1>2 DEF IsRead

\* What parses is a snapshot.
LEMMA ReadNow ==
  ASSUME Now # Refused
  PROVE  /\ Readable(page) /\ Now = Snapshot(page)
         /\ Now.msgs = Messages(page)
         /\ Now.partial = (\E n \in ToSet(Speaking(page)) : Blocked(page.mapping[n].message))
<1>1. Readable(page) /\ Now = Snapshot(page)
  BY DEF Now, BuildSnapshot
<1> QED
  BY <1>1 DEF Snapshot

LEMMA ReadsNow ==
  ASSUME PageInv
  PROVE  ReadsTheShownBranch
<1> SUFFICES ASSUME page # None, Now # Refused PROVE ReadsTheShownBranch
  BY DEF ReadsTheShownBranch
<1> DEFINE p == page
           up == UpSet(p, p.current)
           nodes == [i \in DOMAIN Now.msgs |-> Now.msgs[i].node]
           s == LinearIds(p)
<1>1. Readable(p) /\ Now.msgs = Messages(p)
  BY ReadNow
<1>2. /\ IsRead(p, LinearIds(p), Messages(p)) /\ InOrder(Chosen(p, LinearIds(p)), s)
      /\ ToSet(Chosen(p, LinearIds(p))) = ToSet(s) \cap ForReader(p)
  BY <1>1, ChosenShape
<1>3. /\ s \in Chains(p) /\ IsRooted(p, s) /\ ToSet(s) = up /\ up \subseteq NodesOf(p)
  BY <1>1, ReadableChain
<1>4. nodes = [i \in DOMAIN Chosen(p, LinearIds(p)) |-> Chosen(p, LinearIds(p))[i]]
  BY <1>1, <1>2, ReadMessages
<1>5. /\ DOMAIN nodes = DOMAIN Chosen(p, LinearIds(p))
      /\ \A i \in DOMAIN nodes : nodes[i] = Chosen(p, LinearIds(p))[i]
  BY <1>4
<1> HIDE DEF nodes, up
<1>6. ToSet(nodes) = up \cap ForReader(p)
  BY <1>2, <1>3, <1>5 DEF ToSet
<1>7. ToSet(nodes) = {n \in up : p.mapping[n].message # None /\ Selected(p.mapping[n].message)}
  BY <1>3, <1>6 DEF ForReader
<1>8. ASSUME NEW i \in DOMAIN nodes, NEW j \in DOMAIN nodes, i < j
      PROVE  nodes[i] \in UpSet(p, nodes[j])
  <2>1. i \in 1..Len(Chosen(p, LinearIds(p))) /\ j \in 1..Len(Chosen(p, LinearIds(p)))
    BY <1>1, <1>2, <1>5, ReadMessages
  <2>2. PICK a, b \in 1..Len(s) :
          a < b /\ s[a] = Chosen(p, LinearIds(p))[i] /\ s[b] = Chosen(p, LinearIds(p))[j]
    BY <1>2, <1>8, <2>1 DEF InOrder
  <2>3. UpSet(p, s[b]) = {s[k] : k \in 1..b}
    BY <1>3, AboveInChain
  <2>4. a \in 1..b
    BY <2>2
  <2> QED
    BY <1>5, <2>2, <2>3, <2>4
<1>9. ASSUME NEW m \in NodesOf(p), NEW n \in NodesOf(p)
      PROVE  n \in ToSet(p.mapping[m].children) <=> ParentOf(p, n) = m
  <2>1. m # None
    BY NoneAssumption DEF PageInv
  <2> QED
    BY <1>1, <2>1 DEF Readable, ValidChildren
<1> QED
  BY <1>7, <1>8, <1>9 DEF ReadsTheShownBranch, nodes, up

LEMMA NoGapNow ==
  ASSUME page # None, Now # Refused, ~Now.partial,
         NEW n \in UpSet(page, page.current),
         page.mapping[n].message # None, ~Excluded(page.mapping[n].message)
  PROVE  \E i \in DOMAIN Now.msgs : Now.msgs[i].node = n
<1> DEFINE p == page
<1>1. /\ Readable(p) /\ Now.msgs = Messages(p)
      /\ \A k \in ToSet(Speaking(p)) : ~Blocked(p.mapping[k].message)
  BY ReadNow
<1>2. /\ IsRead(p, LinearIds(p), Messages(p))
      /\ ToSet(Chosen(p, LinearIds(p))) = ToSet(LinearIds(p)) \cap ForReader(p)
      /\ ToSet(Speaking(p)) = ToSet(LinearIds(p)) \cap
                               {k \in NodesOf(p) : p.mapping[k].message # None}
  BY <1>1, ChosenShape
<1>3. n \in ToSet(LinearIds(p)) /\ n \in NodesOf(p)
  BY <1>1, ReadableChain
<1>4. Selected(p.mapping[n].message)
  BY <1>1, <1>2, <1>3 DEF Selected
<1>5. n \in ToSet(Chosen(p, LinearIds(p)))
  BY <1>2, <1>3, <1>4 DEF ForReader
<1>6. PICK i \in DOMAIN Chosen(p, LinearIds(p)) : Chosen(p, LinearIds(p))[i] = n
  BY <1>5 DEF ToSet
<1> QED
  BY <1>1, <1>2, <1>6, ReadMessages

-----------------------------------------------------------------------------
(* What was applied *)

\* The snapshot applied last is what is read of the branch that it was made of, whatever
\* has been said since, and left nothing out.
AppliedInv ==
  applied # None =>
    /\ path \in Seq(NodesOf(conv))
    /\ applied.candidate = "k" /\ applied.parser = 1 /\ ~applied.partial
    /\ applied.msgs # <<>> /\ IsRead(conv, path, applied.msgs)

LifeInv == ConvInv /\ PageInv /\ AppliedInv

\* Nodes whose messages stay as they are are read as they were.
LEMMA ReadAgain ==
  ASSUME NEW c, NEW d, SameMessages(c, d), NEW list \in Seq(NodesOf(c)), NEW msgs,
         IsRead(c, list, msgs)
  PROVE  IsRead(d, list, msgs)
<1>1. /\ NodesOf(c) \subseteq NodesOf(d)
      /\ \A n \in NodesOf(c) : d.mapping[n].message = c.mapping[n].message
  BY DEF SameMessages
<1>2. ToSet(list) \subseteq NodesOf(c)
  BY DEF ToSet
<1>3. ToSet(list) \cap ForReader(c) = ToSet(list) \cap ForReader(d)
  BY <1>1, <1>2 DEF ForReader
<1>4. Chosen(c, list) = Chosen(d, list)
  BY <1>3, OnlyAgrees DEF Chosen
<1>5. Chosen(c, list) \in Seq(NodesOf(c))
  BY OnlyTakes DEF Chosen
<1> DEFINE t == Chosen(c, list)
<1> HIDE DEF t
<1>6. \A i \in DOMAIN t : d.mapping[t[i]].message = c.mapping[t[i]].message
  BY <1>1, <1>5 DEF t
<1>7. msgs = [i \in DOMAIN t |-> [id |-> c.mapping[t[i]].message.id, node |-> t[i],
                                  text |-> DegradeCitations(c.mapping[t[i]].message.parts)]]
  BY DEF IsRead, t
<1>8. msgs = [i \in DOMAIN t |-> [id |-> d.mapping[t[i]].message.id, node |-> t[i],
                                  text |-> DegradeCitations(d.mapping[t[i]].message.parts)]]
  BY <1>6, <1>7
<1> QED
  BY <1>4, <1>8 DEF IsRead, t

\* What is published and parses is read of the conversation.
LEMMA ReadPublished ==
  ASSUME ConvInv, page = Published, Readable(page)
  PROVE  /\ LinearIds(page) \in Seq(NodesOf(conv))
         /\ IsRead(conv, LinearIds(page), Messages(page))
<1>1. page.mapping = conv.mapping
  BY PublishedShape
<1>2. NodesOf(page) = NodesOf(conv)
  BY <1>1 DEF NodesOf
<1>3. LinearIds(page) \in Seq(Values(page)) /\ ToSet(LinearIds(page)) \subseteq NodesOf(page)
  BY ReadableChain, ChainShape
<1>4. LinearIds(page) \in Seq(NodesOf(conv))
  BY <1>2, <1>3, SequenceWithin
<1>5. IsRead(page, LinearIds(page), Messages(page))
  BY ChosenShape
<1>6. SameMessages(page, conv)
  BY <1>1, <1>2 DEF SameMessages
<1> QED
  BY <1>2, <1>4, <1>5, <1>6, ReadAgain

LEMMA AppliedStep ==
  ASSUME ConvInv, AppliedInv, [LifeNext]_vars
  PROVE  AppliedInv'
<1>1. CASE UNCHANGED <<applied, path>>
  <2>1. SameMessages(conv, conv')
    BY ConvStep
  <2>2. NodesOf(conv) \subseteq NodesOf(conv')
    BY <2>1 DEF SameMessages
  <2>3. ASSUME applied # None
        PROVE  path \in Seq(NodesOf(conv')) /\ IsRead(conv', path, applied.msgs)
    <3>1. path \in Seq(NodesOf(conv)) /\ IsRead(conv, path, applied.msgs)
      BY <2>3 DEF AppliedInv
    <3>2. ToSet(path) \subseteq NodesOf(conv')
      BY <2>2, <3>1 DEF ToSet
    <3>3. path \in Seq(NodesOf(conv'))
      BY <3>1, <3>2, SequenceWithin
    <3> QED
      BY <2>1, <3>1, <3>3, ReadAgain
  <2> QED
    BY <1>1, <2>3 DEF AppliedInv
<1>2. CASE Apply
  <2>1. /\ page = Published /\ Now # Refused /\ applied' = Now /\ path' = LinearIds(page)
        /\ conv' = conv
        /\ IF applied = None THEN ~Now.partial ELSE Plan.status = "ready"
    BY <1>2 DEF Apply
  <2>2. Readable(page) /\ Now = Snapshot(page) /\ Now.msgs = Messages(page)
    BY <2>1, ReadNow
  <2>3. Now.candidate = "k" /\ Now.parser = 1
    BY <2>1, <2>2, PublishedShape DEF Snapshot
  <2>4. ~Now.partial
    <3>1. Plan.status = "ready" => ~Now.partial
      BY DEF Plan, Preview
    <3> QED
      BY <2>1, <3>1
  <2>5. Now.msgs # <<>>
    BY <2>2 DEF Readable
  <2>6. LinearIds(page) \in Seq(NodesOf(conv)) /\ IsRead(conv, LinearIds(page), Now.msgs)
    BY <2>1, <2>2, ReadPublished
  <2> QED
    BY <2>1, <2>3, <2>4, <2>5, <2>6 DEF AppliedInv
<1> QED
  BY <1>1, <1>2 DEF LifeNext, vars, Continue, Regenerate, Grow, SwitchBranch, Read, ReadGarbled

LEMMA LifeInvInit ==
  LifeInit => LifeInv
<1>1. LifeInit => PageInv /\ AppliedInv
  BY DEF LifeInit, PageInv, AppliedInv
<1> QED
  BY <1>1, ConvInit DEF LifeInv

LEMMA LifeInvStep ==
  LifeInv /\ [LifeNext]_vars => LifeInv'
BY ConvStep, PageStep, AppliedStep DEF LifeInv

\* The inductive invariant: what ChatGPT keeps of a conversation, and that the snapshot that
\* Service.Apply recorded last is what buildSnapshot would still read of that branch.
THEOREM AlwaysReadAsApplied ==
  LifeSpec => []LifeInv
BY LifeInvInit, LifeInvStep, PTL DEF LifeSpec

\* Whatever page parses: buildSnapshot returns the selected messages above the current node
\* and no others, each above the next, and the links of the page agree with each other.
THEOREM AlwaysReadsTheShownBranch ==
  LifeSpec => []ReadsTheShownBranch
<1>1. LifeInv => ReadsTheShownBranch
  BY ReadsNow DEF LifeInv
<1> QED
  BY <1>1, AlwaysReadAsApplied, PTL

\* A snapshot that counts as complete has every message of the shown branch that is meant
\* for the reader, and Service.Apply writes no other.
THEOREM AlwaysCompleteHasNoGap ==
  LifeSpec => []CompleteHasNoGap
<1>1. LifeInv => CompleteHasNoGap
  BY NoGapNow DEF LifeInv, AppliedInv, CompleteHasNoGap
<1> QED
  BY <1>1, AlwaysReadAsApplied, PTL

-----------------------------------------------------------------------------
(* The one branch that is shown *)

\* Chains of the same node agree as far as both reach.
LEMMA ChainsAgree ==
  ASSUME NEW p, NEW s \in Chains(p), NEW t \in Chains(p), Len(s) <= Len(t)
  PROVE  \A i \in 1..Len(s) : s[i] = t[Len(t) - Len(s) + i]
<1> DEFINE L == Len(s)
           M == Len(t)
           P == {j \in 0..(L - 1) : s[L - j] = t[M - j]}
<1>1. /\ L \in Nat \ {0} /\ M \in Nat \ {0} /\ L <= M
      /\ s[L] = p.current /\ t[M] = p.current
      /\ \A i \in 2..L : ParentOf(p, s[i]) = s[i - 1]
      /\ \A i \in 2..M : ParentOf(p, t[i]) = t[i - 1]
  BY ChainShape DEF IsChain
<1> HIDE DEF L, M
<1>2. 0 \in P
  <2>1. L - 0 = L /\ M - 0 = M /\ 0 \in 0..(L - 1)
    BY <1>1
  <2> QED
    BY <1>1, <2>1
<1>3. ASSUME NEW j \in 1..(L - 1), j - 1 \in P PROVE j \in P
  <2> DEFINE a == L - (j - 1)
             b == M - (j - 1)
  <2>1. a \in 2..L /\ b \in 2..M /\ a - 1 = L - j /\ b - 1 = M - j /\ j \in 0..(L - 1)
    BY <1>1
  <2>2. s[a] = t[b]
    BY <1>3
  <2> HIDE DEF a, b
  <2>3. s[a - 1] = t[b - 1]
    BY <1>1, <2>1, <2>2
  <2> QED
    BY <2>1, <2>3
<1>4. \A j \in 0..(L - 1) : j \in P
  <2> DEFINE K == L - 1
  <2>1. K \in Nat
    BY <1>1
  <2>2. 0 \in P /\ \A j \in 1..K : j - 1 \in P => j \in P
    BY <1>2, <1>3
  <2> HIDE DEF K, P
  <2>3. \A j \in 0..K : j \in P
    BY <2>1, <2>2, UpTo
  <2> QED
    BY <2>3 DEF K
<1>5. ASSUME NEW i \in 1..L PROVE s[i] = t[M - L + i]
  <2> DEFINE j == L - i
  <2>1. j \in 0..(L - 1) /\ L - j = i /\ M - j = M - L + i
    BY <1>1
  <2> HIDE DEF j
  <2>2. s[L - j] = t[M - j]
    BY <1>4, <2>1
  <2> QED
    BY <2>1, <2>2
<1> QED
  BY <1>5 DEF L, M

\* One that is rooted is the longest.
LEMMA RootedIsLongest ==
  ASSUME NEW p, NEW s \in Chains(p), NEW t \in Chains(p), IsRooted(p, s)
  PROVE  Len(t) <= Len(s)
<1> SUFFICES ASSUME ~(Len(t) <= Len(s)) PROVE FALSE
  OBVIOUS
<1>1. Len(s) \in Nat \ {0} /\ Len(t) \in Nat \ {0} /\ Len(s) <= Len(t)
  BY ChainShape
<1> DEFINE k == Len(t) - Len(s) + 1
<1>2. k \in 2..Len(t) /\ 1 \in 1..Len(s)
  BY <1>1
<1>3. s[1] = t[k]
  BY <1>1, <1>2, ChainsAgree
<1>4. ParentOf(p, t[k]) = t[k - 1] /\ t[k - 1] # None
  BY <1>2, ChainShape DEF IsChain
<1> QED
  BY <1>3, <1>4 DEF IsRooted

LEMMA RootedIsUnique ==
  ASSUME NEW p, NEW s \in Chains(p), NEW t \in Chains(p), Len(s) = Len(t)
  PROVE  s = t
<1>1. /\ s \in Seq(Values(p)) /\ t \in Seq(Values(p)) /\ Len(s) \in Nat
  BY ChainShape
<1>2. \A i \in 1..Len(s) : s[i] = t[Len(t) - Len(s) + i]
  BY <1>1, ChainsAgree
<1>3. \A i \in 1..Len(s) : s[i] = t[i]
  <2>1. \A i \in 1..Len(s) : Len(t) - Len(s) + i = i
    BY <1>1
  <2> QED
    BY <1>2, <2>1
<1> QED
  BY <1>1, <1>3

\* A climb comes to a root, or is as long as its steps are many.
LEMMA ClimbLength ==
  ASSUME NEW p, NEW K \in Nat, NEW f, Climbs(f, p, K), \A n \in 0..K : f[n][1] \in NodesOf(p)
  PROVE  \A n \in 0..K : IsRooted(p, f[n]) \/ Len(f[n]) = n + 1
<1> DEFINE P == {n \in 0..K : IsRooted(p, f[n]) \/ Len(f[n]) = n + 1}
<1>1. f[0] = <<p.current>> /\ \A n \in 1..K : f[n] = ClimbStep(p, f[n - 1])
  BY DEF Climbs
<1>2. \A n \in 0..K : f[n] \in Chains(p)
  BY ClimbsChains
<1>3. 0 \in P
  <2>1. Len(f[0]) = 1
    BY <1>1
  <2> QED
    BY <2>1
<1>4. ASSUME NEW n \in 1..K, n - 1 \in P PROVE n \in P
  <2> DEFINE s == f[n - 1]
  <2>1. n - 1 \in 0..K /\ n \in 0..K
    OBVIOUS
  <2>2. f[n] = ClimbStep(p, s) /\ s \in Chains(p) /\ s[1] \in NodesOf(p)
    BY <1>1, <1>2, <2>1
  <2>3. IsRooted(p, s) \/ Len(s) = n
    BY <1>4
  <2> HIDE DEF s
  <2>4. /\ IsRooted(p, s) => ClimbStep(p, s) = s
        /\ ~IsRooted(p, s) => Len(ClimbStep(p, s)) = Len(s) + 1
    BY <2>2, ChainStep
  <2> QED
    BY <2>1, <2>2, <2>3, <2>4
<1>5. \A n \in 0..K : n \in P
  <2> HIDE DEF P
  <2> QED
    BY <1>3, <1>4, UpTo
<1> QED
  BY <1>5

\* In a conversation nothing leads out of it, and every step leads to an earlier node.
LEMMA ChainDescends ==
  ASSUME NEW N \in 1..Size, IsConversation(conv, N), NEW K \in Nat, NEW f, Climbs(f, conv, K)
  PROVE  \A n \in 0..K :
           /\ f[n][1] \in NodesOf(conv)
           /\ IsRooted(conv, f[n]) \/ f[n][1] + n <= N
<1> DEFINE P == {n \in 0..K : f[n][1] \in NodesOf(conv)
                                /\ (IsRooted(conv, f[n]) \/ f[n][1] + n <= N)}
<1>1. f[0] = <<conv.current>> /\ \A n \in 1..K : f[n] = ClimbStep(conv, f[n - 1])
  BY DEF Climbs
<1>2. \A n \in 0..K : f[n] \in Chains(conv)
  BY ClimbsChains
<1>3. /\ NodesOf(conv) = 1..N /\ conv.current \in 1..N /\ N \in Nat
      /\ \A n \in 1..N : ParentOf(conv, n) \in 1..(n - 1) \cup {None}
  BY SizeAssumption DEF IsConversation
<1>4. 0 \in P
  <2>1. f[0][1] = conv.current
    BY <1>1
  <2>2. f[0][1] \in NodesOf(conv) /\ f[0][1] + 0 <= N /\ 0 \in 0..K
    BY <1>3, <2>1
  <2> QED
    BY <2>2
<1>5. ASSUME NEW n \in 1..K, n - 1 \in P PROVE n \in P
  <2> DEFINE s == f[n - 1]
             m == s[1]
  <2>1. n - 1 \in 0..K /\ n \in 0..K
    OBVIOUS
  <2>2. f[n] = ClimbStep(conv, s) /\ s \in Chains(conv)
    BY <1>1, <1>2, <2>1
  <2>3. m \in NodesOf(conv) /\ (IsRooted(conv, s) \/ m + (n - 1) <= N)
    BY <1>5
  <2> HIDE DEF s
  <2>4. /\ IsRooted(conv, s) => ClimbStep(conv, s) = s
        /\ ~IsRooted(conv, s) => ClimbStep(conv, s)[1] = ParentOf(conv, m)
    BY <2>2, <2>3, ChainStep
  <2>5. CASE IsRooted(conv, s)
    BY <2>1, <2>2, <2>3, <2>4, <2>5
  <2>6. CASE ~IsRooted(conv, s)
    <3>1. ParentOf(conv, m) # None
      BY <2>3, <2>6 DEF IsRooted
    <3>2. ParentOf(conv, m) \in 1..(m - 1) /\ m \in 1..N
      BY <1>3, <2>3, <3>1
    <3> DEFINE up == ParentOf(conv, m)
    <3>3. m + (n - 1) <= N /\ f[n][1] = up
      BY <2>2, <2>3, <2>4, <2>6
    <3>4. up \in 1..(m - 1) /\ m \in 1..N
      BY <3>2
    <3> HIDE DEF up, m
    <3>5. up \in 1..N /\ up + n <= N
      BY <1>3, <3>3, <3>4
    <3> QED
      BY <1>3, <2>1, <3>3, <3>5
  <2> QED
    BY <2>5, <2>6
<1>6. \A n \in 0..K : n \in P
  <2> HIDE DEF P
  <2> QED
    BY <1>4, <1>5, UpTo
<1> QED
  BY <1>6

\* Pages of a conversation have its chains.
LEMMA SameChains ==
  ASSUME NEW p, NEW c, p.mapping = c.mapping, p.current = c.current
  PROVE  /\ Chains(p) = Chains(c) /\ \A s : IsRooted(p, s) <=> IsRooted(c, s)
         /\ NodesOf(p) = NodesOf(c)
         /\ \A f, K : Climbs(f, p, K) <=> Climbs(f, c, K)
<1>1. NodesOf(p) = NodesOf(c) /\ \A n : ParentOf(p, n) = ParentOf(c, n)
  BY DEF NodesOf, ParentOf
<1>2. Values(p) = Values(c)
  BY <1>1 DEF Values
<1>3. \A s : IsChain(p, s) <=> IsChain(c, s)
  BY <1>1 DEF IsChain
<1>4. \A s : IsRooted(p, s) <=> IsRooted(c, s)
  BY <1>1 DEF IsRooted
<1>5. \A s : ClimbStep(p, s) = ClimbStep(c, s)
  BY <1>1 DEF ClimbStep
<1>6. \A f, K : Climbs(f, p, K) <=> Climbs(f, c, K)
  BY <1>5 DEF Climbs
<1> QED
  BY <1>1, <1>2, <1>3, <1>4, <1>6 DEF Chains

\* What the page lists is what a climb through the conversation collects.
IsListed(linear, list) == linear = [i \in DOMAIN list |-> conv.mapping[list[i]]]

LEMMA BranchIsDefined ==
  ASSUME ConvInv
  PROVE  \E f : Climbs(f, conv, Size) /\ IsListed(Published.linear, f[Size])
<1> DEFINE N == Size
           c == conv
           p == [mapping |-> conv.mapping, current |-> conv.current, title |-> "t",
                 candidate |-> "k", linear |-> <<>>]
           T == {s \in Chains(c) : s[1] \in NodesOf(c)}
           first == <<c.current>>
           step == [n \in 1..N |-> [t \in T |-> ClimbStep(c, t)]]
           Body(g) ==
             [k \in 0..N |->
                IF k = 0 THEN <<p.current>>
                ELSE IF ParentOf(p, Head(g[k - 1])) = None THEN g[k - 1]
                ELSE <<ParentOf(p, Head(g[k - 1]))>> \o g[k - 1]]
           f == CHOOSE g : g = Body(g)
<1>0. N \in Nat
  BY SizeAssumption
<1>1. Published = [p EXCEPT !.linear = [i \in DOMAIN f[N] |-> p.mapping[f[N][i]]]]
  BY Zenon DEF Published
<1>a. p.current = c.current /\ p.mapping = c.mapping
  OBVIOUS
<1>b. \A n : ParentOf(p, n) = ParentOf(c, n)
  BY <1>a DEF ParentOf
<1>c. \A n \in NodesOf(c) : ParentOf(c, n) \in NodesOf(c) \cup {None}
  <2>1. PICK M \in 1..Size : IsConversation(conv, M)
    BY DEF ConvInv
  <2>2. /\ NodesOf(c) = 1..M
        /\ \A n \in 1..M : ParentOf(c, n) \in 1..(n - 1) \cup {None}
    BY <2>1 DEF IsConversation
  <2>3. \A n \in 1..M : 1..(n - 1) \subseteq 1..M
    BY <1>0
  <2> QED
    BY <2>2, <2>3
<1>d. Published.linear = [i \in DOMAIN f[N] |-> c.mapping[f[N][i]]]
  <2> DEFINE x == [i \in DOMAIN f[N] |-> p.mapping[f[N][i]]]
  <2>1. Published = [p EXCEPT !.linear = x]
    BY <1>1, Zenon
  <2> HIDE DEF f
  <2>2. x = [i \in DOMAIN f[N] |-> c.mapping[f[N][i]]]
    OBVIOUS
  <2> HIDE DEF x
  <2>3. [p EXCEPT !.linear = x].linear = x
    OBVIOUS
  <2> QED
    BY <2>1, <2>2, <2>3, Zenon
<1>2. first \in T
  <2>1. c.current \in NodesOf(c)
    BY DEF ConvInv, IsConversation
  <2>2. first[1] = c.current
    OBVIOUS
  <2> QED
    BY <2>1, <2>2, ChainStarts
<1>3. ASSUME NEW t \in T PROVE ClimbStep(c, t) \in T
  <2>1. t \in Chains(c) /\ t[1] \in NodesOf(c) /\ Head(t) = t[1]
    BY ChainShape
  <2>2. /\ ClimbStep(c, t) \in Chains(c)
        /\ IsRooted(c, t) => ClimbStep(c, t) = t
        /\ ~IsRooted(c, t) => ClimbStep(c, t)[1] = ParentOf(c, t[1])
    BY <2>1, ChainStep
  <2>3. ~IsRooted(c, t) => ParentOf(c, t[1]) # None
    BY <2>1 DEF IsRooted
  <2> QED
    BY <1>c, <2>1, <2>2, <2>3
<1>e. \A t \in T : ClimbStep(c, t) = IF ParentOf(c, Head(t)) = None THEN t
                                     ELSE <<ParentOf(c, Head(t))>> \o t
  BY ChainShape DEF ClimbStep
<1>4. \A g : Body(g)[0] = first
  BY <1>0, <1>a
<1>5. \A g : \A n \in 1..N : g[n - 1] \in T => Body(g)[n] = ClimbStep(c, g[n - 1])
  <2> SUFFICES ASSUME NEW g, NEW n \in 1..N, g[n - 1] \in T
               PROVE  Body(g)[n] = ClimbStep(c, g[n - 1])
    OBVIOUS
  <2>1. n \in 0..N /\ n # 0
    BY <1>0
  <2>2. Body(g)[n] =
          IF ParentOf(p, Head(g[n - 1])) = None THEN g[n - 1]
          ELSE <<ParentOf(p, Head(g[n - 1]))>> \o g[n - 1]
    BY <2>1, Zenon
  <2> HIDE DEF Body, T, c, p
  <2> QED
    BY <1>b, <1>e, <2>2
<1> HIDE DEF T, first
<1>7. step \in Steps(N, T)
  BY <1>3 DEF Steps
<1>8. \A n \in 1..N, t \in T : step[n][t] = ClimbStep(c, t)
  OBVIOUS
<1> HIDE DEF step, N, p, c
<1>9. PICK h : Follows(h, N, T, first, step)
  BY <1>0, <1>2, <1>7, RecursionIsDefined
<1>10. h \in [0..N -> T] /\ h[0] = first /\ \A n \in 1..N : h[n] = step[n][h[n - 1]]
  BY <1>9 DEF Follows
<1>11. \A n \in 1..N : h[n - 1] \in T /\ h[n] = ClimbStep(c, h[n - 1])
  <2>1. \A n \in 1..N : h[n - 1] \in T
    BY <1>0, <1>10
  <2> QED
    BY <2>1, <1>8, <1>10
<1>12. \A n \in 0..N : n = 0 \/ n \in 1..N
  BY <1>0
<1>13. \A g : Body(g) = [n \in 0..N |-> Body(g)[n]]
  OBVIOUS
<1> HIDE DEF Body
<1>14. h = Body(h)
  <2>1. ASSUME NEW n \in 0..N PROVE h[n] = Body(h)[n]
    BY <1>4, <1>5, <1>10, <1>11, <1>12
  <2>2. h = [n \in 0..N |-> h[n]]
    BY <1>10
  <2> QED
    BY <2>1, <2>2, <1>13
<1>15. f = Body(f)
  BY <1>14
<1> HIDE DEF f
<1> DEFINE P == {n \in 0..N : f[n] \in T}
<1>16. \A n \in 0..N : n \in P
  <2>1. 0 \in P
    BY <1>0, <1>2, <1>4, <1>15
  <2>2. ASSUME NEW n \in 1..N, n - 1 \in P PROVE n \in P
    <3>1. f[n - 1] \in T /\ n \in 0..N
      BY <1>0, <2>2
    <3>2. f[n] = ClimbStep(c, f[n - 1])
      BY <1>5, <1>15, <3>1
    <3> QED
      BY <1>3, <3>1, <3>2
  <2> HIDE DEF P
  <2> QED
    BY <1>0, <2>1, <2>2, UpTo
<1>17. f[0] = first /\ \A n \in 1..N : f[n] = ClimbStep(c, f[n - 1])
  <2>1. \A n \in 1..N : f[n - 1] \in T
    <3>1. \A n \in 1..N : n - 1 \in 0..N
      BY <1>0
    <3> QED
      BY <1>16, <3>1
  <2> QED
    BY <1>4, <1>5, <1>15, <2>1
<1>18. Climbs(f, conv, Size)
  BY <1>17 DEF Climbs, first, N, c
<1>19. IsListed(Published.linear, f[Size])
  BY <1>d DEF IsListed, N, c
<1> QED
  BY <1>18, <1>19

\* The list of the page is the rooted chain of the conversation.
LEMMA PublishedChain ==
  ASSUME ConvInv
  PROVE  /\ LinearIds(Published) \in Chains(conv) /\ IsRooted(conv, LinearIds(Published))
         /\ IsListed(Published.linear, LinearIds(Published))
<1>1. PICK f : Climbs(f, conv, Size) /\ IsListed(Published.linear, f[Size])
  BY BranchIsDefined
<1>2. PICK N \in 1..Size : IsConversation(conv, N)
  BY DEF ConvInv
<1>3. Size \in Nat /\ N \in Nat /\ N <= Size /\ Size \in 0..Size
  BY SizeAssumption
<1> DEFINE s == f[Size]
<1>4. s[1] \in NodesOf(conv) /\ (IsRooted(conv, s) \/ s[1] + Size <= N)
  BY <1>1, <1>2, <1>3, ChainDescends
<1>5. /\ NodesOf(conv) = 1..N
      /\ \A n \in 1..N : conv.mapping[n].id = n
  BY <1>2 DEF IsConversation
<1>6. \A n \in 0..Size : f[n] \in Chains(conv)
  BY <1>1, <1>3, ClimbsChains
<1>a. s \in Chains(conv)
  BY <1>3, <1>6
<1> HIDE DEF s
<1>7. IsRooted(conv, s)
  BY <1>3, <1>4, <1>5
<1>8. s \in Seq(Values(conv)) /\ IsChain(conv, s) /\ DOMAIN s = 1..Len(s) /\ Len(s) \in Nat
  BY <1>a, ChainShape
<1>9. \A i \in 1..Len(s) : s[i] \in NodesOf(conv)
  <2>1. \A i \in 1..Len(s) : i = 1 \/ i \in 2..Len(s)
    BY <1>8
  <2> QED
    BY <1>7, <1>8, <2>1 DEF IsChain, IsRooted
<1>10. Published.linear = [i \in DOMAIN s |-> conv.mapping[s[i]]]
  BY <1>1 DEF IsListed, s
<1>11. LinearIds(Published) = [i \in DOMAIN s |-> conv.mapping[s[i]].id]
  BY <1>10 DEF LinearIds
<1>12. LinearIds(Published) = [i \in DOMAIN s |-> s[i]]
  BY <1>5, <1>8, <1>9, <1>11
<1>13. LinearIds(Published) = s
  <2>1. s = [i \in DOMAIN s |-> s[i]]
    BY <1>8
  <2> QED
    BY <1>12, <2>1
<1> QED
  BY <1>a, <1>7, <1>10, <1>13 DEF IsListed

-----------------------------------------------------------------------------
(* A conversation that was continued *)

\* Messages are numbered as they are said, along every branch.
LEMMA ChainIncreases ==
  ASSUME NEW N \in 1..Size, IsConversation(conv, N), NEW s \in Chains(conv), IsRooted(conv, s)
  PROVE  /\ Len(s) <= N /\ \A i \in 1..Len(s) : s[i] \in 1..N
         /\ \A i, j \in 1..Len(s) : i < j => s[i] < s[j]
<1> DEFINE L == Len(s)
<1>1. /\ NodesOf(conv) = 1..N /\ N \in Nat
      /\ \A n \in 1..N : ParentOf(conv, n) \in 1..(n - 1) \cup {None}
  BY SizeAssumption DEF IsConversation
<1>2. L \in Nat \ {0} /\ s[1] \in 1..N
  BY <1>1, ChainShape DEF IsRooted
<1>3. \A i \in 2..L : s[i] \in 1..N /\ ParentOf(conv, s[i]) = s[i - 1] /\ s[i - 1] # None
  BY <1>1, ChainShape DEF IsChain
<1> HIDE DEF L
<1>4. \A i \in 1..L : s[i] \in 1..N
  <2>1. \A i \in 1..L : i = 1 \/ i \in 2..L
    BY <1>2
  <2> QED
    BY <1>2, <1>3, <2>1
<1>5. \A i \in 2..L : s[i - 1] < s[i]
  <2> SUFFICES ASSUME NEW i \in 2..L PROVE s[i - 1] < s[i]
    OBVIOUS
  <2> DEFINE a == s[i - 1] b == s[i]
  <2>1. b \in 1..N /\ a \in 1..(b - 1)
    BY <1>1, <1>3
  <2> HIDE DEF a, b
  <2>2. a < b
    BY <1>1, <2>1
  <2> QED
    BY <2>2 DEF a, b
<1> DEFINE P == {n \in 0..L : n # 0 => n <= s[n]}
           Q(i) == {n \in 0..L : i < n => s[i] < s[n]}
<1>6. \A n \in 0..L : n \in P
  <2>1. 0 \in P
    BY <1>2
  <2>2. ASSUME NEW n \in 1..L, n - 1 \in P PROVE n \in P
    <3>1. n \in 0..L /\ s[n] \in 1..N
      BY <1>2, <1>4
    <3>2. CASE n = 1
      BY <3>1, <3>2
    <3>3. CASE n # 1
      <4> DEFINE a == s[n - 1] b == s[n]
      <4>1. n \in 2..L /\ n - 1 \in 1..L
        BY <1>2, <3>3
      <4>2. a < b /\ a \in 1..N /\ n - 1 <= a
        BY <1>4, <1>5, <2>2, <4>1
      <4>3. b \in 1..N
        BY <3>1
      <4> HIDE DEF a, b
      <4>4. n <= b
        BY <1>1, <1>2, <4>2, <4>3
      <4> QED
        BY <3>1, <4>4 DEF b
    <3> QED
      BY <3>2, <3>3
  <2> HIDE DEF P
  <2> QED
    BY <1>2, <2>1, <2>2, UpTo
<1>7. L <= N
  <2>1. L \in 0..L /\ L # 0 /\ L \in 1..L
    BY <1>2
  <2>2. L <= s[L] /\ s[L] \in 1..N
    BY <1>4, <1>6, <2>1
  <2> QED
    BY <1>1, <1>2, <2>2
<1>8. ASSUME NEW i \in 1..L PROVE \A n \in 0..L : n \in Q(i)
  <2>1. 0 \in Q(i)
    BY <1>2
  <2>2. ASSUME NEW n \in 1..L, n - 1 \in Q(i) PROVE n \in Q(i)
    <3> SUFFICES ASSUME i < n PROVE s[i] < s[n]
      BY <1>2
    <3> DEFINE a == s[n - 1] b == s[n] x == s[i]
    <3>1. n \in 2..L /\ n - 1 \in 1..L /\ (i < n - 1 \/ i = n - 1)
      BY <1>2
    <3>2. a < b /\ a \in 1..N /\ b \in 1..N /\ x \in 1..N
      BY <1>4, <1>5, <3>1
    <3>3. x < a \/ x = a
      BY <2>2, <3>1
    <3> HIDE DEF a, b, x
    <3>4. x < b
      BY <1>1, <3>2, <3>3
    <3> QED
      BY <3>4 DEF b, x
  <2> HIDE DEF Q
  <2> QED
    BY <1>2, <2>1, <2>2, UpTo
<1>9. \A i, j \in 1..L : i < j => s[i] < s[j]
  <2>1. \A j \in 1..L : j \in 0..L
    BY <1>2
  <2> QED
    BY <1>8, <2>1
<1> QED
  BY <1>4, <1>7, <1>9 DEF L

\* A list of nodes is read as messages that are named as their nodes.
LEMMA ReadIds ==
  ASSUME ConvInv, NEW list \in Seq(NodesOf(conv)), NEW msgs, IsRead(conv, list, msgs)
  PROVE  /\ Chosen(conv, list) \in Seq(NodesOf(conv))
         /\ DOMAIN msgs = 1..Len(Chosen(conv, list)) /\ Len(Chosen(conv, list)) \in Nat
         /\ msgs \in Seq(ToSet(msgs)) /\ Len(msgs) = Len(Chosen(conv, list))
         /\ \A i \in DOMAIN msgs :
              /\ msgs[i].id = Chosen(conv, list)[i] /\ msgs[i].node = msgs[i].id
              /\ msgs[i].id \in ToSet(list) /\ msgs[i].id \in Nat
<1> DEFINE t == Chosen(conv, list)
<1>1. t \in Seq(NodesOf(conv)) /\ ToSet(t) = ToSet(list) \cap ForReader(conv)
  BY OnlyTakes DEF Chosen
<1> HIDE DEF t
<1>2. DOMAIN t = 1..Len(t) /\ Len(t) \in Nat
  BY <1>1
<1>3. msgs = [i \in DOMAIN t |-> [id |-> conv.mapping[t[i]].message.id, node |-> t[i],
                                  text |-> DegradeCitations(conv.mapping[t[i]].message.parts)]]
  BY DEF IsRead, t
<1>4. DOMAIN msgs = 1..Len(t)
  BY <1>2, <1>3
<1>5. /\ \A n \in NodesOf(conv) : conv.mapping[n].message # None => conv.mapping[n].message.id = n
      /\ NodesOf(conv) \subseteq Nat
  BY DEF ConvInv, IsConversation
<1>6. ASSUME NEW i \in DOMAIN msgs
      PROVE  /\ msgs[i].id = t[i] /\ msgs[i].node = msgs[i].id
             /\ msgs[i].id \in ToSet(list) /\ msgs[i].id \in Nat
  <2>1. t[i] \in ToSet(list) /\ t[i] \in ForReader(conv)
    BY <1>1, <1>2, <1>4 DEF ToSet
  <2>2. t[i] \in NodesOf(conv) /\ conv.mapping[t[i]].message # None
    BY <2>1 DEF ForReader
  <2>3. msgs[i].id = conv.mapping[t[i]].message.id /\ msgs[i].node = t[i]
    BY <1>2, <1>3, <1>4
  <2> QED
    BY <1>5, <2>1, <2>2, <2>3
<1>7. msgs \in Seq(ToSet(msgs)) /\ Len(msgs) = Len(t)
  <2> DEFINE K == Len(t) E == ToSet(msgs)
  <2>1. msgs = [i \in 1..K |-> msgs[i]]
    BY <1>2, <1>3
  <2>2. \A i \in 1..K : msgs[i] \in E
    BY <1>4 DEF ToSet
  <2>3. K \in Nat
    BY <1>2
  <2> HIDE DEF K, E
  <2>4. Listing(msgs, E, K)
    BY <2>1, <2>2 DEF Listing
  <2>5. msgs \in Seq(E)
    BY <2>3, <2>4, ListingIsSequence
  <2>6. DOMAIN msgs = 1..K /\ DOMAIN msgs = 1..Len(msgs) /\ Len(msgs) \in Nat
    BY <1>4, <2>5 DEF K
  <2>7. Len(msgs) = K
    BY <2>3, <2>6
  <2> QED
    BY <2>5, <2>7 DEF K, E
<1> QED
  BY <1>1, <1>2, <1>4, <1>6, <1>7 DEF t

\* The messages of a rooted branch have names of their own.
LEMMA ReadIdentified ==
  ASSUME ConvInv, NEW s \in Chains(conv), IsRooted(conv, s), s \in Seq(NodesOf(conv)),
         NEW msgs, IsRead(conv, s, msgs)
  PROVE  Identified(msgs)
<1>1. PICK N \in 1..Size : IsConversation(conv, N)
  BY DEF ConvInv
<1>2. /\ \A i \in 1..Len(s) : s[i] \in 1..N
      /\ \A i, j \in 1..Len(s) : i < j => s[i] < s[j]
  BY <1>1, ChainIncreases
<1> DEFINE t == Chosen(conv, s)
<1>3. /\ DOMAIN msgs = 1..Len(t) /\ Len(t) \in Nat
      /\ \A i \in DOMAIN msgs : msgs[i].id = t[i] /\ msgs[i].id \in Nat
  BY ReadIds
<1>4. InOrder(t, s)
  BY OnlyOrdered DEF Chosen
<1> HIDE DEF t
<1>5. ASSUME NEW i \in 1..Len(t), NEW j \in 1..Len(t), i < j PROVE t[i] < t[j]
  BY <1>2, <1>4, <1>5 DEF InOrder
<1>6. ASSUME NEW i \in 1..Len(t), NEW j \in 1..Len(t), t[i] = t[j] PROVE i = j
  <2>1. t[i] \in Nat /\ t[j] \in Nat
    BY <1>3
  <2>2. ~(t[i] < t[j]) /\ ~(t[j] < t[i])
    BY <1>6, <2>1
  <2>3. ~(i < j) /\ ~(j < i)
    BY <1>5, <2>2
  <2> QED
    BY <1>3, <2>3
<1>7. \A i \in DOMAIN msgs : msgs[i].id # None
  BY <1>3, NoneAssumption
<1> QED
  BY <1>3, <1>6, <1>7 DEF Identified

\* What is read of the beginning of a list is the beginning of what is read of it.
StartsWith(ms, ns) ==
  /\ Len(ms) \in Nat /\ Len(ns) \in Nat /\ Len(ms) <= Len(ns)
  /\ DOMAIN ms = 1..Len(ms) /\ DOMAIN ns = 1..Len(ns)
  /\ \A i \in 1..Len(ms) : ms[i] = ns[i]

LEMMA ReadPrefix ==
  ASSUME ConvInv, NEW r \in Seq(NodesOf(conv)), NEW s \in Seq(NodesOf(conv)), IsPrefix(r, s),
         NEW ms, NEW ns, IsRead(conv, r, ms), IsRead(conv, s, ns)
  PROVE  StartsWith(ms, ns)
<1> DEFINE E == NodesOf(conv)
           S == ForReader(conv)
           rest == SubSeq(s, Len(r) + 1, Len(s))
           t == Chosen(conv, r)
           u == Chosen(conv, s)
<1>1. rest \in Seq(E) /\ s = r \o rest
  <2>1. /\ Len(r) \in Nat /\ Len(s) \in Nat /\ Len(r) <= Len(s)
        /\ SubSeq(r, 1, Len(r)) = SubSeq(s, 1, Len(r))
    BY DEF IsPrefix
  <2>2. r = SubSeq(s, 1, Len(r))
    <3>1. SubSeq(r, 1, Len(r)) = r
      OBVIOUS
    <3> QED
      BY <2>1, <3>1
  <2>3. rest \in Seq(E)
    BY <2>1
  <2>4. s = SubSeq(s, 1, Len(r)) \o SubSeq(s, Len(r) + 1, Len(s))
    <3> DEFINE k == Len(r)
    <3>1. k \in Nat /\ k <= Len(s)
      BY <2>1
    <3> HIDE DEF k
    <3>2. s = SubSeq(s, 1, k) \o SubSeq(s, k + 1, Len(s))
      <4> DEFINE L == Len(s)
                 a == SubSeq(s, 1, k)
                 b == SubSeq(s, k + 1, L)
                 j == a \o b
      <4>1. L \in Nat /\ s \in Seq(E) /\ k <= L
        BY <2>1, <3>1
      <4>2. a \in Seq(E) /\ Len(a) = k /\ \A i \in 1..k : a[i] = s[i]
        BY <3>1, <4>1
      <4>3. b \in Seq(E) /\ Len(b) = L - k /\ \A i \in 1..(L - k) : b[i] = s[k + i]
        BY <3>1, <4>1
      <4> HIDE DEF a, b
      <4>4. /\ j \in Seq(E) /\ DOMAIN j = 1..(Len(a) + Len(b))
            /\ \A i \in 1..Len(a) : j[i] = a[i]
            /\ \A i \in 1..Len(b) : j[Len(a) + i] = b[i]
        BY <4>2, <4>3, ConcatShape
      <4>5. \A i \in 1..k : j[i] = a[i]
        BY <4>2, <4>4
      <4>6. \A i \in 1..(L - k) : j[k + i] = b[i]
        BY <4>2, <4>3, <4>4
      <4> HIDE DEF L, j
      <4>7. ASSUME NEW i \in 1..L PROVE j[i] = s[i]
        <5>1. CASE i \in 1..k
          BY <4>2, <4>5, <5>1
        <5>2. CASE i \notin 1..k
          <6> DEFINE m == i - k
          <6>1. m \in 1..(L - k) /\ i = k + m
            BY <3>1, <4>1, <5>2
          <6> HIDE DEF m
          <6> QED
            BY <4>3, <4>6, <6>1
        <5> QED
          BY <5>1, <5>2
      <4>8. Len(j) = L
        <5>1. Len(a) + Len(b) = L
          BY <3>1, <4>1, <4>2, <4>3
        <5>2. DOMAIN j = 1..L /\ DOMAIN j = 1..Len(j) /\ Len(j) \in Nat
          BY <4>4, <5>1
        <5> QED
          BY <4>1, <5>2
      <4>9. j = s
        BY <4>1, <4>4, <4>7, <4>8 DEF L
      <4> QED
        BY <4>9 DEF j, a, b, L
    <3> QED
      BY <3>2 DEF k
  <2> QED
    BY <2>2, <2>3, <2>4
<1> HIDE DEF rest
<1>2. Only(s, S) = Only(r, S) \o Only(rest, S)
  <2>1. Only(r \o rest, S) = Only(r, S) \o Only(rest, S)
    BY <1>1, OnlyConcat
  <2> QED
    BY <1>1, <2>1
<1>3. t \in Seq(E) /\ Only(rest, S) \in Seq(E) /\ u = t \o Only(rest, S)
  BY <1>1, <1>2, OnlyTakes DEF Chosen
<1>4. /\ DOMAIN ms = 1..Len(t) /\ Len(ms) = Len(t) /\ DOMAIN ns = 1..Len(u) /\ Len(ns) = Len(u)
      /\ Len(t) \in Nat /\ Len(u) \in Nat
  BY ReadIds
<1> DEFINE F(k) == [id |-> conv.mapping[k].message.id, node |-> k,
                    text |-> DegradeCitations(conv.mapping[k].message.parts)]
<1>5. ms = [i \in DOMAIN t |-> F(t[i])] /\ ns = [i \in DOMAIN u |-> F(u[i])]
  BY DEF IsRead
<1> HIDE DEF t, u, F, S
<1>6. Len(t) <= Len(u) /\ \A i \in 1..Len(t) : u[i] = t[i]
  BY <1>3
<1>7. DOMAIN t = 1..Len(t) /\ DOMAIN u = 1..Len(u)
  BY <1>3
<1>8. ASSUME NEW i \in 1..Len(t) PROVE ms[i] = ns[i]
  <2>1. i \in 1..Len(u)
    BY <1>4, <1>6
  <2>2. ms[i] = F(t[i]) /\ ns[i] = F(u[i])
    BY <1>5, <1>7, <2>1
  <2> QED
    BY <1>6, <2>2
<1> QED
  BY <1>4, <1>6, <1>8 DEF StartsWith

LEMMA StartIsPrefix ==
  ASSUME NEW E, NEW ms \in Seq(E), NEW ns \in Seq(E), StartsWith(ms, ns)
  PROVE  IsPrefix(ms, ns)
<1>1. Len(ms) \in Nat /\ Len(ns) \in Nat /\ Len(ms) <= Len(ns)
  BY DEF StartsWith
<1>2. \A i \in 1..Len(ms) : ms[i] = ns[i]
  BY DEF StartsWith
<1>3. SubSeq(ms, 1, Len(ms)) = SubSeq(ns, 1, Len(ms))
  BY <1>1, <1>2
<1> QED
  BY <1>1, <1>3 DEF IsPrefix

\* A source that begins with the one before has nothing against it.
LEMMA ContinuationPlan ==
  ASSUME NEW p, NEW q, StartsWith(p.msgs, q.msgs), UniqueIds(q.msgs),
         p.candidate = q.candidate, p.parser = q.parser
  PROVE  Preview(p, q, NoTarget, NoTarget, TRUE).status
           \in {"ready", "no_change", "unsupported_content"}
<1> DEFINE ms == p.msgs ns == q.msgs
<1>1. /\ Len(ms) \in Nat /\ Len(ns) \in Nat /\ Len(ms) <= Len(ns)
      /\ DOMAIN ms = 1..Len(ms) /\ DOMAIN ns = 1..Len(ns)
      /\ \A i \in 1..Len(ms) : ms[i] = ns[i]
  BY DEF StartsWith
<1>2. \A i, j \in DOMAIN ns : ns[i].id = ns[j].id => i = j
  BY DEF UniqueIds
<1>3. \A i \in 1..Len(ms) : i \in DOMAIN ns
  BY <1>1
<1> HIDE DEF ms, ns
<1>4. \A i, j \in DOMAIN ms : ms[i].id = ms[j].id => i = j
  BY <1>1, <1>2, <1>3
<1>5. IdsOf(ms) \subseteq IdsOf(ns)
  BY <1>1, <1>3 DEF IdsOf
<1>6. Reduced(ms, ns) = {} /\ Kept(ms, ns) = IdsOf(ms)
  BY <1>5 DEF Reduced, Kept
<1>7. ASSUME NEW id \in IdsOf(ms)
      PROVE  At(ms, id) \in 1..Len(ms) /\ At(ms, id) = At(ns, id)
  <2>1. PICK i \in 1..Len(ms) : ms[i].id = id
    BY <1>1 DEF IdsOf
  <2>2. At(ms, id) = i
    BY <1>1, <1>4, <2>1 DEF At
  <2>3. At(ns, id) = i
    BY <1>1, <1>2, <1>3, <2>1 DEF At
  <2> QED
    BY <2>2, <2>3
<1>8. ASSUME NEW i \in 1..Len(ms) PROVE ParentNode(ms, i) = ParentNode(ns, i)
  <2>1. i = 1 \/ i - 1 \in 1..Len(ms)
    BY <1>1
  <2> QED
    BY <1>1, <2>1 DEF ParentNode
<1>9. \A id \in Kept(ms, ns) : ~Moved(ms, ns, id)
  BY <1>6, <1>7, <1>8 DEF Moved
<1>10. SameRelativeOrder(ms, ns)
  BY <1>6, <1>7 DEF SameRelativeOrder
<1>11. SourceConflicts(p, q, TRUE) = {}
  BY <1>9, <1>10 DEF SourceConflicts, ms, ns
<1>12. Conflicts(p, q, NoTarget, NoTarget, TRUE) = {}
  BY <1>11 DEF Conflicts
<1>13. Valid(p, q, NoTarget, NoTarget)
  BY <1>2, <1>4 DEF Valid, UniqueIds, ms, ns
<1>14. Reduced(p.msgs, q.msgs) = {}
  BY <1>6 DEF ms, ns
<1> QED
  BY <1>12, <1>13, <1>14 DEF Preview

\* The page of a conversation within the limits is on the branch that ancestry climbs.
LEMMA PublishedBranch ==
  ASSUME ConvInv, page = Published, Len(page.linear) <= MaxDepth + 1
  PROVE  /\ CurrentBranch(page) /\ LinearIds(page) \in Chains(conv)
         /\ IsRooted(conv, LinearIds(page)) /\ LinearIds(page) \in Seq(NodesOf(conv))
         /\ IsListed(page.linear, LinearIds(page)) /\ Len(page.linear) = Len(LinearIds(page))
<1> DEFINE s == LinearIds(page)
           a == Ancestry(page)
<1>1. s \in Chains(conv) /\ IsRooted(conv, s) /\ IsListed(page.linear, s)
  BY PublishedChain
<1>2. PICK N \in 1..Size : IsConversation(conv, N)
  BY DEF ConvInv
<1>3. /\ Chains(page) = Chains(conv) /\ NodesOf(page) = NodesOf(conv)
      /\ \A t : IsRooted(page, t) <=> IsRooted(conv, t)
      /\ \A g, K : Climbs(g, page, K) <=> Climbs(g, conv, K)
  <2>1. page.mapping = conv.mapping /\ page.current = conv.current
    BY PublishedShape
  <2> QED
    BY <2>1, SameChains
<1>4. PICK f : Climbs(f, page, MaxDepth) /\ a = f[MaxDepth]
  BY AncestryIsDefined
<1>5. MaxDepth \in Nat /\ MaxDepth \in 0..MaxDepth
  BY LimitsAssumption
<1>6. Climbs(f, conv, MaxDepth) /\ a \in Chains(conv)
  BY <1>3, <1>4, AncestryIsChain
<1>7. \A n \in 0..MaxDepth : f[n][1] \in NodesOf(conv)
  BY <1>2, <1>5, <1>6, ChainDescends
<1>8. \A n \in 0..MaxDepth : IsRooted(conv, f[n]) \/ Len(f[n]) = n + 1
  BY <1>5, <1>6, <1>7, ClimbLength
<1>9. IsRooted(conv, a) \/ Len(a) = MaxDepth + 1
  BY <1>4, <1>5, <1>8
<1> HIDE DEF s, a
<1>10. Len(s) \in Nat \ {0} /\ Len(a) \in Nat \ {0} /\ DOMAIN s = 1..Len(s)
  BY <1>1, <1>6, ChainShape
<1>11. Len(page.linear) = Len(s)
  <2>1. page.linear = [i \in DOMAIN s |-> conv.mapping[s[i]]]
    BY <1>1 DEF IsListed
  <2> DEFINE K == Len(s)
  <2>2. page.linear = [i \in 1..K |-> conv.mapping[s[i]]] /\ K \in Nat
    BY <1>10, <2>1
  <2> HIDE DEF K
  <2>3. Len(page.linear) = K
    BY <2>2
  <2> QED
    BY <2>3 DEF K
<1>12. Len(a) <= Len(s)
  BY <1>1, <1>6, RootedIsLongest
<1>13. Len(a) = Len(s)
  <2>1. CASE IsRooted(conv, a)
    <3>1. Len(s) <= Len(a)
      BY <1>1, <1>6, <2>1, RootedIsLongest
    <3> QED
      BY <1>10, <1>12, <3>1
  <2>2. CASE Len(a) = MaxDepth + 1
    <3>1. Len(s) <= MaxDepth + 1
      BY <1>11, Zenon
    <3> DEFINE x == Len(a) y == Len(s)
    <3>2. x \in Nat /\ y \in Nat /\ MaxDepth \in Nat
      BY <1>5, <1>10
    <3>3. x <= y /\ x = MaxDepth + 1 /\ y <= MaxDepth + 1
      BY <1>12, <2>2, <3>1, Zenon
    <3> HIDE DEF x, y
    <3>4. x = y
      BY ONLY <3>2, <3>3
    <3> QED
      BY <3>4 DEF x, y
  <2> QED
    BY <1>9, <2>1, <2>2
<1>14. a = s
  BY <1>1, <1>6, <1>13, RootedIsUnique
<1>15. Rooted(page)
  <2>1. Head(a) = a[1]
    BY <1>6, ChainShape
  <2>2. IsRooted(page, a)
    BY <1>1, <1>3, <1>14
  <2> QED
    BY <2>1, <2>2 DEF Rooted, IsRooted, a
<1>16. CurrentBranch(page)
  BY <1>14, <1>15 DEF CurrentBranch, s, a
<1>17. s \in Seq(NodesOf(conv))
  <2>1. \A i \in 1..Len(s) : s[i] \in 1..N
    BY <1>1, <1>2, ChainIncreases
  <2>2. NodesOf(conv) = 1..N
    BY <1>2 DEF IsConversation
  <2>3. ToSet(s) \subseteq NodesOf(conv)
    BY <1>10, <2>1, <2>2 DEF ToSet
  <2>4. s \in Seq(Values(conv))
    BY <1>1, ChainShape
  <2> QED
    BY <2>3, <2>4, SequenceWithin
<1> QED
  BY <1>1, <1>11, <1>16, <1>17 DEF s

\* One that is continued can be read, and what is read begins with what was applied.
LEMMA ContinuationReads ==
  ASSUME LifeInv, page = Published, applied # None, IsPrefix(path, LinearIds(page)),
         Cardinality(NodesOf(page)) <= MaxNodes, Len(page.linear) <= MaxDepth + 1
  PROVE  Readable(page) /\ StartsWith(applied.msgs, Messages(page))
<1> DEFINE s == LinearIds(page)
           ns == Messages(page)
<1>0. ConvInv /\ AppliedInv
  BY DEF LifeInv
<1>1. /\ CurrentBranch(page) /\ s \in Chains(conv) /\ IsRooted(conv, s)
      /\ s \in Seq(NodesOf(conv)) /\ IsListed(page.linear, s) /\ Len(page.linear) = Len(s)
  BY <1>0, PublishedBranch
<1>2. PICK N \in 1..Size : IsConversation(conv, N)
  BY <1>0 DEF ConvInv
<1>3. /\ NodesOf(conv) = 1..N /\ conv.current \in 1..N
      /\ \A n \in 1..N :
           /\ conv.mapping[n].id = n /\ ParentOf(conv, n) \in 1..(n - 1) \cup {None}
           /\ conv.mapping[n].children \in Seq(1..N)
      /\ \A m, n \in 1..N : n \in ToSet(conv.mapping[m].children) <=> ParentOf(conv, n) = m
  BY <1>2 DEF IsConversation
<1>4. /\ page.mapping = conv.mapping /\ page.current = conv.current
      /\ NodesOf(page) = 1..N /\ \A n : ParentOf(page, n) = ParentOf(conv, n)
  <2>1. page.mapping = conv.mapping /\ page.current = conv.current
    BY PublishedShape
  <2> QED
    BY <1>3, <2>1 DEF NodesOf, ParentOf
<1>5. N \in Nat /\ 1 <= N
  BY SizeAssumption
<1>6. Cardinality(NodesOf(page)) = N
  <2>1. 1 \in Int /\ N \in Int
    BY <1>5
  <2>2. Cardinality(1..N) = IF 1 > N THEN 0 ELSE N - 1 + 1
    BY <2>1, FS_Interval
  <2> QED
    BY <1>4, <1>5, <2>2
<1>7. MaxNodes \in Nat
  BY LimitsAssumption
<1>8. /\ Len(s) \in Nat \ {0} /\ DOMAIN s = 1..Len(s) /\ Len(s) <= N
      /\ \A i \in 1..Len(s) : s[i] \in 1..N
  BY <1>1, <1>2, ChainShape, ChainIncreases
<1>9. Cardinality(NodesOf(page)) \in 1..MaxNodes
  BY <1>5, <1>6, <1>7
<1>10. page.current # None
  BY <1>3, <1>4, <1>5, NoneAssumption
<1>11. ValidLinear(page)
  <2>1. page.linear = [i \in 1..Len(s) |-> conv.mapping[s[i]]]
    BY <1>1, <1>8 DEF IsListed
  <2> HIDE DEF s
  <2>2. Len(page.linear) \in 1..MaxNodes
    BY <1>1, <1>5, <1>6, <1>7, <1>8
  <2>3. ASSUME NEW i \in DOMAIN page.linear
        PROVE  /\ page.linear[i].id \in NodesOf(page)
               /\ page.linear[i] = page.mapping[page.linear[i].id]
    <3>1. i \in 1..Len(s) /\ page.linear[i] = conv.mapping[s[i]]
      BY <2>1
    <3>2. page.linear[i].id = s[i]
      BY <1>3, <1>8, <3>1
    <3> QED
      BY <1>4, <1>8, <3>1, <3>2
  <2> QED
    BY <2>2, <2>3 DEF ValidLinear
<1>12. ValidChildren(page)
  <2>1. \A n \in 1..N : ToSet(conv.mapping[n].children) \subseteq 1..N
    BY <1>3 DEF ToSet
  <2>2. \A n \in 1..N : 1..(n - 1) \subseteq 1..N
    BY <1>5
  <2> QED
    BY <1>3, <1>4, <2>1, <2>2 DEF ValidChildren
<1>13. IsRead(conv, s, ns)
  <2>1. s \in Seq(NodesOf(page))
    BY <1>1, <1>3, <1>4
  <2>2. IsRead(page, s, ns)
    BY <2>1, MessagesRead
  <2>3. SameMessages(page, conv)
    BY <1>3, <1>4 DEF SameMessages
  <2> QED
    BY <2>1, <2>2, <2>3, ReadAgain
<1>14. path \in Seq(NodesOf(conv)) /\ IsRead(conv, path, applied.msgs) /\ applied.msgs # <<>>
  BY <1>0 DEF AppliedInv
<1> HIDE DEF s, ns
<1>15. StartsWith(applied.msgs, ns)
  <2>1. IsPrefix(path, s)
    BY DEF s
  <2> QED
    BY <1>0, <1>1, <1>13, <1>14, <2>1, ReadPrefix
<1>16. ns # <<>>
  <2>1. applied.msgs \in Seq(ToSet(applied.msgs))
    BY <1>0, <1>14, ReadIds
  <2>2. Len(applied.msgs) \in Nat /\ Len(applied.msgs) # 0
    BY <1>14, <2>1
  <2>3. Len(ns) \in Nat /\ Len(applied.msgs) <= Len(ns)
    BY <1>15 DEF StartsWith
  <2>4. Len(ns) # 0
    BY <2>2, <2>3
  <2> QED
    BY <2>4
<1>17. Identified(ns)
  BY <1>0, <1>1, <1>13, ReadIdentified
<1>18. Readable(page)
  BY <1>1, <1>3, <1>4, <1>9, <1>10, <1>11, <1>12, <1>16, <1>17 DEF Readable, ns
<1> QED
  BY <1>15, <1>18 DEF ns

LEMMA ContinuationNow ==
  ASSUME LifeInv, page = Published, applied # None
  PROVE  \/ ~IsPrefix(path, LinearIds(page))
         \/ Cardinality(NodesOf(page)) > MaxNodes \/ Len(page.linear) > MaxDepth + 1
         \/ /\ Now # Refused
            /\ IsPrefix(applied.msgs, Now.msgs)
            /\ Plan.status \in {"ready", "no_change", "unsupported_content"}
<1> SUFFICES ASSUME IsPrefix(path, LinearIds(page)),
                    ~(Cardinality(NodesOf(page)) > MaxNodes),
                    ~(Len(page.linear) > MaxDepth + 1)
             PROVE  /\ Now # Refused
                    /\ IsPrefix(applied.msgs, Now.msgs)
                    /\ Plan.status \in {"ready", "no_change", "unsupported_content"}
  OBVIOUS
<1>0. ConvInv /\ AppliedInv
  BY DEF LifeInv
<1>1. /\ LinearIds(Published) \in Chains(conv)
      /\ IsListed(Published.linear, LinearIds(Published))
  BY <1>0, PublishedChain
<1>2. Len(page.linear) \in Nat
  <2> DEFINE s == LinearIds(Published)
  <2>1. DOMAIN s = 1..Len(s) /\ Len(s) \in Nat
    BY <1>1, ChainShape
  <2>2. page.linear = [i \in 1..Len(s) |-> conv.mapping[s[i]]]
    BY <1>1, <2>1 DEF IsListed
  <2> HIDE DEF s
  <2> QED
    BY <2>1, <2>2
<1>3. Cardinality(NodesOf(page)) \in Nat
  <2>1. PICK N \in 1..Size : IsConversation(conv, N)
    BY <1>0 DEF ConvInv
  <2>2. NodesOf(page) = 1..N
    BY <2>1, PublishedShape DEF IsConversation, NodesOf
  <2>3. IsFiniteSet(1..N)
    BY SizeAssumption, FS_Interval
  <2> QED
    BY <2>2, <2>3, FS_CardinalityType
<1>4. Cardinality(NodesOf(page)) <= MaxNodes /\ Len(page.linear) <= MaxDepth + 1
  BY <1>2, <1>3, LimitsAssumption
<1>5. Readable(page) /\ StartsWith(applied.msgs, Messages(page))
  BY <1>4, ContinuationReads
<1>6. Now = Snapshot(page)
  BY <1>5 DEF Now, BuildSnapshot
<1>7. /\ Now.msgs = Messages(page) /\ Now.candidate = "k" /\ Now.parser = 1
  BY <1>6, PublishedShape DEF Snapshot
<1>8. Messages(page) # <<>> /\ Identified(Messages(page))
  BY <1>5 DEF Readable
<1>9. Now # Refused
  BY <1>7, <1>8 DEF Refused
<1>10. applied.candidate = "k" /\ applied.parser = 1
  BY <1>0 DEF AppliedInv
<1>11. UniqueIds(Now.msgs)
  BY <1>7, <1>8 DEF Identified, UniqueIds
<1>12. Plan.status \in {"ready", "no_change", "unsupported_content"}
  BY <1>5, <1>7, <1>10, <1>11, ContinuationPlan DEF Plan
<1>13. IsPrefix(applied.msgs, Now.msgs)
  <2>1. /\ path \in Seq(NodesOf(conv)) /\ IsRead(conv, path, applied.msgs)
        /\ LinearIds(page) \in Seq(NodesOf(conv)) /\ IsRead(conv, LinearIds(page), Messages(page))
    BY <1>0, <1>5, ReadPublished DEF AppliedInv
  <2> DEFINE ms == applied.msgs ns == Messages(page)
             E == ToSet(ms) \cup ToSet(ns)
  <2>2. ms \in Seq(ToSet(ms)) /\ ns \in Seq(ToSet(ns))
    BY <1>0, <2>1, ReadIds
  <2> HIDE DEF ms, ns
  <2>3. ms \in Seq(E)
    BY <2>2, SequenceWithin
  <2>4. ns \in Seq(E)
    BY <2>2, SequenceWithin
  <2>5. StartsWith(ms, ns)
    BY <1>5 DEF ms, ns
  <2>6. IsPrefix(ms, ns)
    BY <2>3, <2>4, <2>5, StartIsPrefix
  <2> QED
    BY <1>7, <2>6 DEF ms, ns
<1> QED
  BY <1>9, <1>12, <1>13

LEMMA BranchKeepsApplied ==
  ASSUME LifeInv, page = Published, applied # None, Now # Refused,
         Plan.status \in {"ready", "no_change"}, NEW i \in DOMAIN applied.msgs
  PROVE  applied.msgs[i].node \in ToSet(LinearIds(page))
<1>0. ConvInv /\ AppliedInv
  BY DEF LifeInv
<1>1. Readable(page) /\ Now.msgs = Messages(page)
  BY ReadNow
<1>2. /\ path \in Seq(NodesOf(conv)) /\ IsRead(conv, path, applied.msgs)
      /\ LinearIds(page) \in Seq(NodesOf(conv)) /\ IsRead(conv, LinearIds(page), Now.msgs)
  BY <1>0, <1>1, ReadPublished DEF AppliedInv
<1>3. Reduced(applied.msgs, Now.msgs) = {}
  BY DEF Plan, Preview
<1>4. PICK j \in DOMAIN Now.msgs : Now.msgs[j].id = applied.msgs[i].id
  BY <1>3 DEF Reduced, IdsOf
<1>5. applied.msgs[i].node = applied.msgs[i].id
  BY <1>0, <1>2, ReadIds
<1>6. Now.msgs[j].id \in ToSet(LinearIds(page))
  BY <1>0, <1>2, ReadIds
<1> QED
  BY <1>4, <1>5, <1>6

\* A conversation that was only continued parses within the limits and plans without a
\* conflict, with what was applied as its beginning; and what is planned without a conflict
\* is on a branch that has every message applied.
THEOREM AlwaysContinued ==
  LifeSpec => []UpdatesAreContinuations
<1>1. LifeInv => UpdatesAreContinuations
  BY ContinuationNow, BranchKeepsApplied DEF UpdatesAreContinuations
<1> QED
  BY <1>1, AlwaysReadAsApplied, PTL
=============================================================================

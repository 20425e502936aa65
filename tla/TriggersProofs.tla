--------------------------- MODULE TriggersProofs ---------------------------
(***************************************************************************)
(* Theorems about the triggers and frames of Triggers.                     *)
(***************************************************************************)
EXTENDS Triggers, SequenceTheorems, TLAPS

TypeInv ==
  /\ zone_seq \in [Hosts -> 0 .. MaxMoves] /\ events \in 0 .. MaxEvents
  /\ pending \subseteq Instance /\ batches \in Seq(SUBSET Instance)
  /\ frames \in Seq(Frame)

\* Questions: an order is asked for between effects, an effect asks from a frame.
AskInv ==
  /\ asked = "order" => frames = <<>> /\ pending = {} /\ batches # <<>>
  /\ asked = "effect" => frames # <<>>

\* A trigger in the i-th batch was queued when i - 1 batches were open, a
\* pending one since the last batch was formed.
LevelInv ==
  /\ \A t \in pending : t.level = Len(batches)
  /\ \A i \in 1 .. Len(batches) : \A t \in batches[i] : t.level + 1 = i

\* Once-per-turn keys: only the outermost frame has one, it is unused, and who
\* acted with a key this turn has used it or is that frame.
KeyInv(fr, used, ac) ==
  /\ \A i \in 1 .. Len(fr) : i # 1 => fr[i].key = NoKey
  /\ Len(fr) > 0 /\ fr[1].key # NoKey => fr[1].key \notin used
  /\ \A x \in ac : \/ x[1] \in used
                   \/ /\ Len(fr) > 0 /\ fr[1].key # NoKey /\ fr[1].acted
                      /\ x = <<fr[1].key, fr[1].trigger.event>>
  /\ \A x, y \in ac : x[1] = y[1] => x = y

\* Whoever is in RESOLVING has a frame or a trigger that takes it out.
OwnedInv(res, fr, out) ==
  \A c \in res :
    \/ \E i \in 1 .. Len(fr) : fr[i].kind \in {"command", "burst"} /\ fr[i].card = c
    \/ c \in Bursts /\ \E t \in out : t.source = c

IInv ==
  /\ TypeInv /\ AskInv /\ LevelInv /\ OncePerTurn
  /\ over \/ KeyInv(frames, once_used, acts)
  /\ over \/ OwnedInv(resolving, frames, Outstanding)
-----------------------------------------------------------------------------
(* Frames and batches as sequences.                                        *)

\* A sequence that is not empty has a last element.
LEMMA HasLast ==
  ASSUME NEW S, NEW s \in Seq(S), s # <<>>
  PROVE  Len(s) \in Nat \ {0} /\ Len(s) \in 1 .. Len(s) /\ 1 \in 1 .. Len(s) /\ s[Len(s)] \in S
<1>1. Len(s) \in Nat \ {0}
  BY EmptySeq
<1>2. \A n \in Nat \ {0} : n \in 1 .. n /\ 1 \in 1 .. n
  OBVIOUS
<1>3. QED
  BY <1>1, <1>2, ElementOfSeq

\* What remains without the last element.
LEMMA FrontIs ==
  ASSUME NEW S, NEW s \in Seq(S), s # <<>>
  PROVE  /\ Front(s) \in Seq(S) /\ Len(Front(s)) = Len(s) - 1
         /\ \A i \in 1 .. Len(s) - 1 : i \in 1 .. Len(s) /\ Front(s)[i] = s[i]
<1>1. PICK n \in Nat \ {0} : Len(s) = n
  BY HasLast
<1>2. \A i \in 1 .. n - 1 : i \in 1 .. n /\ s[i] \in S
  BY <1>1, ElementOfSeq
<1>3. 1 \in Int /\ n - 1 \in Int /\ (n - 1) - 1 + 1 = n - 1
      /\ (IF 1 <= n - 1 THEN (n - 1) - 1 + 1 ELSE 0) = n - 1
  OBVIOUS
<1>4. /\ SubSeq(s, 1, n - 1) \in Seq(S)
      /\ Len(SubSeq(s, 1, n - 1)) = IF 1 <= n - 1 THEN (n - 1) - 1 + 1 ELSE 0
      /\ \A i \in 1 .. (n - 1) - 1 + 1 : SubSeq(s, 1, n - 1)[i] = s[1 + i - 1]
  BY <1>2, <1>3, SubSeqProperties
<1>5. \A i \in 1 .. n - 1 : 1 + i - 1 = i
  OBVIOUS
<1>6. Front(s) = SubSeq(s, 1, n - 1)
  BY <1>1 DEF Front
<1>7. QED
  BY <1>1, <1>2, <1>3, <1>4, <1>5, <1>6

\* mark_acted touches one flag of the top frame.
LEMMA ActedIs ==
  ASSUME NEW f \in Seq(Frame), f # <<>>
  PROVE  LET g == [f EXCEPT ![Len(f)].acted = TRUE] IN
         /\ g \in Seq(Frame) /\ Len(g) = Len(f) /\ g # <<>> /\ g[Len(f)].acted
         /\ \A i \in 1 .. Len(f) :
              /\ g[i].key = f[i].key /\ g[i].kind = f[i].kind /\ g[i].card = f[i].card
              /\ g[i].trigger = f[i].trigger /\ (f[i].acted => g[i].acted)
<1> DEFINE n == Len(f)
           top == [f[n] EXCEPT !.acted = TRUE]
           g == [f EXCEPT ![n] = top]
<1>1. n \in Nat \ {0} /\ n \in 1 .. n /\ f[n] \in Frame
  BY HasLast
<1>2. /\ top \in Frame /\ top.acted /\ top.key = f[n].key /\ top.kind = f[n].kind
      /\ top.card = f[n].card /\ top.trigger = f[n].trigger
  BY <1>1 DEF Frame
<1>3. [f EXCEPT ![n].acted = TRUE] = g
  OBVIOUS
<1> HIDE DEF top
<1>4. g \in Seq(Frame) /\ Len(g) = n /\ \A j \in 1 .. n : g[j] = IF j = n THEN top ELSE f[j]
  BY <1>1, <1>2, ExceptSeq
<1> HIDE DEF g
<1>5. g # <<>>
  BY <1>1, <1>4, EmptySeq
<1>6. QED
  BY <1>1, <1>2, <1>3, <1>4, <1>5

\* The triggers that are outstanding, one by one.
LEMMA OutstandingIs ==
  ASSUME NEW p, NEW S, NEW b \in Seq(S), NEW t
  PROVE  t \in p \cup UNION Range(b) <=> t \in p \/ \E i \in 1 .. Len(b) : t \in b[i]
  BY LenProperties DEF Range

\* The same of the present ones.
LEMMA BatchesAre ==
  ASSUME batches \in Seq(SUBSET Instance)
  PROVE  \A u : u \in Outstanding <=> u \in pending \/ \E i \in 1 .. Len(batches) : u \in batches[i]
  BY OutstandingIs DEF Outstanding

-----------------------------------------------------------------------------
(* What each change of the frames does to the keys and to RESOLVING.       *)

\* The key of the top frame is noted when it acts.
LEMMA ActingKeepsKeys ==
  ASSUME NEW f \in Seq(Frame), f # <<>>, NEW used, NEW ac, KeyInv(f, used, ac)
  PROVE  LET top == f[Len(f)] IN
         KeyInv([f EXCEPT ![Len(f)].acted = TRUE], used,
                IF top.key = NoKey THEN ac ELSE ac \cup {<<top.key, top.trigger.event>>})
<1> DEFINE n == Len(f)
           top == f[n]
           g == [f EXCEPT ![n].acted = TRUE]
           new == <<top.key, top.trigger.event>>
           ac2 == IF top.key = NoKey THEN ac ELSE ac \cup {new}
<1>1. n \in Nat \ {0} /\ n \in 1 .. n /\ 1 \in 1 .. n
  BY HasLast
<1>2. /\ Len(g) = n /\ g[n].acted
      /\ \A i \in 1 .. n : /\ g[i].key = f[i].key /\ g[i].trigger = f[i].trigger
                           /\ f[i].acted => g[i].acted
  BY ActedIs
<1> HIDE DEF g
<1>3. (top.key # NoKey => n = 1 /\ top.key \notin used) /\ new[1] = top.key
  <2>1. top.key # NoKey => n = 1
    BY <1>1 DEF KeyInv
  <2>2. top.key # NoKey => top.key \notin used
    BY <1>1, <2>1 DEF KeyInv
  <2>3. new[1] = top.key
    OBVIOUS
  <2>4. QED
    BY <2>1, <2>2, <2>3
<1>4. \A x \in ac : x[1] \in used \/ (f[1].key # NoKey /\ f[1].acted
                                       /\ x = <<f[1].key, f[1].trigger.event>>)
  BY DEF KeyInv
<1>5. \A i \in 1 .. Len(g) : i # 1 => g[i].key = NoKey
  BY <1>2 DEF KeyInv
<1>6. Len(g) > 0 /\ g[1].key # NoKey => g[1].key \notin used
  BY <1>1, <1>2 DEF KeyInv
<1>7. \A x \in ac2 : x[1] \in used \/ (Len(g) > 0 /\ g[1].key # NoKey /\ g[1].acted
                                        /\ x = <<g[1].key, g[1].trigger.event>>)
  <2>1. ASSUME NEW x \in ac
        PROVE  x[1] \in used \/ (Len(g) > 0 /\ g[1].key # NoKey /\ g[1].acted
                                  /\ x = <<g[1].key, g[1].trigger.event>>)
    BY <1>1, <1>2, <1>4
  <2>2. top.key # NoKey => Len(g) > 0 /\ g[1].key # NoKey /\ g[1].acted
                           /\ new = <<g[1].key, g[1].trigger.event>>
    BY <1>1, <1>2, <1>3
  <2>3. QED
    BY <2>1, <2>2
<1>8. \A x \in ac : top.key # NoKey /\ x[1] = top.key => x = new
  BY <1>3, <1>4
<1>9. \A x, y \in ac2 : x[1] = y[1] => x = y
  <2>1. \A x, y \in ac : x[1] = y[1] => x = y
    BY DEF KeyInv
  <2>2. QED
    BY <1>3, <1>8, <2>1
<1>10. QED
  BY <1>5, <1>6, <1>7, <1>9 DEF KeyInv, g

\* A frame above another one has no key.
LEMMA PushKeepsKeys ==
  ASSUME NEW f \in Seq(Frame), f # <<>>, NEW used, NEW ac, KeyInv(f, used, ac),
         NEW top \in Frame, top.key = NoKey
  PROVE  KeyInv(Append(f, top), used, ac)
<1> DEFINE n == Len(f)
           g == Append(f, top)
<1>1. n \in Nat \ {0} /\ 1 \in 1 .. n
  BY HasLast
<1>2. Len(g) = n + 1 /\ g[n + 1] = top /\ \A i \in 1 .. n : g[i] = f[i]
  BY AppendProperties
<1> HIDE DEF g
<1>3. g[1] = f[1] /\ Len(g) > 0
  BY <1>1, <1>2
<1>4. \A i \in 1 .. n + 1 : i \in 1 .. n \/ i = n + 1
  BY <1>1
<1>5. \A i \in 1 .. Len(g) : i # 1 => g[i].key = NoKey
  BY <1>2, <1>4 DEF KeyInv
<1>6. QED
  BY <1>1, <1>3, <1>5 DEF KeyInv, g

\* The first frame of an effect has no key, or an unused one.
LEMMA StartKeepsKeys ==
  ASSUME NEW used, NEW ac, KeyInv(<<>>, used, ac), NEW f,
         f.key = NoKey \/ f.key \notin used
  PROVE  KeyInv(<<f>>, used, ac)
<1>1. Len(<<f>>) = 1 /\ <<f>>[1] = f /\ Len(<<>>) = 0
  OBVIOUS
<1>2. \A i \in 1 .. 1 : i = 1
  OBVIOUS
<1>3. QED
  BY <1>1, <1>2 DEF KeyInv

\* finish_frame uses the key of a frame that acted.
LEMMA PopKeepsKeys ==
  ASSUME NEW f \in Seq(Frame), f # <<>>, NEW used, NEW ac, KeyInv(f, used, ac)
  PROVE  LET top == f[Len(f)] IN
         KeyInv(Front(f), IF top.key # NoKey /\ top.acted THEN used \cup {top.key} ELSE used, ac)
<1> DEFINE n == Len(f)
           top == f[n]
           g == Front(f)
           used2 == IF top.key # NoKey /\ top.acted THEN used \cup {top.key} ELSE used
<1>1. n \in Nat \ {0} /\ n \in 1 .. n /\ 1 \in 1 .. n
  BY HasLast
<1>2. Len(g) = n - 1 /\ \A i \in 1 .. n - 1 : i \in 1 .. n /\ g[i] = f[i]
  BY FrontIs
<1> HIDE DEF g
<1>3. top.key # NoKey => n = 1
  BY <1>1 DEF KeyInv
<1>4. CASE n = 1
  <2>1. Len(g) = 0 /\ \A i \in 1 .. Len(g) : FALSE
    BY <1>2, <1>4
  <2>2. \A x \in ac : x[1] \in used2
    <3>1. \A x \in ac : x[1] \in used
                        \/ (f[1].key # NoKey /\ f[1].acted /\ x = <<f[1].key, f[1].trigger.event>>)
      BY DEF KeyInv
    <3>2. QED
      BY <1>4, <3>1
  <2>3. \A x, y \in ac : x[1] = y[1] => x = y
    BY DEF KeyInv
  <2> HIDE DEF used2
  <2>4. QED
    BY <2>1, <2>2, <2>3 DEF KeyInv, g, used2
<1>5. CASE n # 1
  <2>1. used2 = used
    BY <1>3, <1>5
  <2>2. 1 \in 1 .. n - 1 /\ Len(g) > 0
    BY <1>1, <1>2, <1>5
  <2>3. g[1] = f[1]
    BY <1>2, <2>2
  <2>4. \A i \in 1 .. Len(g) : i # 1 => g[i].key = NoKey
    BY <1>2 DEF KeyInv
  <2> HIDE DEF used2
  <2>5. KeyInv(g, used, ac)
    BY <1>1, <2>2, <2>3, <2>4 DEF KeyInv
  <2>6. QED
    BY <2>1, <2>5 DEF g, used2
<1>6. QED
  BY <1>4, <1>5

\* An activated ability uses its key at once.
LEMMA ActivateKeepsKeys ==
  ASSUME NEW used, NEW ac, KeyInv(<<>>, used, ac), NEW key, key \notin used, NEW n,
         NEW f, f.key = NoKey
  PROVE  KeyInv(<<f>>, used \cup {key}, ac \cup {<<key, n>>})
<1> DEFINE new == <<key, n>>
<1>1. \A x \in ac : x[1] \in used
  BY DEF KeyInv
<1>2. \A x, y \in ac : x[1] = y[1] => x = y
  BY DEF KeyInv
<1>3. new[1] = key
  OBVIOUS
<1> HIDE DEF new
<1>4. /\ \A x, y \in ac \cup {new} : x[1] = y[1] => x = y
      /\ \A x \in ac \cup {new} : x[1] \in used \cup {key}
  BY <1>1, <1>2, <1>3
<1>5. KeyInv(<<>>, used \cup {key}, ac \cup {new})
  <2>1. Len(<<>>) = 0 /\ \A i \in 1 .. 0 : FALSE
    OBVIOUS
  <2>2. QED
    BY <1>4, <2>1 DEF KeyInv
<1>6. QED
  BY <1>5, StartKeepsKeys DEF new

\* The card of a Command or Burst leaves RESOLVING with its frame.
LEMMA PopStaysOwned ==
  ASSUME NEW res, NEW f \in Seq(Frame), f # <<>>, NEW out, OwnedInv(res, f, out),
         NEW out2, out \subseteq out2, NEW res2,
         LET top == f[Len(f)] IN
           res2 = IF top.kind \in {"command", "burst"} THEN res \ {top.card} ELSE res
  PROVE  OwnedInv(res2, Front(f), out2)
<1> DEFINE n == Len(f)
<1>1. n \in Nat \ {0}
  BY HasLast
<1>2. Len(Front(f)) = n - 1 /\ \A i \in 1 .. n - 1 : Front(f)[i] = f[i]
  BY FrontIs
<1>3. \A i \in 1 .. n : i \in 1 .. n - 1 \/ i = n
  BY <1>1
<1>4. QED
  BY <1>2, <1>3 DEF OwnedInv
-----------------------------------------------------------------------------
(* Steps that queue triggers and start none.                               *)

\* Cards and abilities.
LEMMA Parameters ==
  /\ Hosts \subseteq Cards /\ Bursts \subseteq Cards /\ Commands \subseteq Cards
  /\ Triggered \subseteq Abilities /\ Activated \subseteq Abilities
  /\ \A a \in Abilities : Host[a] \in Hosts
  /\ Bursts \cap Once = {}
  /\ MaxEvents \in Nat /\ MaxInstrs \in Nat /\ MaxMoves \in Nat
  BY TriggersAssumption DEF Cards, Abilities

\* The triggers one event group queues, all at the present depth of batches.
LEMMA QueueIs ==
  ASSUME TypeInv, LevelInv, NEW A, A \subseteq Triggered, NEW B, B \subseteq Bursts,
         Queue(A, B), batches' = batches
  PROVE  /\ events' \in 0 .. MaxEvents /\ pending' \subseteq Instance /\ LevelInv'
         /\ Outstanding \subseteq Outstanding'
         /\ \A b \in B : \E t \in Outstanding' : t.source = b
<1> DEFINE inst(a, seq) == [source |-> a, seq |-> seq, event |-> events + 1, level |-> Len(batches)]
           fresh == {x \in A : <<x, zone_seq[Host[x]]>> \notin once_used}
           new1 == {inst(a, zone_seq[Host[a]]) : a \in fresh}
           new2 == {inst(b, 0) : b \in B}
<1>1. /\ A \cup B # {} => events < MaxEvents
      /\ events' = (IF A \cup B = {} THEN events ELSE events + 1)
      /\ pending' = pending \cup (new1 \cup new2)
  BY DEF Queue
<1>2. batches \in Seq(SUBSET Instance) /\ Len(batches) \in Nat /\ events \in 0 .. MaxEvents
  BY LenProperties DEF TypeInv
<1>3. A \cup B # {} => events + 1 \in 1 .. MaxEvents
  BY <1>1, <1>2, Parameters
<1>4. events' \in 0 .. MaxEvents
  BY <1>1, <1>2, <1>3, Parameters
<1>5. ASSUME NEW a \in A PROVE inst(a, zone_seq[Host[a]]) \in Instance
  <2>1. zone_seq[Host[a]] \in 0 .. MaxMoves
    BY Parameters DEF TypeInv
  <2>2. events + 1 \in 1 .. MaxEvents
    BY <1>3
  <2>3. QED
    BY <1>2, <2>1, <2>2 DEF Instance
<1>6. ASSUME NEW b \in B PROVE inst(b, 0) \in Instance
  <2>1. events + 1 \in 1 .. MaxEvents /\ 0 \in 0 .. MaxMoves
    BY <1>3, Parameters
  <2>2. QED
    BY <1>2, <2>1 DEF Instance
<1>7. \A a, seq : inst(a, seq).level = Len(batches) /\ inst(a, seq).source = a
  OBVIOUS
<1> HIDE DEF inst
<1>8. new1 \subseteq Instance /\ \A t \in new1 : t.level = Len(batches)
  <2>1. ASSUME NEW t \in new1 PROVE t \in Instance /\ t.level = Len(batches)
    <3>1. PICK a \in A : t = inst(a, zone_seq[Host[a]])
      BY Zenon
    <3>2. QED
      BY <1>5, <1>7, <3>1
  <2>2. QED
    BY <2>1
<1>9. /\ new2 \subseteq Instance /\ \A t \in new2 : t.level = Len(batches)
      /\ \A b \in B : \E t \in new2 : t.source = b
  BY <1>6, <1>7
<1> HIDE DEF new1, new2
<1>10. pending' \subseteq Instance /\ pending \subseteq pending'
  BY <1>1, <1>8, <1>9 DEF TypeInv
<1>11. LevelInv'
  BY <1>1, <1>8, <1>9 DEF LevelInv
<1>12. Outstanding \subseteq Outstanding' /\ new2 \subseteq Outstanding'
  BY <1>1, <1>10 DEF Outstanding
<1>13. QED
  BY <1>4, <1>9, <1>10, <1>11, <1>12

\* A frame with its type.
LEMMA FrameIs ==
  ASSUME NEW kind \in {"trigger", "burst", "command", "activated", "sub"},
         NEW key \in Keys \cup {NoKey}, NEW card \in Cards, NEW t \in Instance \cup {NoTrigger}
  PROVE  LET f == NewFrame(kind, key, card, t) IN
         f \in Frame /\ f.kind = kind /\ f.key = key /\ f.card = card /\ f.trigger = t
  BY DEF NewFrame, Frame

\* One frame makes a sequence of frames.
LEMMA OneFrame ==
  ASSUME NEW f \in Frame
  PROVE  <<f>> \in Seq(Frame) /\ Len(<<f>>) = 1 /\ <<f>>[1] = f /\ <<f>> # <<>>
  OBVIOUS

\* The parts of the invariant after a step that goes on.
LEMMA Together ==
  ASSUME TypeInv', AskInv', LevelInv', KeyInv(frames', once_used', acts'),
         OwnedInv(resolving', frames', Outstanding')
  PROVE  IInv'
  BY DEF IInv, KeyInv, OncePerTurn

\* While no effect runs, an event queues triggers.
LEMMA HappensIsGood ==
  ASSUME IInv, NEW A, A \subseteq Triggered, NEW B, B \subseteq Bursts, Happens(A, B)
  PROVE  IInv' /\ Outstanding \subseteq Outstanding'
<1>1. /\ ~over /\ asked = "none" /\ Queue(A, B) /\ resolving' = resolving \cup B
      /\ frames' = frames /\ batches' = batches /\ zone_seq' = zone_seq /\ asked' = asked
      /\ once_used' = once_used /\ acts' = acts
  BY DEF Happens, NoFrame, Running
<1>2. TypeInv /\ LevelInv /\ KeyInv(frames, once_used, acts)
      /\ OwnedInv(resolving, frames, Outstanding)
  BY <1>1 DEF IInv
<1>3. /\ events' \in 0 .. MaxEvents /\ pending' \subseteq Instance /\ LevelInv'
      /\ Outstanding \subseteq Outstanding'
      /\ \A b \in B : \E t \in Outstanding' : t.source = b
  BY <1>1, <1>2, QueueIs
<1>4. TypeInv' /\ AskInv'
  BY <1>1, <1>2, <1>3 DEF TypeInv, AskInv
<1>5. OwnedInv(resolving', frames', Outstanding')
  BY <1>1, <1>2, <1>3 DEF OwnedInv
<1>6. QED
  BY <1>1, <1>2, <1>3, <1>4, <1>5, Together

\* An activated ability starts its program and uses its key.
LEMMA ActivateIsGood ==
  ASSUME IInv, NEW a \in Activated, Activate(a)
  PROVE  IInv' /\ Outstanding \subseteq Outstanding'
<1> DEFINE key == <<a, zone_seq[Host[a]]>>
           f == [NewFrame("activated", NoKey, Host[a], NoTrigger) EXCEPT !.acted = TRUE]
<1>1. /\ ~over /\ asked = "none" /\ frames = <<>> /\ key \notin once_used /\ frames' = <<f>>
      /\ once_used' = (IF a \in Once THEN once_used \cup {key} ELSE once_used)
      /\ acts' = (IF a \in Once THEN acts \cup {<<key, instrs>>} ELSE acts)
      /\ resolving' = resolving /\ pending' = pending /\ batches' = batches
      /\ zone_seq' = zone_seq /\ asked' = asked /\ events' = events
  BY DEF Activate, NoFrame, Running, Idle
<1>2. TypeInv /\ LevelInv /\ KeyInv(frames, once_used, acts)
      /\ OwnedInv(resolving, frames, Outstanding)
  BY <1>1 DEF IInv
<1>3. f \in Frame /\ f.key = NoKey
  <2> DEFINE g == NewFrame("activated", NoKey, Host[a], NoTrigger)
  <2>1. Host[a] \in Cards
    BY Parameters
  <2>2. g \in Frame /\ g.key = NoKey
    BY <2>1, FrameIs
  <2> HIDE DEF g
  <2>3. [g EXCEPT !.acted = TRUE] \in Frame /\ [g EXCEPT !.acted = TRUE].key = NoKey
    BY <2>2 DEF Frame
  <2>4. QED
    BY <2>3 DEF g
<1> HIDE DEF f
<1>4. <<f>> \in Seq(Frame) /\ Len(<<f>>) = 1
  BY <1>3, OneFrame
<1>5. TypeInv' /\ AskInv' /\ LevelInv' /\ Outstanding' = Outstanding
  BY <1>1, <1>2, <1>4 DEF TypeInv, AskInv, LevelInv, Outstanding
<1> HIDE DEF key
<1>6. KeyInv(frames', once_used', acts')
  BY <1>1, <1>2, <1>3, ActivateKeepsKeys, StartKeepsKeys
<1>7. OwnedInv(resolving', frames', Outstanding')
  <2>1. Len(<<>>) = 0 /\ \A i \in 1 .. 0 : FALSE
    OBVIOUS
  <2>2. QED
    BY <1>1, <1>2, <1>5, <2>1 DEF OwnedInv
<1>8. QED
  BY <1>5, <1>6, <1>7, Together

\* A Command announces itself and waits in RESOLVING for its frame.
LEMMA PlayCommandIsGood ==
  ASSUME IInv, NEW A, A \subseteq Triggered, NEW c \in Commands, PlayCommand(c, A)
  PROVE  IInv' /\ Outstanding \subseteq Outstanding'
<1> DEFINE f == NewFrame("command", NoKey, c, NoTrigger)
<1>1. /\ ~over /\ asked = "none" /\ frames = <<>> /\ frames' = <<f>> /\ Queue(A, {})
      /\ once_used' = once_used /\ acts' = acts /\ resolving' = resolving \cup {c}
      /\ batches' = batches /\ zone_seq' = zone_seq /\ asked' = asked
  BY DEF PlayCommand, CommandFrame, NoFrame, Running, Idle
<1>2. TypeInv /\ LevelInv /\ KeyInv(frames, once_used, acts)
      /\ OwnedInv(resolving, frames, Outstanding)
  BY <1>1 DEF IInv
<1>3. f \in Frame /\ f.key = NoKey /\ f.kind = "command" /\ f.card = c
  BY Parameters, FrameIs
<1> HIDE DEF f
<1>4. <<f>> \in Seq(Frame) /\ Len(<<f>>) = 1 /\ <<f>>[1] = f
  BY <1>3, OneFrame
<1>5. /\ events' \in 0 .. MaxEvents /\ pending' \subseteq Instance /\ LevelInv'
      /\ Outstanding \subseteq Outstanding'
  BY <1>1, <1>2, QueueIs
<1>6. TypeInv' /\ AskInv'
  BY <1>1, <1>2, <1>4, <1>5 DEF TypeInv, AskInv
<1>7. KeyInv(frames', once_used', acts')
  BY <1>1, <1>2, <1>3, StartKeepsKeys
<1>8. OwnedInv(resolving', frames', Outstanding')
  <2>1. Len(<<>>) = 0 /\ (\A i \in 1 .. 0 : FALSE) /\ 1 \in 1 .. 1
    OBVIOUS
  <2>2. QED
    BY <1>1, <1>2, <1>3, <1>4, <1>5, <2>1 DEF OwnedInv
<1>9. QED
  BY <1>5, <1>6, <1>7, <1>8, Together


\* The top frame acts: its key is noted.
LEMMA ActsKeys ==
  ASSUME frames \in Seq(Frame), frames # <<>>, KeyInv(frames, once_used, acts)
  PROVE  KeyInv(Acted, once_used, ActsNow)
  BY ActingKeepsKeys, Zenon DEF Acted, ActsNow, Top

\* The frames after the top one acted.
LEMMA ActedFrames ==
  ASSUME frames \in Seq(Frame), frames # <<>>
  PROVE  /\ Acted \in Seq(Frame) /\ Len(Acted) = Len(frames) /\ Acted # <<>>
         /\ Len(frames) \in Nat
         /\ \A i \in 1 .. Len(frames) : Acted[i].kind = frames[i].kind
                                        /\ Acted[i].card = frames[i].card
  BY ActedIs, LenProperties, Zenon DEF Acted

\* An instruction moves cards, destroys Shields and queues triggers.
LEMMA InstructIsGood ==
  ASSUME IInv, NEW A, A \subseteq Triggered, NEW B, B \subseteq Bursts,
         NEW M, M \subseteq Hosts, NEW leave \in BOOLEAN, Instruct(A, B, M, leave)
  PROVE  IInv' /\ Outstanding \subseteq Outstanding'
<1>1. /\ ~over /\ asked = "none" /\ frames # <<>> /\ Queue(A, B) /\ frames' = Acted
      /\ acts' = ActsNow /\ once_used' = once_used /\ batches' = batches /\ asked' = asked
      /\ zone_seq' = [h \in Hosts |-> IF h \in M THEN zone_seq[h] + 1 ELSE zone_seq[h]]
      /\ \A h \in M : zone_seq[h] < MaxMoves
      /\ resolving' = (IF leave THEN resolving \ {Top.card} ELSE resolving) \cup B
  BY DEF Instruct, Running
<1>2. TypeInv /\ LevelInv /\ KeyInv(frames, once_used, acts)
      /\ OwnedInv(resolving, frames, Outstanding) /\ frames \in Seq(Frame)
  BY <1>1 DEF IInv, TypeInv
<1>3. /\ events' \in 0 .. MaxEvents /\ pending' \subseteq Instance /\ LevelInv'
      /\ Outstanding \subseteq Outstanding'
      /\ \A b \in B : \E t \in Outstanding' : t.source = b
  BY <1>1, <1>2, QueueIs
<1>4. zone_seq' \in [Hosts -> 0 .. MaxMoves]
  <2>1. zone_seq \in [Hosts -> 0 .. MaxMoves]
    BY <1>2 DEF TypeInv
  <2>2. ASSUME NEW h \in M PROVE zone_seq[h] + 1 \in 0 .. MaxMoves
    BY <1>1, <2>1, Parameters
  <2>3. QED
    BY <1>1, <2>1, <2>2
<1>5. /\ Acted \in Seq(Frame) /\ Len(Acted) = Len(frames) /\ Acted # <<>>
      /\ Len(frames) \in Nat
      /\ \A i \in 1 .. Len(frames) : Acted[i].kind = frames[i].kind
                                     /\ Acted[i].card = frames[i].card
  BY <1>1, <1>2, ActedFrames
<1>6. TypeInv' /\ AskInv'
  BY <1>1, <1>2, <1>3, <1>4, <1>5 DEF TypeInv, AskInv
<1>7. KeyInv(frames', once_used', acts')
  BY <1>1, <1>2, ActsKeys
<1>8. OwnedInv(resolving', frames', Outstanding')
  <2>1. \A c \in resolving' : c \in resolving \/ (c \in Bursts /\ \E t \in Outstanding' : t.source = c)
    BY <1>1, <1>3
  <2>2. QED
    BY <1>1, <1>2, <1>3, <1>5, <2>1 DEF OwnedInv
<1>9. QED
  BY <1>3, <1>6, <1>7, <1>8, Together

\* An answer carries the instruction out, or lets it go.
LEMMA ResumeIsGood ==
  ASSUME IInv, NEW A, A \subseteq Triggered, Resume(A)
  PROVE  IInv' /\ Outstanding \subseteq Outstanding'
<1>1. /\ ~over /\ asked = "effect" /\ asked' = "none" /\ zone_seq' = zone_seq
      /\ resolving' = resolving /\ batches' = batches /\ once_used' = once_used
      /\ \/ Queue(A, {}) /\ frames' = Acted /\ acts' = ActsNow
         \/ pending' = pending /\ events' = events /\ frames' = frames /\ acts' = acts
  BY DEF Resume
<1>2. /\ TypeInv /\ LevelInv /\ KeyInv(frames, once_used, acts)
      /\ OwnedInv(resolving, frames, Outstanding) /\ frames \in Seq(Frame) /\ frames # <<>>
  BY <1>1 DEF IInv, TypeInv, AskInv
<1>3. CASE Queue(A, {}) /\ frames' = Acted /\ acts' = ActsNow
  <2>1. /\ events' \in 0 .. MaxEvents /\ pending' \subseteq Instance /\ LevelInv'
        /\ Outstanding \subseteq Outstanding'
    BY <1>1, <1>2, <1>3, QueueIs
  <2>2. /\ Acted \in Seq(Frame) /\ Len(Acted) = Len(frames) /\ Acted # <<>>
        /\ \A i \in 1 .. Len(frames) : Acted[i].kind = frames[i].kind
                                       /\ Acted[i].card = frames[i].card
    BY <1>2, ActedFrames
  <2>3. TypeInv' /\ AskInv'
    BY <1>1, <1>2, <1>3, <2>1, <2>2 DEF TypeInv, AskInv
  <2>4. KeyInv(frames', once_used', acts')
    BY <1>1, <1>2, <1>3, ActsKeys
  <2>5. OwnedInv(resolving', frames', Outstanding')
    BY <1>1, <1>2, <1>3, <2>1, <2>2 DEF OwnedInv
  <2>6. QED
    BY <2>1, <2>3, <2>4, <2>5, Together
<1>4. CASE pending' = pending /\ events' = events /\ frames' = frames /\ acts' = acts
  <2>1. TypeInv' /\ AskInv' /\ LevelInv' /\ Outstanding' = Outstanding
    BY <1>1, <1>2, <1>4 DEF TypeInv, AskInv, LevelInv, Outstanding
  <2>2. KeyInv(frames', once_used', acts') /\ OwnedInv(resolving', frames', Outstanding')
    BY <1>1, <1>2, <1>4, <2>1
  <2>3. QED
    BY <2>1, <2>2, Together
<1>5. QED
  BY <1>1, <1>3, <1>4

\* Another program runs before the frame goes on: a Command's, with its card in
\* RESOLVING, or one without a card there.
LEMMA PushIsGood ==
  ASSUME IInv, ~over, asked = "none", frames # <<>>, NEW A, A \subseteq Triggered, Queue(A, {}),
         NEW f \in Frame, f.key = NoKey, frames' = Append(Acted, f), acts' = ActsNow,
         resolving' \subseteq resolving \cup {f.card},
         f.kind = "command" \/ resolving' = resolving,
         batches' = batches, zone_seq' = zone_seq, once_used' = once_used, asked' = asked
  PROVE  IInv' /\ Outstanding \subseteq Outstanding'
<1>1. TypeInv /\ LevelInv /\ KeyInv(frames, once_used, acts)
      /\ OwnedInv(resolving, frames, Outstanding) /\ frames \in Seq(Frame)
  BY DEF IInv, TypeInv
<1>2. /\ events' \in 0 .. MaxEvents /\ pending' \subseteq Instance /\ LevelInv'
      /\ Outstanding \subseteq Outstanding'
  BY <1>1, QueueIs
<1>3. /\ Acted \in Seq(Frame) /\ Len(Acted) = Len(frames) /\ Acted # <<>>
      /\ Len(frames) \in Nat
      /\ \A i \in 1 .. Len(frames) : Acted[i].kind = frames[i].kind
                                     /\ Acted[i].card = frames[i].card
  BY <1>1, ActedFrames
<1> DEFINE n == Len(frames)
           g == Append(Acted, f)
<1>4. /\ g \in Seq(Frame) /\ g # <<>> /\ Len(g) = n + 1 /\ g[n + 1] = f
      /\ \A i \in 1 .. n : g[i] = Acted[i]
  BY <1>3, AppendProperties
<1>5. KeyInv(g, once_used, ActsNow)
  BY <1>1, <1>3, ActsKeys, PushKeepsKeys
<1> HIDE DEF g
<1>6. frames' = g
  BY DEF g
<1>7. TypeInv' /\ AskInv'
  BY <1>1, <1>2, <1>4, <1>6 DEF TypeInv, AskInv
<1>8. OwnedInv(resolving', frames', Outstanding')
  <2>1. n + 1 \in 1 .. n + 1 /\ \A i \in 1 .. n : i \in 1 .. n + 1
    BY <1>3
  <2>2. \A i \in 1 .. n : g[i].kind = frames[i].kind /\ g[i].card = frames[i].card
    BY <1>3, <1>4
  <2>3. ASSUME NEW c \in resolving'
        PROVE  \/ \E i \in 1 .. n + 1 : g[i].kind \in {"command", "burst"} /\ g[i].card = c
               \/ c \in Bursts /\ \E t \in Outstanding' : t.source = c
    <3>1. CASE c \in resolving
      BY <1>1, <1>2, <2>1, <2>2, <3>1 DEF OwnedInv
    <3>2. CASE c \notin resolving
      BY <1>4, <2>1, <3>2
    <3>3. QED
      BY <3>1, <3>2
  <2>4. QED
    BY <1>4, <1>6, <2>3 DEF OwnedInv
<1>9. QED
  BY <1>2, <1>5, <1>6, <1>7, <1>8, Together

\* A Command is played inside an effect.
LEMMA PlayInEffectIsGood ==
  ASSUME IInv, NEW A, A \subseteq Triggered, NEW c \in Commands, PlayInEffect(c, A)
  PROVE  IInv' /\ Outstanding \subseteq Outstanding'
<1>1. LET f == NewFrame("command", NoKey, c, NoTrigger) IN
      f \in Frame /\ f.key = NoKey /\ f.kind = "command" /\ f.card = c
  BY Parameters, FrameIs
<1>2. /\ ~over /\ asked = "none" /\ frames # <<>> /\ Queue(A, {})
      /\ frames' = Append(Acted, NewFrame("command", NoKey, c, NoTrigger)) /\ acts' = ActsNow
      /\ resolving' = resolving \cup {c} /\ batches' = batches /\ zone_seq' = zone_seq
      /\ once_used' = once_used /\ asked' = asked
  BY DEF PlayInEffect, CommandFrame, Running
<1>3. QED
  BY <1>1, <1>2, PushIsGood

\* A program without a card in RESOLVING is pushed.
LEMMA PushSubIsGood ==
  ASSUME IInv, NEW A, A \subseteq Triggered, PushSub(A)
  PROVE  IInv' /\ Outstanding \subseteq Outstanding'
<1>1. /\ ~over /\ asked = "none" /\ frames # <<>> /\ Queue(A, {})
      /\ frames' = Append(Acted, NewFrame("sub", NoKey, Top.card, NoTrigger)) /\ acts' = ActsNow
      /\ resolving' = resolving /\ batches' = batches /\ zone_seq' = zone_seq
      /\ once_used' = once_used /\ asked' = asked
  BY DEF PushSub, Running
<1>2. Top \in Frame
  BY <1>1, HasLast DEF IInv, TypeInv, Top
<1>3. Top.card \in Cards
  BY <1>2 DEF Frame
<1>4. LET f == NewFrame("sub", NoKey, Top.card, NoTrigger) IN f \in Frame /\ f.key = NoKey
  BY <1>3, FrameIs
<1>5. QED
  BY <1>1, <1>4, PushIsGood

\* finish_frame.
LEMMA FinishIsGood ==
  ASSUME IInv, NEW A, A \subseteq Triggered, Finish(A)
  PROVE  IInv' /\ Outstanding \subseteq Outstanding'
<1>1. /\ ~over /\ asked = "none" /\ frames # <<>> /\ Queue(A, {}) /\ frames' = Front(frames)
      /\ once_used' = Consumed(Top) /\ resolving' = Leaves(Top) /\ acts' = acts
      /\ batches' = batches /\ zone_seq' = zone_seq /\ asked' = asked
  BY DEF Finish, Running
<1>2. TypeInv /\ LevelInv /\ KeyInv(frames, once_used, acts)
      /\ OwnedInv(resolving, frames, Outstanding) /\ frames \in Seq(Frame)
  BY <1>1 DEF IInv, TypeInv
<1>3. /\ events' \in 0 .. MaxEvents /\ pending' \subseteq Instance /\ LevelInv'
      /\ Outstanding \subseteq Outstanding'
  BY <1>1, <1>2, QueueIs
<1>4. Front(frames) \in Seq(Frame)
  BY <1>1, <1>2, FrontIs
<1>5. TypeInv' /\ AskInv'
  BY <1>1, <1>2, <1>3, <1>4 DEF TypeInv, AskInv
<1>6. KeyInv(frames', once_used', acts')
  BY <1>1, <1>2, PopKeepsKeys DEF Consumed, Top
<1>7. OwnedInv(resolving', frames', Outstanding')
  BY <1>1, <1>2, <1>3, PopStaysOwned DEF Leaves, Top
<1>8. QED
  BY <1>3, <1>5, <1>6, <1>7, Together

\* The next turn forgets who acted.
LEMMA NextTurnIsGood ==
  ASSUME IInv, NextTurn PROVE IInv' /\ Outstanding \subseteq Outstanding'
<1>1. /\ ~over /\ asked = "none" /\ frames = <<>> /\ frames' = frames /\ once_used' = {}
      /\ acts' = {} /\ resolving' = resolving /\ pending' = pending /\ batches' = batches
      /\ zone_seq' = zone_seq /\ asked' = asked /\ events' = events
  BY DEF NextTurn, NoFrame, Running
<1>2. TypeInv /\ LevelInv /\ OwnedInv(resolving, frames, Outstanding)
  BY <1>1 DEF IInv
<1>3. TypeInv' /\ AskInv' /\ LevelInv' /\ Outstanding' = Outstanding
  BY <1>1, <1>2 DEF TypeInv, AskInv, LevelInv, Outstanding
<1>4. KeyInv(frames', once_used', acts')
  <2>1. Len(<<>>) = 0 /\ \A i \in 1 .. 0 : FALSE
    OBVIOUS
  <2>2. QED
    BY <1>1, <2>1 DEF KeyInv
<1>5. QED
  BY <1>1, <1>2, <1>3, <1>4, Together

\* An effect asks.
LEMMA AskIsGood ==
  ASSUME IInv, Ask PROVE IInv' /\ Outstanding \subseteq Outstanding'
<1>1. /\ ~over /\ frames # <<>> /\ frames' = frames /\ once_used' = once_used
      /\ acts' = acts /\ resolving' = resolving /\ pending' = pending /\ batches' = batches
      /\ zone_seq' = zone_seq /\ asked' = "effect" /\ events' = events
  BY DEF Ask, Running
<1>2. TypeInv /\ LevelInv /\ OwnedInv(resolving, frames, Outstanding)
      /\ KeyInv(frames, once_used, acts)
  BY <1>1 DEF IInv
<1>3. TypeInv' /\ AskInv' /\ LevelInv' /\ Outstanding' = Outstanding
  BY <1>1, <1>2 DEF TypeInv, AskInv, LevelInv, Outstanding
<1>4. QED
  BY <1>1, <1>2, <1>3, Together

\* A defeat ends the game where it is.
LEMMA DefeatIsGood ==
  ASSUME IInv, Defeat PROVE IInv' /\ Outstanding \subseteq Outstanding'
<1>1. /\ over' /\ frames' = frames /\ acts' = acts /\ pending' = pending
      /\ batches' = batches /\ zone_seq' = zone_seq /\ asked' = "none" /\ events' = events
  BY DEF Defeat
<1>2. TypeInv' /\ AskInv' /\ LevelInv' /\ Outstanding' = Outstanding
  BY <1>1 DEF IInv, TypeInv, AskInv, LevelInv, Outstanding
<1>3. OncePerTurn'
  BY <1>1 DEF IInv, OncePerTurn
<1>4. QED
  BY <1>1, <1>2, <1>3 DEF IInv

\* A concession drops all effects.
LEMMA ConcedeIsGood ==
  ASSUME IInv, Concede PROVE IInv' /\ over' /\ Outstanding' = {}
<1>1. /\ over' /\ frames' = <<>> /\ acts' = acts /\ pending' = {} /\ batches' = <<>>
      /\ zone_seq' = zone_seq /\ asked' = "none" /\ events' = events
  BY DEF Concede
<1>2. /\ <<>> \in Seq(Frame) /\ <<>> \in Seq(SUBSET Instance)
      /\ Len(<<>>) = 0 /\ \A i \in 1 .. 0 : FALSE
  BY EmptySeq
<1>3. TypeInv' /\ AskInv' /\ LevelInv'
  BY <1>1, <1>2 DEF IInv, TypeInv, AskInv, LevelInv
<1>4. \A t : t \notin Outstanding'
  BY <1>1, <1>2, OutstandingIs DEF Outstanding
<1>5. OncePerTurn'
  BY <1>1 DEF IInv, OncePerTurn
<1>6. QED
  BY <1>1, <1>3, <1>4, <1>5 DEF IInv

-----------------------------------------------------------------------------
(* Steps of the batches.                                                   *)

\* What is pending becomes the innermost batch.
LEMMA FormBatchIsGood ==
  ASSUME IInv, FormBatch PROVE IInv' /\ Outstanding \subseteq Outstanding'
<1> DEFINE n == Len(batches)
           b == Append(batches, pending)
<1>1. /\ ~over /\ asked = "none" /\ frames' = frames /\ once_used' = once_used
      /\ acts' = acts /\ resolving' = resolving /\ pending' = {} /\ batches' = b
      /\ zone_seq' = zone_seq /\ asked' = asked /\ events' = events
  BY DEF FormBatch, NewBatches, NoFrame, Running
<1>2. /\ TypeInv /\ LevelInv /\ OwnedInv(resolving, frames, Outstanding)
      /\ KeyInv(frames, once_used, acts)
      /\ batches \in Seq(SUBSET Instance) /\ pending \in SUBSET Instance
  BY <1>1 DEF IInv, TypeInv
<1>3. /\ b \in Seq(SUBSET Instance) /\ Len(b) = n + 1 /\ b[n + 1] = pending
      /\ \A i \in 1 .. n : b[i] = batches[i]
  BY <1>2, AppendProperties
<1> HIDE DEF b
<1>4. n \in Nat
  BY <1>2, LenProperties
<1>5. n + 1 \in 1 .. n + 1 /\ \A i \in 1 .. n + 1 : i \in 1 .. n \/ i = n + 1
  BY <1>4
<1>6. \A i \in 1 .. n : i \in 1 .. n + 1
  BY <1>4
<1>7. LevelInv'
  <2>1. \A t \in pending : t.level + 1 = n + 1
    BY <1>2 DEF LevelInv
  <2>2. \A i \in 1 .. n + 1 : \A t \in b[i] : t.level + 1 = i
    BY <1>2, <1>3, <1>5, <2>1 DEF LevelInv
  <2>3. QED
    BY <1>1, <1>3, <2>2 DEF LevelInv
<1>8. TypeInv' /\ AskInv'
  BY <1>1, <1>2, <1>3 DEF TypeInv, AskInv
<1>9. Outstanding \subseteq Outstanding'
  <2>1. ASSUME NEW t \in Outstanding PROVE t \in Outstanding'
    <3>1. t \in pending \/ \E i \in 1 .. n : t \in batches[i]
      BY <1>2, OutstandingIs DEF Outstanding
    <3>2. \E i \in 1 .. n + 1 : t \in b[i]
      BY <1>3, <1>5, <1>6, <3>1
    <3>3. t \in {} \cup UNION Range(b)
      BY <1>3, <3>2, OutstandingIs
    <3>4. QED
      BY <1>1, <3>3 DEF Outstanding
  <2>2. QED
    BY <2>1
<1>10. QED
  BY <1>1, <1>2, <1>7, <1>8, <1>9, Together DEF OwnedInv

\* Nothing is in a batch that is popped.
LEMMA EmptyBatchIsGood ==
  ASSUME IInv, EmptyBatch PROVE IInv' /\ Outstanding \subseteq Outstanding'
<1> DEFINE n == Len(batches)
           b == Front(batches)
<1>1. /\ ~over /\ asked = "none" /\ frames' = frames /\ once_used' = once_used
      /\ acts' = acts /\ resolving' = resolving /\ pending = {} /\ pending' = {}
      /\ batches # <<>> /\ batches[n] = {} /\ batches' = b
      /\ zone_seq' = zone_seq /\ asked' = asked /\ events' = events
  BY DEF EmptyBatch, PopBatch, Last, NoFrame, Running
<1>2. /\ TypeInv /\ LevelInv /\ OwnedInv(resolving, frames, Outstanding)
      /\ KeyInv(frames, once_used, acts) /\ batches \in Seq(SUBSET Instance)
  BY <1>1 DEF IInv, TypeInv
<1>3. /\ b \in Seq(SUBSET Instance) /\ Len(b) = n - 1 /\ n \in Nat \ {0}
      /\ \A i \in 1 .. n - 1 : i \in 1 .. n /\ b[i] = batches[i]
  BY <1>1, <1>2, FrontIs, HasLast
<1> HIDE DEF b
<1>4. LevelInv'
  BY <1>1, <1>2, <1>3 DEF LevelInv
<1>5. TypeInv' /\ AskInv'
  BY <1>1, <1>2, <1>3 DEF TypeInv, AskInv
<1>6. Outstanding \subseteq Outstanding'
  <2>1. \A i \in 1 .. n : i \in 1 .. n - 1 \/ i = n
    BY <1>3
  <2>2. ASSUME NEW t \in Outstanding PROVE t \in Outstanding'
    <3>1. \E i \in 1 .. n : t \in batches[i]
      BY <1>1, <1>2, OutstandingIs DEF Outstanding
    <3>2. \E i \in 1 .. n - 1 : t \in b[i]
      BY <1>1, <1>3, <2>1, <3>1
    <3>3. t \in {} \cup UNION Range(b)
      BY <1>3, <3>2, OutstandingIs
    <3>4. QED
      BY <1>1, <3>3 DEF Outstanding
  <2>3. QED
    BY <2>2
<1>7. QED
  BY <1>1, <1>2, <1>4, <1>5, <1>6, Together DEF OwnedInv

\* No trigger of the batch comes before a candidate.
LEMMA CandidatesFirst ==
  ASSUME NEW batch, NEW t \in Candidates(batch), NEW u \in batch
  PROVE  t \in batch /\ Rank(t) <= Rank(u)
<1> DEFINE bursts == {x \in batch : x.source \in Bursts}
           own == {x \in batch : Controller(x) = active}
<1>1. t \in IF bursts # {} THEN bursts ELSE IF own # {} THEN own ELSE batch
  BY DEF Candidates
<1>2. \A x : Rank(x) = IF x.source \in Bursts THEN 0
                       ELSE IF Controller(x) = active THEN 1 ELSE 2
  BY DEF Rank
<1>3. CASE bursts # {}
  BY <1>1, <1>2, <1>3
<1>4. CASE bursts = {} /\ own # {}
  BY <1>1, <1>2, <1>4
<1>5. CASE bursts = {} /\ own = {}
  BY <1>1, <1>2, <1>5
<1>6. QED
  BY <1>3, <1>4, <1>5

\* Start of a trigger: what it leaves outstanding came earlier or ranks lower.
Starts(t) ==
  /\ Outstanding \ Outstanding' \subseteq {t}
  /\ frames' = <<FrameOf(t)>> \/ AlreadyUsed(t)
  /\ \A u \in Outstanding' : u.level < t.level \/ (u.level = t.level /\ Rank(t) <= Rank(u))

\* A trigger of the innermost batch is started, or dropped for its used key.
LEMMA StartIsGood ==
  ASSUME IInv, ~over, frames = <<>>, pending = {}, batches # <<>>,
         NEW t \in Candidates(Last(batches)), Start(t),
         over' = over, asked' = "none", pending' = pending, zone_seq' = zone_seq,
         resolving' = resolving, once_used' = once_used, events' = events, acts' = acts
  PROVE  IInv' /\ Starts(t)
<1> DEFINE n == Len(batches)
           rest == batches[n] \ {t}
           b == [batches EXCEPT ![n] = rest]
<1>1. /\ TypeInv /\ LevelInv /\ OwnedInv(resolving, frames, Outstanding)
      /\ KeyInv(frames, once_used, acts) /\ batches \in Seq(SUBSET Instance)
  BY DEF IInv, TypeInv
<1>2. n \in Nat \ {0} /\ n \in 1 .. n /\ batches[n] \in SUBSET Instance
  BY <1>1, HasLast
<1>3. t \in batches[n] /\ \A u \in batches[n] : Rank(t) <= Rank(u)
  <2>1. t \in batches[n]
    BY DEF Candidates, Last
  <2>2. QED
    BY <2>1, CandidatesFirst DEF Last
<1>4. batches' = b /\ frames' = IF AlreadyUsed(t) THEN frames ELSE <<FrameOf(t)>>
  BY DEF Start
<1>5. /\ b \in Seq(SUBSET Instance) /\ Len(b) = n
      /\ \A i \in 1 .. n : b[i] = IF i = n THEN rest ELSE batches[i]
  <2>1. rest \in SUBSET Instance
    BY <1>2
  <2> HIDE DEF rest
  <2>2. QED
    BY <1>1, <1>2, <2>1, ExceptSeq
<1> HIDE DEF b
<1>6. \A u : /\ u \in Outstanding <=> \E i \in 1 .. n : u \in batches[i]
             /\ u \in Outstanding' <=> \E i \in 1 .. n : u \in b[i]
  <2>1. \A u : u \in Outstanding <=> \E i \in 1 .. n : u \in batches[i]
    BY <1>1, BatchesAre
  <2>2. \A u : u \in Outstanding' <=> \E i \in 1 .. n : u \in b[i]
    <3>1. Outstanding' = {} \cup UNION Range(b)
      BY <1>4 DEF Outstanding
    <3>2. QED
      BY <1>5, <3>1, OutstandingIs
  <2>3. QED
    BY <2>1, <2>2
<1>7. Outstanding \ Outstanding' \subseteq {t}
  BY <1>5, <1>6
<1>8. t \in Instance /\ t.source \in Triggered \cup Bursts /\ t.seq \in 0 .. MaxMoves
  BY <1>2, <1>3 DEF Instance
<1>9. KeyOf(t) \in Keys \cup {NoKey} /\ (t.source \in Bursts => KeyOf(t) = NoKey)
  BY <1>8, Parameters DEF KeyOf, Keys
<1>10. LET f == FrameOf(t) IN
       /\ f \in Frame /\ f.key = KeyOf(t)
       /\ t.source \in Bursts => f.kind = "burst" /\ f.card = t.source
  <2> DEFINE card == IF t.source \in Bursts THEN t.source ELSE Host[t.source]
             kind == IF t.source \in Bursts THEN "burst" ELSE "trigger"
  <2>1. card \in Cards /\ kind \in {"trigger", "burst", "command", "activated", "sub"}
    BY <1>8, Parameters
  <2>2. t.source \in Bursts => card = t.source /\ kind = "burst"
    OBVIOUS
  <2>3. FrameOf(t) = NewFrame(kind, KeyOf(t), card, t)
    BY DEF FrameOf
  <2> HIDE DEF card, kind
  <2>4. QED
    BY <1>8, <1>9, <2>1, <2>2, <2>3, FrameIs
<1> DEFINE f == FrameOf(t)
<1>11. <<f>> \in Seq(Frame) /\ Len(<<f>>) = 1 /\ <<f>>[1] = f
  BY <1>10, OneFrame
<1> HIDE DEF f
<1>12. frames' = frames \/ frames' = <<f>>
  BY <1>4 DEF f
<1>13. TypeInv' /\ AskInv'
  BY <1>1, <1>4, <1>5, <1>11, <1>12 DEF TypeInv, AskInv
<1>14. LevelInv'
  BY <1>1, <1>4, <1>5 DEF LevelInv
<1>15. KeyInv(frames', once_used', acts')
  <2>1. CASE AlreadyUsed(t)
    BY <1>1, <1>4, <2>1
  <2>2. CASE ~AlreadyUsed(t)
    <3>1. f.key = NoKey \/ f.key \notin once_used
      BY <1>10, <2>2 DEF AlreadyUsed, f
    <3>2. KeyInv(<<f>>, once_used, acts)
      BY <1>1, <3>1, StartKeepsKeys
    <3>3. QED
      BY <1>4, <2>2, <3>2 DEF f
  <2>3. QED
    BY <2>1, <2>2
<1>16. OwnedInv(resolving', frames', Outstanding')
  <2>1. SUFFICES ASSUME NEW c \in resolving
                 PROVE  \/ \E i \in 1 .. Len(frames') : /\ frames'[i].kind \in {"command", "burst"}
                                                        /\ frames'[i].card = c
                        \/ c \in Bursts /\ \E u \in Outstanding' : u.source = c
    BY DEF OwnedInv
  <2>2. Len(<<>>) = 0 /\ (\A i \in 1 .. 0 : FALSE) /\ 1 \in 1 .. 1
    OBVIOUS
  <2>3. c \in Bursts /\ \E u \in Outstanding : u.source = c
    BY <1>1, <2>1, <2>2 DEF OwnedInv
  <2>4. CASE t.source # c
    BY <1>7, <2>3, <2>4
  <2>5. CASE t.source = c
    <3>1. ~AlreadyUsed(t)
      BY <1>9, <2>3, <2>5 DEF AlreadyUsed
    <3>2. frames' = <<f>> /\ f.kind = "burst" /\ f.card = c
      BY <1>4, <1>10, <2>3, <2>5, <3>1 DEF f
    <3>3. QED
      BY <1>11, <2>2, <3>2
  <2>6. QED
    BY <2>4, <2>5
<1>17. \A u \in Outstanding' : u.level < t.level \/ (u.level = t.level /\ Rank(t) <= Rank(u))
  <2>1. SUFFICES ASSUME NEW i \in 1 .. n, NEW u \in b[i]
                 PROVE  u.level < t.level \/ (u.level = t.level /\ Rank(t) <= Rank(u))
    BY <1>6
  <2>2. u \in batches[i] /\ i \in Nat
    BY <1>2, <1>5
  <2>3. u \in Instance
    BY <1>1, <2>2, ElementOfSeq
  <2>4. u.level \in Nat /\ t.level \in Nat
    BY <1>8, <2>3 DEF Instance
  <2>5. u.level + 1 = i /\ t.level + 1 = n
    BY <1>1, <1>2, <1>3, <2>2 DEF LevelInv
  <2>6. i = n => Rank(t) <= Rank(u)
    BY <1>3, <2>2
  <2>7. QED
    BY <1>2, <2>2, <2>4, <2>5, <2>6
<1>18. IInv'
  BY <1>13, <1>14, <1>15, <1>16, Together
<1>19. QED
  BY <1>4, <1>7, <1>17, <1>18 DEF Starts

\* A candidate is outstanding.
LEMMA BatchIsOutstanding ==
  ASSUME IInv, batches # <<>>, NEW t \in Candidates(Last(batches)) PROVE t \in Outstanding
<1>1. batches \in Seq(SUBSET Instance) /\ Len(batches) \in 1 .. Len(batches)
  BY HasLast DEF IInv, TypeInv
<1>2. t \in batches[Len(batches)]
  BY DEF Candidates, Last
<1>3. QED
  BY <1>1, <1>2, OutstandingIs DEF Outstanding
-----------------------------------------------------------------------------
(* The theorems.                                                           *)

\* An effect ends its game, or every trigger stays outstanding, or one starts.
Fate ==
  \/ over' /\ Outstanding' = {}
  \/ Outstanding \subseteq Outstanding'
  \/ \E t \in Outstanding : Starts(t)

\* The next trigger starts, or the player is asked for the order.
LEMMA StartNextIsGood == ASSUME IInv, StartNextTrigger PROVE IInv' /\ Fate
<1> DEFINE cands == Candidates(Last(batches))
<1>1. /\ ~over /\ asked = "none" /\ frames = <<>> /\ pending = {} /\ batches # <<>>
      /\ over' = over /\ pending' = pending /\ zone_seq' = zone_seq /\ resolving' = resolving
      /\ once_used' = once_used /\ events' = events /\ acts' = acts
      /\ \/ (\E t \in cands : Start(t)) /\ asked' = asked
         \/ asked' = "order" /\ batches' = batches /\ frames' = frames
  BY DEF StartNextTrigger, NoFrame, Running
<1>2. ASSUME NEW t \in cands, Start(t), asked' = asked PROVE IInv' /\ Fate
  <2>1. IInv' /\ Starts(t)
    BY <1>1, <1>2, StartIsGood
  <2>2. t \in Outstanding
    BY <1>1, BatchIsOutstanding
  <2>3. QED
    BY <2>1, <2>2 DEF Fate
<1>3. CASE asked' = "order" /\ batches' = batches /\ frames' = frames
  <2>1. TypeInv' /\ AskInv' /\ LevelInv' /\ Outstanding' = Outstanding
    BY <1>1, <1>3 DEF IInv, TypeInv, AskInv, LevelInv, Outstanding
  <2>2. KeyInv(frames', once_used', acts') /\ OwnedInv(resolving', frames', Outstanding')
    BY <1>1, <1>3, <2>1 DEF IInv
  <2>3. QED
    BY <2>1, <2>2, Together DEF Fate
<1>4. QED
  BY <1>1, <1>2, <1>3

\* The trigger the player names starts.
LEMMA OrderIsGood == ASSUME IInv, NEW t, Order(t) PROVE IInv' /\ Fate
<1>1. /\ ~over /\ asked = "order" /\ asked' = "none" /\ t \in Candidates(Last(batches)) /\ Start(t)
      /\ over' = over /\ pending' = pending /\ zone_seq' = zone_seq /\ resolving' = resolving
      /\ once_used' = once_used /\ events' = events /\ acts' = acts
  BY DEF Order
<1>2. frames = <<>> /\ pending = {} /\ batches # <<>>
  BY <1>1 DEF IInv, AskInv
<1>3. IInv' /\ Starts(t)
  BY <1>1, <1>2, StartIsGood
<1>4. t \in Outstanding
  BY <1>1, <1>2, BatchIsOutstanding
<1>5. QED
  BY <1>3, <1>4 DEF Fate

\* Every step keeps the invariant.
LEMMA NextIsGood == ASSUME IInv, Next PROVE IInv' /\ Fate
<1>1. ASSUME NEW A \in Sets(Triggered), NEW B, B \subseteq Bursts, Happens(A, B)
      PROVE  IInv' /\ Fate
  BY <1>1, HappensIsGood DEF Sets, Fate
<1>2. ASSUME NEW A \in Sets(Triggered), NEW B, B \subseteq Bursts, NEW M, M \subseteq Hosts,
             NEW leave \in BOOLEAN, Instruct(A, B, M, leave)
      PROVE  IInv' /\ Fate
  BY <1>2, InstructIsGood DEF Sets, Fate
<1>3. ASSUME NEW A \in Sets(Triggered), Finish(A) \/ PushSub(A) \/ Resume(A)
      PROVE  IInv' /\ Fate
  BY <1>3, FinishIsGood, PushSubIsGood, ResumeIsGood DEF Sets, Fate
<1>4. ASSUME NEW A \in Sets(Triggered), NEW c \in Commands, PlayInEffect(c, A) \/ PlayCommand(c, A)
      PROVE  IInv' /\ Fate
  BY <1>4, PlayInEffectIsGood, PlayCommandIsGood DEF Sets, Fate
<1>5. ASSUME Ask \/ FormBatch \/ EmptyBatch \/ Defeat \/ NextTurn PROVE IInv' /\ Fate
  BY <1>5, AskIsGood, FormBatchIsGood, EmptyBatchIsGood, DefeatIsGood, NextTurnIsGood DEF Fate
<1>6. ASSUME NEW a \in Activated, Activate(a) PROVE IInv' /\ Fate
  BY <1>6, ActivateIsGood DEF Fate
<1>7. CASE Concede
  BY <1>7, ConcedeIsGood DEF Fate
<1>8. CASE Advance
  <2>1. /\ \A B \in SUBSET unused : B \subseteq Bursts => B \subseteq Bursts
        /\ \A B \in {{}} \cup {{b} : b \in unused \cap Bursts} : B \subseteq Bursts
        /\ \A M \in {{}} \cup {{h} : h \in Hosts} : M \subseteq Hosts
    OBVIOUS
  <2>2. QED
    BY <1>1, <1>2, <1>3, <1>4, <1>5, <1>8, <2>1, StartNextIsGood DEF Advance
<1>9. CASE Answer
  BY <1>3, <1>4, <1>6, <1>9, OrderIsGood DEF Answer
<1>10. QED
  BY <1>7, <1>8, <1>9 DEF Next

\* The inductive invariant of triggers, frames and keys.
THEOREM Invariant == Spec => []IInv
<1>1. Init => IInv
  <2>1. SUFFICES ASSUME Init PROVE IInv
    OBVIOUS
  <2>2. /\ <<>> \in Seq(Frame) /\ <<>> \in Seq(SUBSET Instance)
        /\ Len(<<>>) = 0 /\ \A i \in 1 .. 0 : FALSE
    BY EmptySeq
  <2>3. [h \in Hosts |-> 0] \in [Hosts -> 0 .. MaxMoves] /\ 0 \in 0 .. MaxEvents
    BY Parameters
  <2>4. TypeInv /\ AskInv /\ LevelInv
    BY <2>1, <2>2, <2>3 DEF Init, TypeInv, AskInv, LevelInv
  <2>5. OncePerTurn /\ KeyInv(frames, once_used, acts) /\ OwnedInv(resolving, frames, Outstanding)
    BY <2>1, <2>2 DEF Init, OncePerTurn, KeyInv, OwnedInv
  <2>6. QED
    BY <2>4, <2>5 DEF IInv
<1>2. IInv /\ [Next]_vars => IInv'
  <2>1. SUFFICES ASSUME IInv, [Next]_vars PROVE IInv'
    OBVIOUS
  <2>2. CASE Next
    BY <2>1, <2>2, NextIsGood
  <2>3. CASE UNCHANGED vars
    BY <2>1, <2>3
       DEF vars, IInv, TypeInv, AskInv, LevelInv, OncePerTurn, Outstanding
  <2>4. QED
    BY <2>1, <2>2, <2>3
<1>3. QED
  BY <1>1, <1>2, PTL DEF Spec

\* queue_trigger, resolve_trigger and finish_frame together let a once-per-turn
\* ability of one object act once a turn, however often it was queued.
THEOREM OncePerTurnHolds == Spec => []OncePerTurn
<1>1. IInv => OncePerTurn
  BY DEF IInv
<1>2. QED
  BY <1>1, Invariant, PTL

\* Every card in RESOLVING has the frame or the Burst trigger that takes it out.
THEOREM NoneIsStranded == Spec => []ResolvingIsOwned
<1>1. IInv => ResolvingIsOwned
  <2>1. SUFFICES ASSUME IInv, ~over, OwnedInv(resolving, frames, Outstanding) PROVE ResolvingIsOwned
    BY DEF IInv, ResolvingIsOwned
  <2>2. DOMAIN frames = 1 .. Len(frames)
    BY <2>1, LenProperties DEF IInv, TypeInv
  <2>3. QED
    BY <2>1, <2>2 DEF OwnedInv, ResolvingIsOwned
<1>2. QED
  BY <1>1, Invariant, PTL

\* No queued trigger disappears: it starts, or its once-per-turn use is spent.
THEOREM NothingIsLost == Spec => NoTriggerLost
<1> DEFINE Kept ==
             \A t \in Outstanding \ Outstanding' :
               \/ over'
               \/ frames' # <<>> /\ frames'[Len(frames')].trigger = t
               \/ t.source \in Once /\ <<t.source, t.seq>> \in once_used
<1>1. IInv /\ Next => Kept
  <2>1. SUFFICES ASSUME IInv, Next PROVE Kept
    OBVIOUS
  <2>2. Fate
    BY <2>1, NextIsGood
  <2>3. ASSUME NEW t, Starts(t) PROVE Kept
    <3>1. AlreadyUsed(t) => t.source \in Once /\ <<t.source, t.seq>> \in once_used
      BY DEF AlreadyUsed, KeyOf
    <3>2. FrameOf(t).trigger = t
      BY DEF FrameOf, NewFrame
    <3>3. \A f : Len(<<f>>) = 1 /\ <<f>>[1] = f /\ <<f>> # <<>>
      OBVIOUS
    <3>4. frames' = <<FrameOf(t)>> => frames' # <<>> /\ frames'[Len(frames')].trigger = t
      BY <3>2, <3>3
    <3>5. QED
      BY <2>3, <3>1, <3>4 DEF Starts
  <2>4. QED
    BY <2>2, <2>3 DEF Fate
<1>2. IInv /\ [Next]_vars => [Kept]_vars
  BY <1>1
<1>3. QED
  BY <1>2, Invariant, PTL DEF Spec, NoTriggerLost

\* What an effect caused resolves before what waited for it, and of simultaneous
\* triggers Bursts come first, then the active player's.
THEOREM OrderIsKept == Spec => StartsInOrder
<1> DEFINE InOrder ==
             \A t \in Outstanding \ Outstanding', u \in Outstanding' :
               u.level < t.level \/ (u.level = t.level /\ Rank(t) <= Rank(u))
<1>1. IInv /\ Next => InOrder
  <2>1. SUFFICES ASSUME IInv, Next PROVE InOrder
    OBVIOUS
  <2>2. Fate
    BY <2>1, NextIsGood
  <2>3. QED
    BY <2>2 DEF Fate, Starts
<1>2. IInv /\ [Next]_vars => [InOrder]_vars
  BY <1>1
<1>3. QED
  BY <1>2, Invariant, PTL DEF Spec, StartsInOrder
=============================================================================

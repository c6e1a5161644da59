------------------------- MODULE SymbolEngine_proofs --------------------------
(***************************************************************************)
(* Proofs about SymbolEngine for all dumps, modules, types and walkers:    *)
(* loading a module is never entered again; the callback never is a walker *)
(* that is gone; no reader works with an entry that is half filled; what   *)
(* is shown of a download is true; the type a reader is given is one of    *)
(* the module it named, and the file of an image has its checksum; each    *)
(* variable of a frame is shown once and lies where the frame says.        *)
(***************************************************************************)
EXTENDS SymbolEngine, SequenceTheorems, FiniteSetTheorems, WellFoundedInduction, TLAPS

(* The modules being loaded: none, or one.                                 *)
OneLoad ==
    /\ loads = <<>> \/ loads = <<loads[1]>>
    /\ loading = (loads # <<>>)

LEMMA InitOneLoad == Init => OneLoad
  BY DEF Init, OneLoad

LEMMA StepOneLoad == OneLoad /\ [Next]_vars => OneLoad'
  <1>. SUFFICES ASSUME OneLoad, [Next]_vars
                PROVE  OneLoad'
    OBVIOUS
  <1>1. ASSUME UNCHANGED <<loads, loading>>
        PROVE  OneLoad'
    BY <1>1 DEF OneLoad
  <1>2. ASSUME NextFile
        PROVE  OneLoad'
    BY <1>2 DEF NextFile, OneLoad
  <1>3. ASSUME NEW m, NEW throw, loads = <<>>, Begin(m, throw)
        PROVE  OneLoad'
    <2>1. \E load : loads' = <<load>>
      BY <1>3 DEF Begin
    <2>2. loads' = <<loads'[1]>> /\ loads' # <<>>
      BY <2>1
    <2>. QED
      BY <1>3, <2>2 DEF Begin, OneLoad
  <1>4. CASE DbgHelpReads
    <2>1. loads = <<>>
      BY <1>4 DEF DbgHelpReads, ReadLoadsModules, OneLoad
    <2>2. PICK m : Begin(m, FALSE)
      BY <1>4 DEF DbgHelpReads
    <2>. QED
      BY <2>1, <2>2, <1>3
  <1>5. ASSUME NEW image, loads # <<>>, Done(image)
        PROVE  OneLoad'
    <2>1. loads' = <<>> /\ loading' = FALSE
      <3>1. Len(loads) = 1
        BY <1>5 DEF OneLoad
      <3>. QED
        BY <1>5, <3>1 DEF Done, Front
    <2>. QED
      BY <2>1 DEF OneLoad
  <1>6. CASE WayFails
    <2>1. Len(loads) = 1 /\ loads = <<loads[1]>> /\ loads # <<>>
      BY <1>6 DEF WayFails, OneLoad
    <2>2. \E load : loads' = <<load>>
      <3>. DEFINE first == loads[1]
      <3>1. loads' = [<<first>> EXCEPT ![1].ways = Tail(@)]
        BY <1>6, <2>1 DEF WayFails
      <3>2. \A a, e : [<<a>> EXCEPT ![1] = e] = <<e>>
        OBVIOUS
      <3>3. [<<first>> EXCEPT ![1].ways = Tail(@)] = [<<first>> EXCEPT ![1] = [first EXCEPT !.ways = Tail(@)]]
        OBVIOUS
      <3>. QED
        BY <3>1, <3>2, <3>3
    <2>3. loads' = <<loads'[1]>> /\ loads' # <<>>
      BY <2>2
    <2>. QED
      BY <1>6, <2>1, <2>3 DEF WayFails, OneLoad
  <1>7. CASE LoadModule
    BY <1>7, <1>3 DEF LoadModule
  <1>8. CASE WayOpens \/ NoWayOpens
    BY <1>8, <1>5 DEF WayOpens, NoWayOpens
  <1>9. CASE EndFile \/ LoadThrows \/ TypeIsMissing \/ \E f \in DOMAIN Frames : RegisterIsUnknown(f)
    BY <1>9, <1>2 DEF EndFile, LoadThrows, TypeIsMissing, RegisterIsUnknown
  <1>10. CASE UNCHANGED vars
    BY <1>10, <1>1 DEF vars, engine
  <1>11. CASE \E of \in {"main", "base"} : OpenWalker(of)
    BY <1>11, <1>1 DEF OpenWalker, engine
  <1>12. CASE XmlLog \/ CloseWalker \/ NextPhase \/ AlreadyLoaded \/ StartLookup \/ Answered \/ NextType
                \/ EndSetup \/ SymbolsShown
    BY <1>12, <1>1 DEF XmlLog, CloseWalker, NextPhase, AlreadyLoaded, StartLookup, Answered, NextType,
                       EndSetup, SymbolsShown, engine
  <1>13. ASSUME NEW w \in DOMAIN walkers,
                \/ \E t \in UserTypes : AskType(w, t) \/ AskSymbols(w, t.module)
                \/ \E r \in Readers : SetupGlobals(w, r)
                \/ \E i \in DOMAIN DumpOf(w) : WalkFrame(w, i)
         PROVE  OneLoad'
    BY <1>13, <1>1 DEF AskType, AskSymbols, SetupGlobals, WalkFrame, Requested, engine
  <1>14. CASE LookIn
    BY <1>14, <1>1 DEF LookIn
  <1>15. CASE \E f \in DOMAIN Frames : FrameWalked(f)
    BY <1>15, <1>1 DEF FrameWalked, engine
  <1>16. CASE Ended
    BY <1>16, <1>10 DEF Ended
  <1>. QED
    BY <1>4, <1>6, <1>7, <1>8, <1>9, <1>10, <1>11, <1>12, <1>13, <1>14, <1>15, <1>16 DEF Next

(* load_module is never entered while it runs, whatever DbgHelp reads.     *)
THEOREM LoadIsNeverReentered == Spec => []NeverReentered
  <1>1. OneLoad => NeverReentered
    <2>1. ASSUME NEW load, loads = <<load>>
          PROVE  Len(loads) = 1 /\ loads # <<>>
      BY <2>1
    <2>2. loads = <<>> => Len(loads) = 0
      OBVIOUS
    <2>. SUFFICES ASSUME OneLoad
                  PROVE  NeverReentered
      OBVIOUS
    <2>3. CASE loads = <<>>
      <3>1. Len(loads) <= 1
        BY <2>2, <2>3
      <3>2. ~loading /\ ~(loads # <<>>)
        BY <2>3 DEF OneLoad
      <3>. QED
        BY <3>1, <3>2, Zenon DEF NeverReentered
    <2>4. CASE loads # <<>>
      <3>1. Len(loads) = 1
        BY <2>1, <2>4 DEF OneLoad
      <3>. QED
        <4>1. Len(loads) <= 1
          BY <3>1
        <4>2. loading /\ loads # <<>>
          BY <2>4 DEF OneLoad
        <4>. QED
          BY <4>1, <4>2, Zenon DEF NeverReentered
    <2>. QED
      BY <2>3, <2>4
  <1>. QED
    BY <1>1, InitOneLoad, StepOneLoad, PTL DEF Spec

-------------------------------------------------------------------------------
(* Vectors, of whatever elements.                                          *)
IsVector(s) == s \in Seq({s[i] : i \in DOMAIN s})

LEMMA EmptyVector == IsVector(<<>>) /\ Len(<<>>) = 0 /\ DOMAIN <<>> = {}
  BY DEF IsVector

LEMMA VectorOf ==
    ASSUME NEW S, NEW s \in Seq(S)
    PROVE  IsVector(s)
  <1>1. s \in [1..Len(s) -> {s[i] : i \in DOMAIN s}] /\ Len(s) \in Nat
    OBVIOUS
  <1>. QED
    BY <1>1 DEF IsVector

LEMMA VectorAppended ==
    ASSUME NEW s, IsVector(s), NEW e
    PROVE  /\ IsVector(Append(s, e))
           /\ Len(s) \in Nat /\ DOMAIN s = 1..Len(s)
           /\ Len(Append(s, e)) = Len(s) + 1
           /\ DOMAIN Append(s, e) = 1..(Len(s) + 1)
           /\ \A i \in 1..(Len(s) + 1) : Append(s, e)[i] = IF i = Len(s) + 1 THEN e ELSE s[i]
  <1>. DEFINE S == {s[i] : i \in DOMAIN s} \union {e}
  <1>1. s \in Seq({s[i] : i \in DOMAIN s})
    BY DEF IsVector
  <1>2. {s[i] : i \in DOMAIN s} \subseteq S /\ e \in S
    OBVIOUS
  <1>. HIDE DEF S
  <1>3. s \in Seq(S)
    BY <1>1, <1>2, SeqMonotonic
  <1>4. Append(s, e) \in Seq(S)
    BY <1>2, <1>3
  <1>5. IsVector(Append(s, e))
    BY <1>4, VectorOf
  <1>6. /\ Len(s) \in Nat /\ DOMAIN s = 1..Len(s)
        /\ Len(Append(s, e)) = Len(s) + 1
        /\ DOMAIN Append(s, e) = 1..(Len(s) + 1)
    BY <1>2, <1>3
  <1>7. \A i \in 1..(Len(s) + 1) : Append(s, e)[i] = IF i = Len(s) + 1 THEN e ELSE s[i]
    BY <1>2, <1>3
  <1>. QED
    BY <1>5, <1>6, <1>7

LEMMA VectorFront ==
    ASSUME NEW s, IsVector(s), s # <<>>
    PROVE  /\ IsVector(Front(s))
           /\ Len(s) \in Nat /\ DOMAIN s = 1..Len(s)
           /\ Len(Front(s)) = Len(s) - 1 /\ Len(Front(s)) \in Nat
           /\ DOMAIN Front(s) = 1..(Len(s) - 1)
           /\ \A i \in 1..(Len(s) - 1) : Front(s)[i] = s[i]
  <1>. DEFINE S == {s[i] : i \in DOMAIN s}
  <1>1. s \in Seq(S)
    BY DEF IsVector
  <1>. HIDE DEF S
  <1>2. Front(s) = SubSeq(s, 1, Len(s) - 1)
    BY DEF Front
  <1>3. Front(s) \in Seq(S) /\ Len(s) \in Nat /\ Len(s) # 0
    BY <1>1, <1>2
  <1>4. IsVector(Front(s))
    BY <1>3, VectorOf
  <1>5. \A i \in 1..(Len(s) - 1) : s[i] \in S
    BY <1>1
  <1>6. /\ Len(Front(s)) = Len(s) - 1
        /\ \A i \in 1..(Len(s) - 1) : Front(s)[i] = s[i]
    <2>1. Len(s) - 1 \in Int /\ Len(s) - 1 - 1 + 1 = Len(s) - 1 /\ (1 <= Len(s) - 1 \/ Len(s) - 1 = 0)
      <3>1. \A n \in Nat : n # 0 => n - 1 \in Int /\ n - 1 - 1 + 1 = n - 1 /\ (1 <= n - 1 \/ n - 1 = 0)
        OBVIOUS
      <3>. QED
        BY <1>3, <3>1
    <2>2. /\ Len(SubSeq(s, 1, Len(s) - 1)) = IF 1 <= Len(s) - 1 THEN (Len(s) - 1) - 1 + 1 ELSE 0
          /\ \A i \in 1..(Len(s) - 1) - 1 + 1 : SubSeq(s, 1, Len(s) - 1)[i] = s[1 + i - 1]
      BY <1>5, <2>1, SubSeqProperties
    <2>. QED
      BY <1>2, <1>3, <2>1, <2>2
  <1>7. /\ DOMAIN s = 1..Len(s) /\ Len(Front(s)) \in Nat
        /\ DOMAIN Front(s) = 1..(Len(s) - 1)
    BY <1>1, <1>3, <1>6
  <1>. QED
    BY <1>3, <1>4, <1>6, <1>7

LEMMA VectorChanged ==
    ASSUME NEW s, IsVector(s), NEW i \in DOMAIN s, NEW e
    PROVE  /\ IsVector([s EXCEPT ![i] = e])
           /\ Len([s EXCEPT ![i] = e]) = Len(s)
           /\ DOMAIN [s EXCEPT ![i] = e] = DOMAIN s
           /\ \A j \in DOMAIN s : [s EXCEPT ![i] = e][j] = IF j = i THEN e ELSE s[j]
  <1>. DEFINE S == {s[j] : j \in DOMAIN s} \union {e}
  <1>1. s \in Seq({s[j] : j \in DOMAIN s})
    BY DEF IsVector
  <1>2. {s[j] : j \in DOMAIN s} \subseteq S /\ e \in S
    OBVIOUS
  <1>. HIDE DEF S
  <1>3. s \in Seq(S)
    BY <1>1, <1>2, SeqMonotonic
  <1>4. i \in 1..Len(s) /\ DOMAIN s = 1..Len(s)
    BY <1>3
  <1>5. [s EXCEPT ![i] = e] \in Seq(S) /\ Len([s EXCEPT ![i] = e]) = Len(s)
    BY <1>2, <1>3, <1>4, ExceptSeq
  <1>. QED
    BY <1>4, <1>5, VectorOf

-------------------------------------------------------------------------------
(* The walkers that live are records, oldest first; the walk of a stack is *)
(* made with the only walker there is, which is the callback.              *)
WalkersOk ==
    /\ IsVector(walkers)
    /\ \A i \in DOMAIN walkers : DOMAIN walkers[i] = {"of", "types"}
    /\ phase \in 1..3
    /\ callback \in {0} \union DOMAIN walkers
    /\ phase = 1 => Len(walkers) <= 1 /\ callback = Len(walkers)

RequestOk ==
    /\ request.kind # "none" => request.walker \in DOMAIN walkers
    /\ request.kind = "stack" => phase = 1 /\ request.walker = Len(walkers)

(* Only the entry that is being filled is not full.                        *)
CachesOk ==
    \A c \in caches :
        \/ c[3] = "full"
        \/ /\ request.kind = "setup"
           /\ c = <<walkers[request.walker].of, request.reader, "partial">>

WalkersInv == WalkersOk /\ RequestOk /\ CachesOk

LEMMA InitWalkersInv == Init => WalkersInv
  BY EmptyVector DEF Init, WalkersInv, WalkersOk, RequestOk, CachesOk, NothingAsked, Request

LEMMA NextFileWalkersInv ==
    ASSUME NextFile
    PROVE  WalkersInv'
  BY EmptyVector DEF NextFile, FreshCaches, WalkersInv, WalkersOk, RequestOk, CachesOk, NothingAsked, Request

LEMMA OpenWalkerInv ==
    ASSUME WalkersInv, NEW of, OpenWalker(of)
    PROVE  WalkersInv'
  <1>. DEFINE new == [of |-> of, types |-> <<>>]
  <1>1. /\ walkers' = Append(walkers, new) /\ callback' = Len(walkers) + 1
        /\ phase' = phase /\ request' = request /\ caches' = caches
        /\ request.kind = "none"
        /\ phase = 1 => Len(walkers) < 1
    BY DEF OpenWalker, Idle, asked
  <1>2. DOMAIN new = {"of", "types"}
    OBVIOUS
  <1>. HIDE DEF new
  <1>3. WalkersOk'
    <2>1. IsVector(walkers)
      BY DEF WalkersInv, WalkersOk
    <2>2. /\ IsVector(walkers')
          /\ Len(walkers) \in Nat /\ DOMAIN walkers = 1..Len(walkers)
          /\ Len(walkers') = Len(walkers) + 1
          /\ DOMAIN walkers' = 1..(Len(walkers) + 1)
          /\ \A i \in 1..(Len(walkers) + 1) : walkers'[i] = IF i = Len(walkers) + 1 THEN new ELSE walkers[i]
      BY <1>1, <2>1, VectorAppended
    <2>3. \A i \in DOMAIN walkers' : DOMAIN walkers'[i] = {"of", "types"}
      <3>1. \A i \in DOMAIN walkers : DOMAIN walkers[i] = {"of", "types"}
        BY DEF WalkersInv, WalkersOk
      <3>2. ASSUME NEW i \in DOMAIN walkers'
            PROVE  walkers'[i] = new \/ (i \in DOMAIN walkers /\ walkers'[i] = walkers[i])
        BY <2>2
      <3>. QED
        BY <1>2, <3>1, <3>2
    <2>4. callback' \in {0} \union DOMAIN walkers'
      BY <1>1, <2>2
    <2>5. phase \in 1..3
      BY DEF WalkersInv, WalkersOk
    <2>6. phase' = 1 => Len(walkers') <= 1 /\ callback' = Len(walkers')
      BY <1>1, <2>2
    <2>. QED
      BY <1>1, <2>2, <2>3, <2>4, <2>5, <2>6 DEF WalkersOk
  <1>4. RequestOk' /\ CachesOk'
    BY <1>1 DEF WalkersInv, RequestOk, CachesOk
  <1>. QED
    BY <1>3, <1>4 DEF WalkersInv

LEMMA CloseWalkerInv ==
    ASSUME WalkersInv, CloseWalker
    PROVE  WalkersInv'
  <1>1. /\ walkers # <<>> /\ walkers' = Front(walkers) /\ callback' = 0
        /\ phase' = phase /\ request' = request /\ caches' \subseteq caches
        /\ request.kind = "none"
    BY DEF CloseWalker, Idle, asked, Cleared
  <1>2. WalkersOk'
    <2>1. IsVector(walkers)
      BY DEF WalkersInv, WalkersOk
    <2>2. /\ IsVector(walkers')
          /\ Len(walkers) \in Nat /\ DOMAIN walkers = 1..Len(walkers)
          /\ Len(walkers') = Len(walkers) - 1 /\ Len(walkers') \in Nat
          /\ DOMAIN walkers' = 1..(Len(walkers) - 1)
          /\ \A i \in 1..(Len(walkers) - 1) : walkers'[i] = walkers[i]
      BY <1>1, <2>1, VectorFront
    <2>3. \A i \in DOMAIN walkers' : DOMAIN walkers'[i] = {"of", "types"}
      <3>1. \A i \in DOMAIN walkers : DOMAIN walkers[i] = {"of", "types"}
        BY DEF WalkersInv, WalkersOk
      <3>2. ASSUME NEW i \in DOMAIN walkers'
            PROVE  i \in DOMAIN walkers /\ walkers'[i] = walkers[i]
        BY <2>2
      <3>. QED
        BY <3>1, <3>2
    <2>4. phase \in 1..3 /\ (phase = 1 => Len(walkers) <= 1)
      BY DEF WalkersInv, WalkersOk
    <2>5. phase' = 1 => Len(walkers') <= 1 /\ callback' = Len(walkers')
      BY <1>1, <2>2, <2>4
    <2>. QED
      BY <1>1, <2>2, <2>3, <2>4, <2>5 DEF WalkersOk
  <1>3. RequestOk' /\ CachesOk'
    BY <1>1 DEF WalkersInv, RequestOk, CachesOk
  <1>. QED
    BY <1>2, <1>3 DEF WalkersInv

LEMMA NextPhaseInv ==
    ASSUME WalkersInv, NextPhase
    PROVE  WalkersInv'
  <1>1. /\ walkers' = walkers /\ callback' = callback /\ phase' = phase + 1 /\ phase < 3
        /\ request' = request /\ caches' = caches /\ request.kind = "none"
    BY DEF NextPhase, Idle, asked
  <1>. QED
    BY <1>1 DEF WalkersInv, WalkersOk, RequestOk, CachesOk

(* A request is made when none is under way: nothing is half filled.       *)
LEMMA RequestedInv ==
    ASSUME WalkersInv, NEW r, Requested(r), r.walker \in DOMAIN walkers,
           r.kind = "stack" => phase = 1 /\ r.walker = Len(walkers),
           \/ caches' = caches
           \/ /\ r.kind = "setup"
              /\ caches' = caches \union {<<walkers[r.walker].of, r.reader, "partial">>}
    PROVE  WalkersInv'
  <1>1. /\ walkers' = walkers /\ callback' = callback /\ phase' = phase /\ request' = r
        /\ request.kind = "none"
    BY DEF Requested, Idle
  <1>2. \A c \in caches : c[3] = "full"
    BY <1>1 DEF WalkersInv, CachesOk
  <1>. QED
    BY <1>1, <1>2 DEF WalkersInv, WalkersOk, RequestOk, CachesOk

(* The answer is kept by the walker it was made for.                       *)
LEMMA RememberedInv ==
    ASSUME WalkersInv, Remembered, request.kind # "none",
           phase' = phase, callback' = callback,
           \/ request'.kind = "none"
           \/ request'.kind = "setup" /\ request'.walker = request.walker /\ request'.reader = request.reader,
           \A c \in caches' :
              c[3] = "full" \/ (c \in caches /\ request.kind = "setup" /\ request'.kind = "setup")
    PROVE  WalkersInv'
  <1>. DEFINE w == request.walker
              new == [walkers[w] EXCEPT !.types =
                         With(@, [module |-> request.module, type |-> request.type], answer)]
  <1>1. w \in DOMAIN walkers /\ IsVector(walkers) /\ DOMAIN walkers[w] = {"of", "types"}
    BY DEF WalkersInv, WalkersOk, RequestOk
  <1>2. walkers' = [walkers EXCEPT ![w] = new]
    BY DEF Remembered
  <1>3. DOMAIN new = {"of", "types"} /\ new.of = walkers[w].of
    BY <1>1
  <1>. HIDE DEF new
  <1>4. /\ IsVector(walkers') /\ Len(walkers') = Len(walkers) /\ DOMAIN walkers' = DOMAIN walkers
        /\ \A j \in DOMAIN walkers : walkers'[j] = IF j = w THEN new ELSE walkers[j]
    <2>. HIDE DEF w
    <2>. QED
      BY <1>1, <1>2, VectorChanged
  <1>5. \A j \in DOMAIN walkers : walkers'[j].of = walkers[j].of /\ DOMAIN walkers'[j] = {"of", "types"}
    BY <1>3, <1>4 DEF WalkersInv, WalkersOk
  <1>. HIDE DEF w
  <1>6. WalkersOk'
    BY <1>4, <1>5 DEF WalkersInv, WalkersOk
  <1>7. RequestOk'
    BY <1>1, <1>4 DEF RequestOk, w
  <1>8. CachesOk'
    BY <1>1, <1>5 DEF WalkersInv, CachesOk, w
  <1>. QED
    BY <1>6, <1>7, <1>8 DEF WalkersInv

(* A request that filled no entry is done.                                 *)
LEMMA ShownInv ==
    ASSUME WalkersInv, request.kind # "setup", request' = NothingAsked,
           UNCHANGED <<walkers, phase, callback, caches>>
    PROVE  WalkersInv'
  BY DEF WalkersInv, WalkersOk, RequestOk, CachesOk, NothingAsked, Request

LEMMA StepWalkersInv == WalkersInv /\ [Next]_vars => WalkersInv'
  <1>. SUFFICES ASSUME WalkersInv, [Next]_vars
                PROVE  WalkersInv'
    OBVIOUS
  <1>1. ASSUME UNCHANGED <<walkers, phase, callback, request, caches>>
        PROVE  WalkersInv'
    BY <1>1 DEF WalkersInv, WalkersOk, RequestOk, CachesOk
  <1>2. CASE EndFile \/ LoadThrows \/ TypeIsMissing \/ \E f \in DOMAIN Frames : RegisterIsUnknown(f)
    BY <1>2, NextFileWalkersInv DEF EndFile, LoadThrows, TypeIsMissing, RegisterIsUnknown
  <1>3. CASE UNCHANGED vars \/ Ended
    BY <1>3, <1>1 DEF vars, asked, Ended
  <1>4. CASE AlreadyLoaded \/ LoadModule \/ StartLookup \/ LookIn \/ WayFails
    BY <1>4, <1>1 DEF AlreadyLoaded, LoadModule, StartLookup, LookIn, WayFails, asked
  <1>5. CASE XmlLog \/ DbgHelpReads \/ WayOpens \/ NoWayOpens
    BY <1>5, <1>1 DEF XmlLog, DbgHelpReads, WayOpens, NoWayOpens, Done, asked
  <1>6. CASE \E of \in {"main", "base"} : OpenWalker(of)
    BY <1>6, OpenWalkerInv
  <1>7. CASE CloseWalker \/ NextPhase
    BY <1>7, CloseWalkerInv, NextPhaseInv
  <1>8. ASSUME NEW w \in DOMAIN walkers, NEW t \in UserTypes, AskType(w, t) \/ AskSymbols(w, t.module)
        PROVE  WalkersInv'
    <2>1. /\ \E kind \in {"type", "symbols"} : \E n, type : Requested(Request(kind, w, n, type, FALSE, None))
          /\ caches' = caches
      BY <1>8 DEF AskType, AskSymbols
    <2>. QED
      BY <2>1, RequestedInv DEF Request
  <1>9. ASSUME NEW w \in DOMAIN walkers, NEW r \in Readers, SetupGlobals(w, r)
        PROVE  WalkersInv'
    <2>. DEFINE ask == Request("setup", w, TypesOf[r][1].module, TypesOf[r][1].type, TRUE, r)
    <2>1. Requested(ask) /\ caches' = caches \union {<<walkers[w].of, r, "partial">>}
      BY <1>9 DEF SetupGlobals
    <2>2. ask.walker = w /\ ask.kind = "setup" /\ ask.reader = r
      BY DEF Request
    <2>. HIDE DEF ask
    <2>. QED
      BY <2>1, <2>2, RequestedInv
  <1>10. ASSUME NEW w \in DOMAIN walkers, NEW i \in DOMAIN DumpOf(w), WalkFrame(w, i)
         PROVE  WalkersInv'
    <2>. DEFINE ask == Request("stack", w, DumpOf(w)[i].name, None, FALSE, None)
    <2>1. Requested(ask) /\ caches' = caches /\ phase = 1 /\ w = Len(walkers)
      BY <1>10 DEF WalkFrame
    <2>2. ask.walker = w
      BY DEF Request
    <2>. HIDE DEF ask
    <2>. QED
      BY <2>1, <2>2, RequestedInv
  <1>11. CASE Answered
    <2>1. /\ request.kind = "type" /\ Remembered /\ request' = NothingAsked
          /\ phase' = phase /\ callback' = callback /\ caches' = caches
      BY <1>11 DEF Answered
    <2>2. \A c \in caches : c[3] = "full"
      BY <2>1 DEF WalkersInv, CachesOk
    <2>3. request'.kind = "none"
      BY <2>1 DEF NothingAsked, Request
    <2>. QED
      BY <2>1, <2>2, <2>3, RememberedInv
  <1>12. CASE NextType
    <2>. DEFINE next == TypesOf[request.reader][Place + 1]
    <2>1. /\ request.kind = "setup" /\ Remembered
          /\ request' = [request EXCEPT !.module = next.module, !.type = next.type]
          /\ phase' = phase /\ callback' = callback /\ caches' = caches
      BY <1>12 DEF NextType
    <2>2. /\ request'.kind = request.kind /\ request'.walker = request.walker
          /\ request'.reader = request.reader
      BY <2>1
    <2>3. \A c \in caches' : c[3] = "full" \/ (c \in caches /\ request.kind = "setup" /\ request'.kind = "setup")
      BY <2>1, <2>2
    <2>4. request.kind # "none" /\ request'.kind = "setup"
      BY <2>1, <2>2
    <2>. HIDE DEF next
    <2>. QED
      BY <2>1, <2>2, <2>3, <2>4, RememberedInv
  <1>13. CASE EndSetup
    <2>1. /\ request.kind = "setup" /\ Remembered /\ request' = NothingAsked
          /\ phase' = phase /\ callback' = callback
          /\ caches' = (caches \ {<<walkers[request.walker].of, request.reader, "partial">>})
                           \union {<<walkers[request.walker].of, request.reader, "full">>}
      BY <1>13 DEF EndSetup
    <2>2. \A c \in caches' : c[3] = "full"
      BY <2>1 DEF WalkersInv, CachesOk
    <2>3. request'.kind = "none"
      BY <2>1 DEF NothingAsked, Request
    <2>. QED
      BY <2>1, <2>2, <2>3, RememberedInv
  <1>14. CASE SymbolsShown
    BY <1>14, ShownInv DEF SymbolsShown
  <1>15. CASE \E f \in DOMAIN Frames : FrameWalked(f)
    BY <1>15, ShownInv DEF FrameWalked, AtFrame
  <1>. QED
    BY <1>2, <1>3, <1>4, <1>5, <1>6, <1>7, <1>8, <1>9, <1>10, <1>11, <1>12, <1>13, <1>14, <1>15 DEF Next

(* The global callback is a walker that lives, and the one of the stack    *)
(* walk while it lasts.                                                    *)
THEOREM CallbackStaysAlive == Spec => []CallbackLives
  <1>1. WalkersInv => CallbackLives
    BY DEF WalkersInv, WalkersOk, RequestOk, CallbackLives
  <1>. QED
    BY <1>1, InitWalkersInv, StepWalkersInv, PTL DEF Spec

(* What DbgHelp finds when it calls back is safe for every dump and order  *)
(* of the walks.                                                           *)
THEOREM CallbacksStaySafe == Spec => []CallbacksSafe
BY LoadIsNeverReentered, CallbackStaysAlive, PTL DEF CallbacksSafe

(* An entry of the cache that is not full is the one being filled.         *)
THEOREM ReadersStayComplete == Spec => []ReadersComplete
  <1>1. WalkersInv => ReadersComplete
    BY DEF WalkersInv, CachesOk, ReadersComplete
  <1>. QED
    BY <1>1, InitWalkersInv, StepWalkersInv, PTL DEF Spec
-------------------------------------------------------------------------------
(* The engine and the user know of the download the server is at.          *)
DownloadOk ==
    /\ activity = [open |-> activity.open, file |-> activity.file, percent |-> activity.percent]
    /\ ~activity.open => activity = NoActivity
    /\ download = [engine |-> activity.file, module |-> activity.file,
                   percent |-> IF activity.file = None THEN None ELSE activity.percent]

LEMMA InitDownloadOk == Init => DownloadOk
  BY DEF Init, NoDownload, NoActivity, DownloadOk

(* One step of the log, in each state the engine may be in.                *)
LEMMA LogDownloadOk ==
    ASSUME DownloadOk, XmlLog
    PROVE  DownloadOk'
  <1>1. ASSUME NEW n, BeginsActivity(n)
        PROVE  DownloadOk'
    <2>1. download.engine = None
      BY <1>1 DEF BeginsActivity, DownloadOk, NoActivity
    <2>2. CASE n = None
      BY <1>1, <2>1, <2>2 DEF BeginsActivity, StartDownload, DownloadOk, NoActivity
    <2>3. CASE n # None
      BY <1>1, <2>1, <2>3 DEF BeginsActivity, StartDownload, DownloadOk
    <2>. QED
      BY <2>2, <2>3
  <1>2. ASSUME NEW p, Progresses(p)
        PROVE  DownloadOk'
    <2>1. /\ activity' = [open |-> activity.open, file |-> activity.file, percent |-> p]
          /\ activity'.open
      BY <1>2 DEF Progresses, DownloadOk
    <2>2. CASE activity.file = None
      BY <1>2, <2>1, <2>2 DEF Progresses, DownloadPercent, DownloadOk
    <2>3. CASE activity.file # None
      BY <1>2, <2>1, <2>3 DEF Progresses, DownloadPercent, DownloadOk
    <2>. QED
      BY <2>2, <2>3
  <1>3. ASSUME EndsActivity
        PROVE  DownloadOk'
    <2>1. CASE download.engine = None
      BY <1>3, <2>1 DEF EndsActivity, DownloadComplete, DownloadOk, NoActivity
    <2>2. CASE download.engine # None
      BY <1>3, <2>2 DEF EndsActivity, DownloadComplete, DownloadOk, NoActivity, NoDownload
    <2>. QED
      BY <2>1, <2>2
  <1>. QED
    BY <1>1, <1>2, <1>3 DEF XmlLog

(* Only the log of the symbol server and the end of a dump change what is  *)
(* known and shown of a download.                                          *)
LEMMA StepDownloadOk == DownloadOk /\ [Next]_vars => DownloadOk'
  <1>. SUFFICES ASSUME DownloadOk, [Next]_vars
                PROVE  DownloadOk'
    OBVIOUS
  <1>1. ASSUME UNCHANGED <<activity, download>>
        PROVE  DownloadOk'
    BY <1>1 DEF DownloadOk, NoActivity
  <1>2. ASSUME activity' = NoActivity, download' = NoDownload
        PROVE  DownloadOk'
    BY <1>2 DEF DownloadOk, NoActivity, NoDownload
  <1>3. CASE EndFile \/ LoadThrows \/ TypeIsMissing \/ \E f \in DOMAIN Frames : RegisterIsUnknown(f)
    BY <1>3, <1>2 DEF EndFile, LoadThrows, TypeIsMissing, RegisterIsUnknown, NextFile
  <1>4. CASE XmlLog
    BY <1>4, LogDownloadOk
  <1>5. CASE AlreadyLoaded \/ LoadModule \/ DbgHelpReads \/ WayFails \/ LookIn
    BY <1>5, <1>1 DEF AlreadyLoaded, LoadModule, DbgHelpReads, WayFails, LookIn, engine
  <1>6. CASE WayOpens \/ NoWayOpens
    BY <1>6, <1>1 DEF WayOpens, NoWayOpens, Done
  <1>7. CASE \E of \in {"main", "base"} : OpenWalker(of)
    BY <1>7, <1>1 DEF OpenWalker, engine
  <1>8. CASE CloseWalker \/ NextPhase \/ StartLookup \/ Answered \/ NextType \/ EndSetup \/ SymbolsShown
    BY <1>8, <1>1 DEF CloseWalker, NextPhase, StartLookup, Answered, NextType, EndSetup, SymbolsShown, engine
  <1>9. ASSUME NEW w \in DOMAIN walkers,
               \/ \E t \in UserTypes : AskType(w, t) \/ AskSymbols(w, t.module)
               \/ \E r \in Readers : SetupGlobals(w, r)
               \/ \E i \in DOMAIN DumpOf(w) : WalkFrame(w, i)
        PROVE  DownloadOk'
    BY <1>9, <1>1 DEF AskType, AskSymbols, SetupGlobals, WalkFrame, Requested, engine
  <1>10. CASE \E f \in DOMAIN Frames : FrameWalked(f)
    BY <1>10, <1>1 DEF FrameWalked, engine
  <1>11. CASE Ended \/ UNCHANGED vars
    BY <1>11, <1>1 DEF Ended, vars, engine
  <1>. QED
    BY <1>3, <1>4, <1>5, <1>6, <1>7, <1>8, <1>9, <1>10, <1>11 DEF Next

(* However the activities of the symbol server, loads and exceptions       *)
(* follow each other, the user sees the download the server is at, with    *)
(* its latest progress, and none when there is none.                       *)
THEOREM DownloadStaysTrue == Spec => []DownloadShown
  <1>1. DownloadOk => DownloadShown
    BY DEF DownloadOk, DownloadShown
  <1>. QED
    BY <1>1, InitDownloadOk, StepDownloadOk, PTL DEF Spec

-------------------------------------------------------------------------------
(* The dumps being processed agree about their modules.                    *)
Agreeing == file # 0 /\ Agree(command[file].main, command[file].base)

(* The file being processed is one of the command, and nothing is left     *)
(* when there is none any more.                                            *)
FilesOk ==
    /\ command \in Commands
    /\ file \in {0} \union DOMAIN command
    /\ file = 0 => walkers = <<>> /\ loads = <<>> /\ request.kind = "none"
    /\ \A i \in DOMAIN walkers :
          /\ walkers[i].of \in {"main", "base"}
          /\ walkers[i].of = "base" => command[file].base # <<>>

(* What is still to be loaded are modules of the walker's dump.            *)
TodoOk ==
    /\ request.kind = "none" => todo = {}
    /\ request.kind # "none" => todo \subseteq DOMAIN DumpOf(request.walker)
    /\ \A i \in DOMAIN loads : loads[i].module \in Modules(command[file])

(* The file taken for an image has its checksum.                           *)
FileOk(m, f) == f # None /\ m.sum # 0 => f.valid /\ f.sum = m.sum

(* What is known of a module is about a module of that name.               *)
ModulesOk ==
    \A n \in Names :
        /\ modules[n].module \in Modules(command[file])
        /\ modules[n].module.name = n
        /\ modules[n].image \in Modules(command[file]) \union {None}
        /\ FileOk(modules[n].module, modules[n].file)
        /\ Agreeing /\ IsLibrary(n) /\ modules[n].image # None => modules[n].image.name = n

(* An image has the type t, and is of the module readers ask for it.       *)
TypeOf(image, t) ==
    /\ image \in Modules(command[file])
    /\ t \in image.types
    /\ \E r \in Readers : \E i \in DOMAIN TypesOf[r] :
          TypesOf[r][i] = [module |-> image.name, type |-> t]

(* Until the user asks for types only readers have, each for one of its    *)
(* own and of the module it named.                                         *)
SetupOk ==
    /\ DOMAIN request = {"kind", "walker", "module", "type", "throw", "reader"}
    /\ request.kind \in {"none", "stack", "type", "symbols", "setup"}
    /\ request.kind \in {"type", "symbols"} => phase = 3
    /\ request.kind = "setup" =>
          /\ phase = 2
          /\ request.reader \in Readers
          /\ \E i \in DOMAIN TypesOf[request.reader] :
                TypesOf[request.reader][i] = [module |-> request.module, type |-> request.type]
          /\ scan \in {None, <<>>} \/ (scan = <<request.module>> /\ request.module \in Names)
          /\ Agreeing /\ answer # None => TypeOf(answer, request.type)
    /\ phase # 3 /\ Agreeing =>
          \A t \in DOMAIN found : found[t] # None => TypeOf(found[t], t)

LibraryInv == FilesOk /\ TodoOk /\ ModulesOk /\ SetupOk

(* A property that is about a part of the state, when that part stays.     *)
LEMMA FilesStay ==
    ASSUME FilesOk, UNCHANGED <<command, file>>,
           walkers' = walkers \/ (file # 0 /\ \A i \in DOMAIN walkers' :
               \/ walkers'[i].of = "main"
               \/ walkers'[i].of = "base" /\ command[file].base # <<>>),
           file # 0 \/ UNCHANGED <<loads, request>>
    PROVE  FilesOk'
  BY DEF FilesOk

LEMMA TodoStays ==
    ASSUME TodoOk, UNCHANGED <<command, file, loads, request, todo>>,
           request.kind # "none" => walkers'[request.walker].of = walkers[request.walker].of
    PROVE  TodoOk'
  BY DEF TodoOk, DumpOf

LEMMA ModulesStay ==
    ASSUME ModulesOk, UNCHANGED <<command, file, modules>>
    PROVE  ModulesOk'
  BY DEF ModulesOk, Names, Agreeing, FileOk

LEMMA SetupStays ==
    ASSUME SetupOk, UNCHANGED <<command, file, phase, found, request, scan, answer, modules>>
    PROVE  SetupOk'
  BY DEF SetupOk, Names, Agreeing, TypeOf

(* A new dump, or none: nothing is known.                                  *)
LEMMA NextFileLibrary ==
    ASSUME LibraryInv, NextFile
    PROVE  LibraryInv'
  <1>1. command \in Commands /\ file \in {0} \union DOMAIN command
    BY DEF LibraryInv, FilesOk
  <1>2. Len(command) \in Nat /\ DOMAIN command = 1..Len(command)
    BY <1>1, CommandsAssumption
  <1>3. /\ file' = IF file < Len(command) THEN file + 1 ELSE 0
        /\ command' = command /\ walkers' = <<>> /\ loads' = <<>> /\ request'.kind = "none"
        /\ todo' = {} /\ modules' = <<>> /\ found' = <<>> /\ phase' = 1
        /\ DOMAIN request' = {"kind", "walker", "module", "type", "throw", "reader"}
    BY DEF NextFile, NothingAsked, Request
  <1>4. file' \in {0} \union DOMAIN command
    BY <1>1, <1>2, <1>3
  <1>5. DOMAIN walkers' = {} /\ DOMAIN modules' = {} /\ DOMAIN found' = {} /\ DOMAIN loads' = {}
    BY <1>3
  <1>6. FilesOk'
    BY <1>1, <1>3, <1>4, <1>5 DEF FilesOk
  <1>7. TodoOk'
    BY <1>3, <1>5 DEF TodoOk
  <1>8. ModulesOk'
    BY <1>5 DEF ModulesOk, Names
  <1>9. SetupOk'
    BY <1>3, <1>5 DEF SetupOk
  <1>. QED
    BY <1>6, <1>7, <1>8, <1>9 DEF LibraryInv

LEMMA InitLibrary == Init => LibraryInv
  <1>. SUFFICES ASSUME Init PROVE LibraryInv
    OBVIOUS
  <1>1. /\ command \in Commands /\ file = 1 /\ walkers = <<>> /\ loads = <<>> /\ request.kind = "none"
        /\ todo = {} /\ modules = <<>> /\ found = <<>> /\ phase = 1
        /\ DOMAIN request = {"kind", "walker", "module", "type", "throw", "reader"}
    BY DEF Init, NothingAsked, Request
  <1>2. 1 \in DOMAIN command
    BY <1>1, CommandsAssumption
  <1>3. DOMAIN walkers = {} /\ DOMAIN modules = {} /\ DOMAIN found = {} /\ DOMAIN loads = {}
    BY <1>1
  <1>. QED
    BY <1>1, <1>2, <1>3 DEF LibraryInv, FilesOk, TodoOk, ModulesOk, Names, SetupOk

(* The commands between requests.                                          *)
LEMMA CommandLibrary ==
    ASSUME LibraryInv, WalkersInv,
           (\E of \in {"main", "base"} : OpenWalker(of)) \/ CloseWalker \/ NextPhase
    PROVE  LibraryInv'
  <1>1. /\ file # 0 /\ request.kind = "none"
        /\ UNCHANGED <<command, file, modules, found, loads, request, todo, scan, answer>>
    BY DEF OpenWalker, CloseWalker, NextPhase, Idle, engine, asked
  <1>2. FilesOk /\ TodoOk /\ ModulesOk /\ SetupOk /\ IsVector(walkers) /\ phase \in 1..3
    BY DEF LibraryInv, WalkersInv, WalkersOk
  <1>3. \A i \in DOMAIN walkers' :
            \/ walkers'[i].of = "main"
            \/ walkers'[i].of = "base" /\ command[file].base # <<>>
    <2>. SUFFICES ASSUME NEW i \in DOMAIN walkers'
                  PROVE  \/ walkers'[i].of = "main"
                         \/ walkers'[i].of = "base" /\ command[file].base # <<>>
      OBVIOUS
    <2>1. \A k \in DOMAIN walkers :
            \/ walkers[k].of = "main"
            \/ walkers[k].of = "base" /\ command[file].base # <<>>
      BY <1>2 DEF FilesOk
    <2>2. ASSUME NEW of \in {"main", "base"}, OpenWalker(of)
          PROVE  \/ walkers'[i].of = "main"
                 \/ walkers'[i].of = "base" /\ command[file].base # <<>>
      <3>. DEFINE new == [of |-> of, types |-> <<>>]
      <3>1. walkers' = Append(walkers, new) /\ (of = "base" => command[file].base # <<>>)
        BY <2>2 DEF OpenWalker
      <3>2. new.of = of
        OBVIOUS
      <3>. HIDE DEF new
      <3>3. walkers'[i] = new \/ (i \in DOMAIN walkers /\ walkers'[i] = walkers[i])
        BY <1>2, <3>1, VectorAppended
      <3>. QED
        BY <2>1, <3>1, <3>2, <3>3
    <2>3. CASE CloseWalker
      <3>1. walkers # <<>> /\ walkers' = Front(walkers)
        BY <2>3 DEF CloseWalker
      <3>2. /\ Len(walkers) \in Nat /\ DOMAIN walkers = 1..Len(walkers)
            /\ DOMAIN walkers' = 1..(Len(walkers) - 1)
            /\ \A j \in 1..(Len(walkers) - 1) : walkers'[j] = walkers[j]
        BY <1>2, <3>1, VectorFront
      <3>3. i \in DOMAIN walkers /\ walkers'[i] = walkers[i]
        BY <3>2
      <3>. QED
        BY <2>1, <3>3
    <2>4. CASE NextPhase
      BY <2>1, <2>4 DEF NextPhase
    <2>. QED
      BY <2>2, <2>3, <2>4
  <1>4. FilesOk' /\ TodoOk' /\ ModulesOk'
    BY <1>1, <1>2, <1>3, FilesStay, TodoStays, ModulesStay
  <1>5. phase' = phase \/ (phase' = phase + 1 /\ phase < 3)
    BY DEF OpenWalker, CloseWalker, NextPhase
  <1>6. SetupOk'
    <2>1. phase' # 3 => phase # 3
      BY <1>2, <1>5
    <2>. QED
      BY <1>1, <1>2, <2>1 DEF SetupOk, Names, Agreeing, TypeOf
  <1>. QED
    BY <1>4, <1>6 DEF LibraryInv

(* A request is made between requests.                                     *)
LEMMA RequestedLibrary ==
    ASSUME LibraryInv, NEW r, Requested(r), todo' \subseteq DOMAIN DumpOf(r.walker),
           DOMAIN r = {"kind", "walker", "module", "type", "throw", "reader"},
           r.kind \in {"stack", "type", "symbols", "setup"},
           r.kind \in {"type", "symbols"} => phase = 3,
           r.kind = "setup" =>
              /\ phase = 2 /\ r.reader \in Readers
              /\ \E i \in DOMAIN TypesOf[r.reader] :
                    TypesOf[r.reader][i] = [module |-> r.module, type |-> r.type]
    PROVE  LibraryInv'
  <1>1. /\ UNCHANGED <<command, file, phase, walkers, modules, found, loads>>
        /\ request' = r /\ scan' = None /\ answer' = None /\ file # 0
    BY DEF Requested, Idle, engine
  <1>2. FilesOk /\ TodoOk /\ ModulesOk /\ SetupOk
    BY DEF LibraryInv
  <1>3. FilesOk' /\ ModulesOk'
    BY <1>1, <1>2, FilesStay, ModulesStay
  <1>4. TodoOk'
    BY <1>1, <1>2 DEF TodoOk, DumpOf
  <1>5. SetupOk'
    BY <1>1, <1>2 DEF SetupOk, Agreeing, TypeOf, Names
  <1>. QED
    BY <1>3, <1>4, <1>5 DEF LibraryInv

LEMMA AskLibrary ==
    ASSUME LibraryInv, NEW w \in DOMAIN walkers,
           \/ \E t \in UserTypes : AskType(w, t) \/ AskSymbols(w, t.module)
           \/ \E r \in Readers : SetupGlobals(w, r)
           \/ \E i \in DOMAIN DumpOf(w) : WalkFrame(w, i)
    PROVE  LibraryInv'
  <1>1. ASSUME NEW n PROVE Named(w, n) \subseteq DOMAIN DumpOf(w) /\ ToLoad(w, n) \subseteq DOMAIN DumpOf(w)
    <2>1. Named(w, n) \subseteq DOMAIN DumpOf(w)
      BY DEF Named, FirstOf
    <2>. QED
      BY <2>1 DEF ToLoad
  <1>2. ASSUME NEW t, AskType(w, t) PROVE LibraryInv'
    <2>. DEFINE r == Request("type", w, t.module, t.type, FALSE, None)
    <2>1. Requested(r) /\ phase = 3 /\ todo' = ToLoad(w, t.module)
      BY <1>2 DEF AskType, UserPhase
    <2>2. r.walker = w /\ r.kind = "type" /\ DOMAIN r = {"kind", "walker", "module", "type", "throw", "reader"}
      BY DEF Request
    <2>3. todo' \subseteq DOMAIN DumpOf(w)
      BY <2>1, <1>1
    <2>. HIDE DEF r
    <2>. QED
      BY <2>1, <2>2, <2>3, RequestedLibrary
  <1>3. ASSUME NEW n, AskSymbols(w, n) PROVE LibraryInv'
    <2>. DEFINE r == Request("symbols", w, n, None, FALSE, None)
    <2>1. Requested(r) /\ phase = 3 /\ todo' = ToLoad(w, n)
      BY <1>3 DEF AskSymbols, UserPhase
    <2>2. r.walker = w /\ r.kind = "symbols" /\ DOMAIN r = {"kind", "walker", "module", "type", "throw", "reader"}
      BY DEF Request
    <2>3. todo' \subseteq DOMAIN DumpOf(w)
      BY <2>1, <1>1
    <2>. HIDE DEF r
    <2>. QED
      BY <2>1, <2>2, <2>3, RequestedLibrary
  <1>4. ASSUME NEW q \in Readers, SetupGlobals(w, q) PROVE LibraryInv'
    <2>. DEFINE r == Request("setup", w, TypesOf[q][1].module, TypesOf[q][1].type, TRUE, q)
    <2>1. Requested(r) /\ phase = 2 /\ todo' = Named(w, TypesOf[q][1].module)
      BY <1>4 DEF SetupGlobals
    <2>2. /\ r.walker = w /\ r.kind = "setup" /\ r.reader = q
          /\ r.module = TypesOf[q][1].module /\ r.type = TypesOf[q][1].type
          /\ DOMAIN r = {"kind", "walker", "module", "type", "throw", "reader"}
      BY DEF Request
    <2>3. 1 \in DOMAIN TypesOf[q] /\ TypesOf[q][1] = [module |-> TypesOf[q][1].module, type |-> TypesOf[q][1].type]
      <3>1. 1 \in DOMAIN TypesOf[q]
        BY ReadersAssumption
      <3>. QED
        BY <3>1, ReadersAssumption
    <2>4. todo' \subseteq DOMAIN DumpOf(w)
      BY <2>1, <1>1
    <2>. HIDE DEF r
    <2>5. \E i \in DOMAIN TypesOf[r.reader] : TypesOf[r.reader][i] = [module |-> r.module, type |-> r.type]
      BY <2>2, <2>3
    <2>. QED
      BY <2>1, <2>2, <2>4, <2>5, RequestedLibrary
  <1>5. ASSUME NEW i \in DOMAIN DumpOf(w), WalkFrame(w, i) PROVE LibraryInv'
    <2>. DEFINE r == Request("stack", w, DumpOf(w)[i].name, None, FALSE, None)
    <2>1. Requested(r) /\ todo' = {i}
      BY <1>5 DEF WalkFrame
    <2>2. r.walker = w /\ r.kind = "stack" /\ DOMAIN r = {"kind", "walker", "module", "type", "throw", "reader"}
      BY DEF Request
    <2>. HIDE DEF r
    <2>. QED
      BY <2>1, <2>2, RequestedLibrary
  <1>. QED
    BY <1>2, <1>3, <1>4, <1>5

(* The modules of a walker's dump are modules of the dumps.                *)
LEMMA ModulesOfDump ==
    ASSUME FilesOk, NEW w \in DOMAIN walkers
    PROVE  /\ file # 0
           /\ ToSet(DumpOf(w)) \subseteq Modules(command[file])
           /\ \A i \in DOMAIN DumpOf(w) : DumpOf(w)[i] \in ToSet(DumpOf(w))
  <1>1. file # 0
    <2>1. walkers # <<>>
      OBVIOUS
    <2>. QED
      BY <2>1 DEF FilesOk
  <1>2. walkers[w].of \in {"main", "base"}
    BY DEF FilesOk
  <1>3. ToSet(DumpOf(w)) \subseteq Modules(command[file])
    BY <1>2 DEF DumpOf, Modules
  <1>. QED
    BY <1>1, <1>3 DEF ToSet

(* One module of the dumps is being loaded.                                *)
LEMMA BeginLibrary ==
    ASSUME LibraryInv, file # 0, loads = <<>>, NEW m \in Modules(command[file]), NEW throw, Begin(m, throw),
           UNCHANGED <<command, file, phase, walkers, modules, found, request, scan, answer>>,
           todo' \subseteq todo
    PROVE  LibraryInv'
  <1>1. loads' = <<[module |-> m, ways |-> Ways(m), throw |-> throw]>>
    BY DEF Begin
  <1>2. \A i \in DOMAIN loads' : loads'[i].module = m
    BY <1>1
  <1>3. FilesOk /\ TodoOk /\ ModulesOk /\ SetupOk
    BY DEF LibraryInv
  <1>4. FilesOk' /\ ModulesOk' /\ SetupOk'
    BY <1>3, FilesStay, ModulesStay, SetupStays
  <1>5. TodoOk'
    BY <1>2, <1>3 DEF TodoOk, DumpOf
  <1>. QED
    BY <1>4, <1>5 DEF LibraryInv

LEMMA LoadLibrary ==
    ASSUME LibraryInv, WalkersInv, OneLoad, AlreadyLoaded \/ LoadModule \/ DbgHelpReads
    PROVE  LibraryInv'
  <1>1. FilesOk /\ TodoOk /\ ModulesOk /\ SetupOk
    BY DEF LibraryInv
  <1>2. CASE AlreadyLoaded
    <2>1. /\ UNCHANGED <<command, file, phase, walkers, modules, found, loads, request, scan, answer>>
          /\ todo' \subseteq todo
      BY <1>2 DEF AlreadyLoaded, engine
    <2>2. FilesOk' /\ ModulesOk' /\ SetupOk'
      BY <1>1, <2>1, FilesStay, ModulesStay, SetupStays
    <2>3. TodoOk'
      BY <1>1, <2>1 DEF TodoOk, DumpOf
    <2>. QED
      BY <2>2, <2>3 DEF LibraryInv
  <1>3. CASE LoadModule
    <2>1. PICK i \in FirstOf(todo) : /\ Begin(DumpOf(request.walker)[i], request.throw)
                                     /\ todo' = todo \ {i}
      BY <1>3 DEF LoadModule
    <2>2. i \in todo /\ request.kind # "none"
      BY <1>1 DEF FirstOf, TodoOk
    <2>3. request.walker \in DOMAIN walkers /\ i \in DOMAIN DumpOf(request.walker)
      BY <1>1, <2>2 DEF WalkersInv, RequestOk, TodoOk
    <2>4. DumpOf(request.walker)[i] \in Modules(command[file]) /\ file # 0
      BY <1>1, <2>3, ModulesOfDump
    <2>5. /\ UNCHANGED <<command, file, phase, walkers, modules, found, request, scan, answer>>
          /\ loads = <<>> /\ todo' \subseteq todo
      BY <1>3, <2>1 DEF LoadModule
    <2>. QED
      BY <2>1, <2>4, <2>5, BeginLibrary
  <1>4. CASE DbgHelpReads
    <2>1. PICK m \in ToSet(DumpOf(callback)) : Begin(m, FALSE)
      BY <1>4 DEF DbgHelpReads
    <2>2. callback \in DOMAIN walkers
      BY <1>4 DEF DbgHelpReads, WalkersInv, WalkersOk
    <2>3. m \in Modules(command[file]) /\ file # 0
      BY <1>1, <2>2, ModulesOfDump
    <2>4. /\ UNCHANGED <<command, file, phase, walkers, modules, found, request, scan, answer>>
          /\ loads = <<>> /\ todo' \subseteq todo
      BY <1>4 DEF DbgHelpReads, ReadLoadsModules, OneLoad, asked
    <2>. QED
      BY <2>1, <2>3, <2>4, BeginLibrary
  <1>. QED
    BY <1>2, <1>3, <1>4

-------------------------------------------------------------------------------
(* Where the dumps agree, a version and the address of a library say which *)
(* module it is.                                                           *)
LEMMA OneModule ==
    ASSUME FilesOk, Agreeing, NEW m \in Modules(command[file]), NEW k \in Modules(command[file])
    PROVE  /\ m.name = k.name => m.version = k.version /\ m.sum = k.sum
           /\ m.base = k.base /\ IsLibrary(m.name) => k.name = m.name
  <1>1. /\ command \in Commands /\ file \in DOMAIN command
        /\ Agree(command[file].main, command[file].base)
    BY DEF FilesOk, Agreeing
  <1>2. /\ IsProcess(command[file].main) /\ IsProcess(command[file].base)
        /\ m.name = k.name /\ m.version = k.version => m.sum = k.sum
    BY <1>1, CommandsAssumption
  <1>3. m.name = k.name => m.version = k.version
    BY <1>1, <1>2 DEF Modules, IsProcess, Agree
  <1>4. m.base = k.base /\ IsLibrary(m.name) => k.name = m.name
    BY <1>1, <1>2 DEF Modules, IsProcess, Agree
  <1>. QED
    BY <1>2, <1>3, <1>4

(* The first of some places.                                               *)
LEMMA LeastPlace ==
    ASSUME NEW S, S \subseteq Nat, S # {}
    PROVE  (CHOOSE i \in S : \A j \in S : i <= j) \in S
  <1>1. PICK i \in S : \A j \in S : ~(<<j, i>> \in OpToRel(<, Nat))
    <2>1. IsWellFoundedOn(OpToRel(<, Nat), Nat)
      BY NatLessThanWellFounded
    <2>. QED
      BY <2>1, WFMin
  <1>2. \A j \in S : i <= j
    <2>. SUFFICES ASSUME NEW j \in S, j < i PROVE FALSE
      OBVIOUS
    <2>1. <<j, i>> \in OpToRel(<, Nat)
      BY DEF OpToRel
    <2>. QED
      BY <1>1, <2>1
  <1>. QED
    BY <1>2

(* A file that is taken was accepted.                                      *)
LEMMA FileAccepted ==
    ASSUME FilesOk, file # 0, NEW m \in Modules(command[file]), NEW image
    PROVE  FileOk(m, ImageFile(m, image))
  <1>. DEFINE accepted == {i \in DOMAIN FilesOf[m.name] : Accepts(m.sum, FilesOf[m.name][i])}
              first == CHOOSE i \in accepted : \A j \in accepted : i <= j
  <1>1. command \in Commands /\ file \in DOMAIN command
    BY DEF FilesOk
  <1>2. accepted \subseteq Nat
    BY <1>1, CommandsAssumption
  <1>3. CASE image = None \/ accepted = {}
    <2>1. ImageFile(m, image) = None
      BY <1>3 DEF ImageFile
    <2>. QED
      BY <2>1 DEF FileOk
  <1>4. CASE ~(image = None \/ accepted = {})
    <2>1. ImageFile(m, image) = FilesOf[m.name][first]
      BY <1>4 DEF ImageFile
    <2>. HIDE DEF first
    <2>2. first \in accepted
      <3>. HIDE DEF accepted
      <3>1. (CHOOSE i \in accepted : \A j \in accepted : i <= j) \in accepted
        BY <1>2, <1>4, LeastPlace
      <3>. QED
        BY <3>1 DEF first
    <2>3. Accepts(m.sum, FilesOf[m.name][first])
      BY <2>2
    <2>. QED
      BY <2>1, <2>3 DEF FileOk, Accepts
  <1>. QED
    BY <1>3, <1>4

(* A module that is loaded already has the image of one of its base.       *)
LEMMA ImageIsOfModule ==
    ASSUME FilesOk, file # 0, ModulesOk, NEW m \in Modules(command[file])
    PROVE  /\ ImageOf(m) \in Modules(command[file])
           /\ Agreeing /\ IsLibrary(m.name) => ImageOf(m).name = m.name
  <1>1. CASE Mapped(m) = {}
    BY <1>1 DEF ImageOf
  <1>2. CASE Mapped(m) # {}
    <2>. DEFINE n == CHOOSE x \in Mapped(m) : TRUE
    <2>1. n \in Mapped(m) /\ ImageOf(m) = modules[n].image
      BY <1>2 DEF ImageOf
    <2>. HIDE DEF n
    <2>2. /\ n \in Names /\ modules[n].image # None /\ modules[n].module.base = m.base
          /\ modules[n].module \in Modules(command[file])
          /\ modules[n].module.name = n
          /\ modules[n].image \in Modules(command[file])
      BY <2>1 DEF Mapped, ModulesOk
    <2>3. ASSUME Agreeing, IsLibrary(m.name) PROVE ImageOf(m).name = m.name
      <3>1. n = m.name
        BY <2>2, <2>3, OneModule
      <3>. QED
        BY <2>1, <2>2, <2>3, <3>1 DEF ModulesOk
    <2>. QED
      BY <2>1, <2>2, <2>3
  <1>. QED
    BY <1>1, <1>2

(* A module is remembered by its name.                                     *)
LEMMA RememberedModule ==
    ASSUME FilesOk, file # 0, ModulesOk, UNCHANGED <<command, file>>, NEW m \in Modules(command[file]),
           NEW image, image = ImageOf(m) \/ image = None,
           modules' = Kept(modules, m.name, [module |-> m, image |-> image, file |-> ImageFile(m, image)])
    PROVE  ModulesOk' /\ Names \subseteq Names'
  <1>. DEFINE new == [module |-> m, image |-> image, file |-> ImageFile(m, image)]
  <1>1. /\ new.module = m /\ new.image = image /\ FileOk(m, new.file)
        /\ image \in Modules(command[file]) \union {None}
        /\ Agreeing /\ IsLibrary(m.name) /\ image # None => image.name = m.name
    BY FileAccepted, ImageIsOfModule
  <1>. HIDE DEF new
  <1>2. \A n \in DOMAIN modules' : \/ n \in DOMAIN modules /\ modules'[n] = modules[n]
                                   \/ n = m.name /\ modules'[n] = new
    BY DEF Kept, With, new
  <1>3. DOMAIN modules \subseteq DOMAIN modules'
    BY DEF Kept, With
  <1>4. Agreeing' = Agreeing
    BY DEF Agreeing
  <1>5. ModulesOk'
    <2>. SUFFICES ASSUME NEW n \in DOMAIN modules'
                  PROVE  /\ modules'[n].module \in Modules(command[file])
                         /\ modules'[n].module.name = n
                         /\ modules'[n].image \in Modules(command[file]) \union {None}
                         /\ FileOk(modules'[n].module, modules'[n].file)
                         /\ Agreeing /\ IsLibrary(n) /\ modules'[n].image # None => modules'[n].image.name = n
      BY <1>4 DEF ModulesOk, Names, FileOk
    <2>1. CASE n \in DOMAIN modules /\ modules'[n] = modules[n]
      BY <2>1 DEF ModulesOk, Names
    <2>2. CASE n = m.name /\ modules'[n] = new
      BY <1>1, <2>2
    <2>. QED
      BY <1>2, <2>1, <2>2
  <1>. QED
    BY <1>3, <1>5 DEF Names

LEMMA DoneLibrary ==
    ASSUME LibraryInv, OneLoad, WayOpens \/ NoWayOpens \/ WayFails
    PROVE  LibraryInv'
  <1>1. loads # <<>>
    BY DEF WayOpens, NoWayOpens, WayFails
  <1>2. FilesOk /\ TodoOk /\ ModulesOk /\ SetupOk
    BY DEF LibraryInv
  <1>3. /\ Len(loads) = 1 /\ loads = <<loads[1]>> /\ Loaded = loads[1] /\ file # 0
        /\ loads[1].module \in Modules(command[file])
    <2>1. loads = <<loads[1]>> /\ file # 0
      BY <1>1, <1>2 DEF OneLoad, FilesOk
    <2>2. Len(loads) = 1 /\ 1 \in DOMAIN loads
      BY <2>1
    <2>. QED
      BY <1>2, <2>1, <2>2 DEF Loaded, Last, TodoOk
  <1>4. CASE WayFails
    <2>. DEFINE first == loads[1]
                later == [first EXCEPT !.ways = Tail(@)]
    <2>1. /\ UNCHANGED <<command, file, phase, walkers, modules, found, request, todo, scan, answer>>
          /\ loads' = [loads EXCEPT ![Len(loads)].ways = Tail(@)]
      BY <1>4 DEF WayFails, asked
    <2>2. loads' = [<<first>> EXCEPT ![1].ways = Tail(@)]
      BY <1>3, <2>1
    <2>3. [<<first>> EXCEPT ![1].ways = Tail(@)] = [<<first>> EXCEPT ![1] = later]
      OBVIOUS
    <2>4. later.module = first.module
      OBVIOUS
    <2>. HIDE DEF first, later
    <2>5. loads' = <<later>>
      BY <2>2, <2>3
    <2>6. \A i \in DOMAIN loads' : loads'[i].module \in Modules(command[file])
      BY <1>3, <2>4, <2>5 DEF first
    <2>7. FilesOk' /\ ModulesOk' /\ SetupOk'
      BY <1>2, <1>3, <2>1, FilesStay, ModulesStay, SetupStays
    <2>8. TodoOk'
      BY <1>2, <2>1, <2>6 DEF TodoOk, DumpOf
    <2>. QED
      BY <2>7, <2>8 DEF LibraryInv
  <1>5. ASSUME NEW image, image = ImageOf(Loaded.module) \/ image = None, Done(image)
        PROVE  LibraryInv'
    <2>1. /\ UNCHANGED <<command, file, phase, walkers, found, request, todo, scan, answer>>
          /\ loads' = Front(loads)
          /\ modules' = Kept(modules, loads[1].module.name,
                             [module |-> loads[1].module, image |-> image, file |-> ImageFile(loads[1].module, image)])
      BY <1>3, <1>5 DEF Done, asked
    <2>2. loads' = <<>>
      BY <1>3, <2>1 DEF Front
    <2>3. ModulesOk' /\ Names \subseteq Names'
      BY <1>2, <1>3, <1>5, <2>1, RememberedModule
    <2>4. FilesOk'
      BY <1>2, <1>3, <2>1, FilesStay
    <2>5. TodoOk'
      BY <1>2, <2>1, <2>2 DEF TodoOk, DumpOf
    <2>6. SetupOk'
      BY <1>2, <2>1, <2>3 DEF SetupOk, Agreeing, TypeOf
    <2>. QED
      BY <2>3, <2>4, <2>5, <2>6 DEF LibraryInv
  <1>. QED
    BY <1>4, <1>5 DEF WayOpens, NoWayOpens

-------------------------------------------------------------------------------
(* What a lookup finds for a reader is a type of the module it named.      *)
LEMMA FoundForReader ==
    ASSUME FilesOk, ModulesOk, SetupOk, Agreeing, request.kind = "setup", request.module \in Names,
           FoundIn(request.module, request.type) # None
    PROVE  TypeOf(FoundIn(request.module, request.type), request.type)
  <1>. DEFINE n == request.module
              t == request.type
  <1>1. /\ phase = 2 /\ request.reader \in Readers
        /\ \E i \in DOMAIN TypesOf[request.reader] :
              TypesOf[request.reader][i] = [module |-> n, type |-> t]
    BY DEF SetupOk
  <1>2. CASE t \in DOMAIN found
    BY <1>1, <1>2 DEF FoundIn, CachedType, SetupOk
  <1>3. CASE t \notin DOMAIN found
    <2>1. /\ modules[n].image # None /\ t \in modules[n].image.types
          /\ FoundIn(n, t) = modules[n].image
      BY <1>3 DEF FoundIn, CachedType, LookedUp
    <2>2. IsLibrary(n)
      <3>. HIDE DEF n, t
      <3>. QED
        BY <1>1 DEF IsLibrary
    <2>3. modules[n].image \in Modules(command[file]) /\ modules[n].image.name = n
      BY <2>1, <2>2 DEF ModulesOk
    <2>. HIDE DEF n, t
    <2>4. TypeOf(modules[n].image, t)
      BY <1>1, <2>1, <2>3 DEF TypeOf
    <2>. QED
      BY <2>1, <2>4 DEF n, t
  <1>. QED
    BY <1>2, <1>3

LEMMA StartLookupLibrary ==
    ASSUME LibraryInv, StartLookup
    PROVE  LibraryInv'
  <1>1. /\ UNCHANGED <<command, file, phase, walkers, modules, found, loads, request, todo, answer>>
        /\ scan' = IF request.module = 0 THEN ByName
                   ELSE IF request.module \in Names THEN <<request.module>> ELSE <<>>
    BY DEF StartLookup, engine
  <1>2. FilesOk /\ TodoOk /\ ModulesOk /\ SetupOk
    BY DEF LibraryInv
  <1>3. FilesOk' /\ TodoOk' /\ ModulesOk'
    BY <1>1, <1>2, FilesStay, TodoStays, ModulesStay
  <1>4. request.kind = "setup" => request.module # 0
    BY <1>2, ReadersAssumption DEF SetupOk
  <1>5. SetupOk'
    BY <1>1, <1>2, <1>4 DEF SetupOk, Names, Agreeing, TypeOf
  <1>. QED
    BY <1>3, <1>5 DEF LibraryInv

LEMMA LookInLibrary ==
    ASSUME LibraryInv, LookIn
    PROVE  LibraryInv'
  <1>. DEFINE result == FoundIn(Head(scan), request.type)
  <1>1. /\ UNCHANGED <<command, file, phase, walkers, modules, loads, request, todo>>
        /\ scan # None /\ scan # <<>> /\ answer = None /\ answer' = result
        /\ found' = Kept(found, request.type, result)
        /\ scan' = (IF result = None THEN Tail(scan) ELSE <<>>)
        /\ request.kind \in {"type", "setup"}
    BY DEF LookIn, ReadyToLook
  <1>2. FilesOk /\ TodoOk /\ ModulesOk /\ SetupOk
    BY DEF LibraryInv
  <1>3. FilesOk' /\ TodoOk' /\ ModulesOk'
    BY <1>1, <1>2, FilesStay, TodoStays, ModulesStay
  <1>4. CASE request.kind = "type"
    <2>1. phase = 3 /\ phase' = 3 /\ request' = request
      BY <1>1, <1>2, <1>4 DEF SetupOk
    <2>2. SetupOk'
      BY <1>2, <1>4, <2>1 DEF SetupOk
    <2>. QED
      BY <1>3, <2>2 DEF LibraryInv
  <1>5. CASE request.kind = "setup"
    <2>1. scan = <<request.module>> /\ request.module \in Names
      BY <1>1, <1>2, <1>5 DEF SetupOk
    <2>2. Head(scan) = request.module /\ Tail(scan) = <<>>
      BY <2>1
    <2>3. Agreeing /\ result # None => TypeOf(result, request.type)
      BY <1>2, <1>5, <2>1, <2>2, FoundForReader
    <2>. HIDE DEF result
    <2>4. scan' = <<>>
      BY <1>1, <2>2
    <2>5. \A t \in DOMAIN found' : \/ t \in DOMAIN found /\ found'[t] = found[t]
                                   \/ t = request.type /\ found'[t] = result
      BY <1>1 DEF Kept, With
    <2>6. Agreeing' = Agreeing /\ \A image, t : TypeOf(image, t)' = TypeOf(image, t)
      BY <1>1 DEF Agreeing, TypeOf
    <2>7. /\ Agreeing' /\ answer' # None => TypeOf(answer', request.type)
          /\ phase' # 3 /\ Agreeing' => \A t \in DOMAIN found' : found'[t] # None => TypeOf(found'[t], t)
      BY <1>1, <1>2, <2>3, <2>5, <2>6 DEF SetupOk
    <2>8. SetupOk'
      BY <1>1, <1>2, <1>5, <2>4, <2>7 DEF SetupOk, Names, Agreeing, TypeOf
    <2>. QED
      BY <1>3, <2>8 DEF LibraryInv
  <1>. QED
    BY <1>1, <1>4, <1>5

(* The answer changes nothing of which dump a walker is.                   *)
LEMMA RememberedDump ==
    ASSUME WalkersInv, request.kind # "none", Remembered
    PROVE  DOMAIN walkers' = DOMAIN walkers /\ \A i \in DOMAIN walkers : walkers'[i].of = walkers[i].of
  <1>. DEFINE w == request.walker
              new == [walkers[w] EXCEPT !.types =
                         With(@, [module |-> request.module, type |-> request.type], answer)]
  <1>1. w \in DOMAIN walkers /\ IsVector(walkers) /\ DOMAIN walkers[w] = {"of", "types"}
    BY DEF WalkersInv, WalkersOk, RequestOk
  <1>2. walkers' = [walkers EXCEPT ![w] = new]
    BY DEF Remembered
  <1>3. new.of = walkers[w].of
    BY <1>1
  <1>. HIDE DEF new, w
  <1>4. /\ DOMAIN walkers' = DOMAIN walkers
        /\ \A j \in DOMAIN walkers : walkers'[j] = IF j = w THEN new ELSE walkers[j]
    BY <1>1, <1>2, VectorChanged
  <1>. QED
    BY <1>3, <1>4

LEMMA AnsweredLibrary ==
    ASSUME LibraryInv, WalkersInv, Answered \/ NextType \/ EndSetup
    PROVE  LibraryInv'
  <1>1. /\ UNCHANGED <<command, file, phase, modules, found, loads>>
        /\ Remembered /\ request.kind \in {"type", "setup"} /\ todo = {}
    BY DEF Answered, NextType, EndSetup, engine, Looked, ReadyToLook
  <1>2. FilesOk /\ TodoOk /\ ModulesOk /\ SetupOk
    BY DEF LibraryInv
  <1>3. /\ DOMAIN walkers' = DOMAIN walkers /\ \A i \in DOMAIN walkers : walkers'[i].of = walkers[i].of
        /\ request.walker \in DOMAIN walkers /\ file # 0
    BY <1>1, <1>2, RememberedDump DEF WalkersInv, RequestOk, FilesOk
  <1>4. FilesOk' /\ ModulesOk'
    BY <1>1, <1>2, <1>3, ModulesStay DEF FilesOk
  <1>5. CASE Answered \/ EndSetup
    <2>1. request' = NothingAsked /\ todo' = todo
      BY <1>5 DEF Answered, EndSetup
    <2>2. request'.kind = "none" /\ DOMAIN request' = {"kind", "walker", "module", "type", "throw", "reader"}
      BY <2>1 DEF NothingAsked, Request
    <2>3. TodoOk'
      BY <1>1, <1>2, <2>1, <2>2 DEF TodoOk
    <2>4. SetupOk'
      BY <1>1, <1>2, <2>2 DEF SetupOk, Agreeing, TypeOf
    <2>. QED
      BY <1>4, <2>3, <2>4 DEF LibraryInv
  <1>6. CASE NextType
    <2>. DEFINE types == TypesOf[request.reader]
                next == types[Place + 1]
    <2>1. /\ request.kind = "setup" /\ Place < Len(types)
          /\ request' = [request EXCEPT !.module = next.module, !.type = next.type]
          /\ todo' = Named(request.walker, next.module)
          /\ scan' = None /\ answer' = None
      BY <1>6 DEF NextType
    <2>2. /\ phase = 2 /\ request.reader \in Readers
          /\ DOMAIN request = {"kind", "walker", "module", "type", "throw", "reader"}
          /\ \E i \in DOMAIN types : types[i] = [module |-> request.module, type |-> request.type]
      BY <1>2, <2>1 DEF SetupOk
    <2>3. Place \in DOMAIN types
      BY <2>2 DEF Place
    <2>4. Len(types) \in Nat /\ DOMAIN types = 1..Len(types)
      BY <2>2, ReadersAssumption
    <2>5. Place + 1 \in DOMAIN types
      <3>. HIDE DEF types
      <3>. QED
        BY <2>1, <2>3, <2>4
    <2>6. types[Place + 1] = [module |-> next.module, type |-> next.type]
      BY <2>2, <2>5, ReadersAssumption
    <2>. HIDE DEF next
    <2>7. /\ request'.module = next.module /\ request'.type = next.type
          /\ request'.kind = "setup" /\ request'.reader = request.reader /\ request'.walker = request.walker
          /\ DOMAIN request' = {"kind", "walker", "module", "type", "throw", "reader"}
      BY <2>1, <2>2
    <2>8. TodoOk'
      <3>1. Named(request.walker, next.module) \subseteq DOMAIN DumpOf(request.walker)
        BY DEF Named, FirstOf
      <3>2. DumpOf(request.walker) = command'[file'][walkers'[request'.walker].of]
        BY <1>1, <1>3, <2>7 DEF DumpOf
      <3>3. todo' \subseteq DOMAIN DumpOf(request.walker)'
        BY <2>1, <2>7, <3>1, <3>2 DEF DumpOf
      <3>. QED
        BY <1>1, <1>2, <2>7, <3>3 DEF TodoOk
    <2>9. SetupOk'
      <3>1. \E i \in DOMAIN TypesOf[request'.reader] :
               TypesOf[request'.reader][i] = [module |-> request'.module, type |-> request'.type]
        BY <2>5, <2>6, <2>7
      <3>. HIDE DEF types
      <3>. QED
        BY <1>1, <1>2, <2>1, <2>2, <2>7, <3>1 DEF SetupOk, Agreeing, TypeOf
    <2>. QED
      BY <1>4, <2>8, <2>9 DEF LibraryInv
  <1>. QED
    BY <1>5, <1>6

(* A request that asked for no type is done.                               *)
LEMMA ShownLibrary ==
    ASSUME LibraryInv, request.kind # "none", todo = {}, request' = NothingAsked,
           UNCHANGED <<command, file, phase, walkers, modules, found, loads, todo>>
    PROVE  LibraryInv'
  <1>1. request'.kind = "none" /\ DOMAIN request' = {"kind", "walker", "module", "type", "throw", "reader"}
    BY DEF NothingAsked, Request
  <1>2. FilesOk /\ TodoOk /\ ModulesOk /\ SetupOk
    BY DEF LibraryInv
  <1>3. FilesOk' /\ ModulesOk'
    BY <1>2, FilesStay, ModulesStay DEF FilesOk
  <1>4. TodoOk'
    BY <1>1, <1>2 DEF TodoOk
  <1>5. SetupOk'
    BY <1>1, <1>2 DEF SetupOk, Agreeing, TypeOf
  <1>. QED
    BY <1>3, <1>4, <1>5 DEF LibraryInv

LEMMA LibraryInductive == LibraryInv /\ WalkersInv /\ OneLoad /\ [Next]_vars => LibraryInv'
  <1>. SUFFICES ASSUME LibraryInv, WalkersInv, OneLoad, [Next]_vars
                PROVE  LibraryInv'
    OBVIOUS
  <1>1. ASSUME UNCHANGED <<command, file, phase, walkers, modules, found, loads, request, todo, scan, answer>>
        PROVE  LibraryInv'
    <2>1. FilesOk /\ TodoOk /\ ModulesOk /\ SetupOk
      BY DEF LibraryInv
    <2>. QED
      BY <1>1, <2>1, FilesStay, TodoStays, ModulesStay, SetupStays DEF LibraryInv
  <1>2. CASE EndFile \/ LoadThrows \/ TypeIsMissing \/ \E f \in DOMAIN Frames : RegisterIsUnknown(f)
    BY <1>2, NextFileLibrary DEF EndFile, LoadThrows, TypeIsMissing, RegisterIsUnknown
  <1>3. CASE UNCHANGED vars \/ Ended
    BY <1>3, <1>1 DEF vars, engine, asked, Ended
  <1>4. CASE XmlLog
    BY <1>4, <1>1 DEF XmlLog, asked
  <1>5. CASE (\E of \in {"main", "base"} : OpenWalker(of)) \/ CloseWalker \/ NextPhase
    BY <1>5, CommandLibrary
  <1>6. CASE AlreadyLoaded \/ LoadModule \/ DbgHelpReads
    BY <1>6, LoadLibrary
  <1>7. CASE WayOpens \/ NoWayOpens \/ WayFails
    BY <1>7, DoneLibrary
  <1>8. CASE StartLookup \/ LookIn
    BY <1>8, StartLookupLibrary, LookInLibrary
  <1>9. CASE Answered \/ NextType \/ EndSetup
    BY <1>9, AnsweredLibrary
  <1>10. CASE SymbolsShown
    BY <1>10, ShownLibrary DEF SymbolsShown, engine
  <1>11. CASE \E f \in DOMAIN Frames : FrameWalked(f)
    BY <1>11, ShownLibrary DEF FrameWalked, AtFrame, engine
  <1>12. ASSUME NEW w \in DOMAIN walkers,
                \/ \E t \in UserTypes : AskType(w, t) \/ AskSymbols(w, t.module)
                \/ \E r \in Readers : SetupGlobals(w, r)
                \/ \E i \in DOMAIN DumpOf(w) : WalkFrame(w, i)
         PROVE  LibraryInv'
    BY <1>12, AskLibrary
  <1>. QED
    BY <1>2, <1>3, <1>4, <1>5, <1>6, <1>7, <1>8, <1>9, <1>10, <1>11, <1>12 DEF Next

LEMMA LibraryInvariant == Spec => [](LibraryInv /\ WalkersInv)
BY InitLibrary, InitWalkersInv, InitOneLoad, StepWalkersInv, StepOneLoad, LibraryInductive, PTL DEF Spec

(* A reader's type is one of the module it named in the version of the     *)
(* dump it reads, for all dumps of one process and orders of the requests: *)
(* the engine keeps modules and types by name alone, but no one asks for   *)
(* another module's type of that name before the readers are done.         *)
THEOREM LibraryTypesStayRight == Spec => []LibraryTypesRight
  <1>1. LibraryInv /\ WalkersInv => LibraryTypesRight
    <2>. SUFFICES ASSUME FilesOk, ModulesOk, SetupOk, RequestOk,
                         request.kind = "setup", answer # None,
                         Agree(command[file].main, command[file].base)
                  PROVE  /\ answer.name = request.module
                         /\ request.type \in answer.types
                         /\ \E m \in ToSet(DumpOf(request.walker)) :
                               m.name = answer.name /\ m.version = answer.version
      BY DEF LibraryInv, WalkersInv, LibraryTypesRight
    <2>1. Agreeing /\ request.walker \in DOMAIN walkers /\ file # 0
      BY DEF Agreeing, FilesOk, RequestOk
    <2>2. PICK r \in Readers : \E i \in DOMAIN TypesOf[r] :
             TypesOf[r][i] = [module |-> answer.name, type |-> request.type]
      BY <2>1 DEF SetupOk, TypeOf
    <2>3. request.reader \in Readers /\ \E i \in DOMAIN TypesOf[request.reader] :
             TypesOf[request.reader][i] = [module |-> request.module, type |-> request.type]
      BY DEF SetupOk
    <2>4. answer.name = request.module
      <3>1. PICK i \in DOMAIN TypesOf[r] : TypesOf[r][i] = [module |-> answer.name, type |-> request.type]
        BY <2>2
      <3>2. PICK j \in DOMAIN TypesOf[request.reader] :
               TypesOf[request.reader][j] = [module |-> request.module, type |-> request.type]
        BY <2>3
      <3>3. TypesOf[r][i].type = TypesOf[request.reader][j].type
        BY <3>1, <3>2
      <3>4. TypesOf[r][i].module = TypesOf[request.reader][j].module
        BY <2>3, <3>3, ReadersAssumption
      <3>. QED
        BY <3>1, <3>2, <3>4
    <2>5. request.type \in answer.types /\ answer \in Modules(command[file])
      BY <2>1 DEF SetupOk, TypeOf
    <2>6. \E m \in ToSet(DumpOf(request.walker)) : m.name = answer.name
      <3>. DEFINE dump == DumpOf(request.walker)
      <3>1. dump # <<>> /\ IsProcess(dump)
        <4>1. command \in Commands /\ file \in DOMAIN command
          BY <2>1 DEF FilesOk
        <4>2. /\ command[file].main # <<>> /\ IsProcess(command[file].main)
              /\ IsProcess(command[file].base)
          BY <4>1, CommandsAssumption
        <4>3. \/ walkers[request.walker].of = "main"
              \/ walkers[request.walker].of = "base" /\ command[file].base # <<>>
          BY <2>1 DEF FilesOk
        <4>. QED
          BY <4>2, <4>3 DEF DumpOf
      <3>. HIDE DEF dump
      <3>. QED
        BY <2>2, <3>1 DEF IsProcess, dump
    <2>7. PICK m \in ToSet(DumpOf(request.walker)) : m.name = answer.name
      BY <2>6
    <2>8. m \in Modules(command[file])
      BY <2>1, ModulesOfDump
    <2>9. m.version = answer.version
      BY <2>1, <2>5, <2>7, <2>8, OneModule
    <2>. QED
      BY <2>4, <2>5, <2>7, <2>9
  <1>. QED
    BY <1>1, LibraryInvariant, PTL

(* The bytes that stand in for the memory of a module are those of a file  *)
(* with the checksum of the image, whichever dump the module was loaded    *)
(* for and whatever else lies on the search path.                          *)
THEOREM ImagesStayMatched == Spec => []ImagesMatch
  <1>1. LibraryInv => ImagesMatch
    <2>. SUFFICES ASSUME FilesOk, ModulesOk, file # 0, Agree(command[file].main, command[file].base),
                         NEW m \in ToSet(command[file].main) \union ToSet(command[file].base),
                         m.name \in Names, m.sum # 0, modules[m.name].file # None
                  PROVE  modules[m.name].file.valid /\ modules[m.name].file.sum = m.sum
      BY DEF LibraryInv, ImagesMatch
    <2>1. Agreeing /\ m \in Modules(command[file])
      BY DEF Agreeing, Modules
    <2>2. /\ modules[m.name].module \in Modules(command[file])
          /\ modules[m.name].module.name = m.name
          /\ FileOk(modules[m.name].module, modules[m.name].file)
      BY DEF ModulesOk
    <2>3. modules[m.name].module.sum = m.sum
      BY <2>1, <2>2, OneModule
    <2>. QED
      BY <2>2, <2>3 DEF FileOk
  <1>. QED
    BY <1>1, LibraryInvariant, PTL

-------------------------------------------------------------------------------
(* The greatest of some places is one of them.                             *)
LEMMA GreatestPlace ==
    ASSUME NEW n \in Nat, NEW S \in SUBSET (1..n), S # {}
    PROVE  Max(S) \in S /\ \A y \in S : y <= Max(S)
  <1>. DEFINE bounds == {m \in Nat : \A x \in S : x <= m}
  <1>1. IsWellFoundedOn(OpToRel(<, Nat), Nat)
    BY NatLessThanWellFounded
  <1>2. bounds \subseteq Nat /\ n \in bounds
    OBVIOUS
  <1>3. PICK m \in bounds : \A k \in bounds : ~(<<k, m>> \in OpToRel(<, Nat))
    BY <1>1, <1>2, WFMin
  <1>4. m \in Nat /\ m # 0
    <2>1. PICK x \in S : TRUE
      OBVIOUS
    <2>2. x \in Nat /\ x >= 1 /\ x <= m
      OBVIOUS
    <2>. QED
      BY <2>2
  <1>5. m - 1 \notin bounds
    <2>1. m - 1 \in Nat /\ m - 1 < m
      BY <1>4
    <2>2. <<m - 1, m>> \in OpToRel(<, Nat)
      BY <1>4, <2>1 DEF OpToRel
    <2>. HIDE DEF bounds
    <2>. QED
      BY <1>3, <2>2
  <1>6. m \in S
    <2>1. PICK x \in S : ~(x <= m - 1)
      BY <1>4, <1>5
    <2>. QED
      BY <1>4, <2>1
  <1>7. \A y \in S : m >= y
    BY <1>4
  <1>8. \A x \in S : (\A y \in S : x >= y) => x = m
    BY <1>6, <1>7
  <1>. QED
    BY <1>6, <1>7, <1>8 DEF Max

(***************************************************************************)
(* The variables of a frame as FoldLeft gathers them: g[S] are those of    *)
(* the symbols at the places S.                                            *)
(***************************************************************************)
NoneYet(f) == [NoFrame EXCEPT !.of = f]

AfterSymbol(f, vs, k) == Variable(Frames[f], vs, Frames[f].symbols[k])

Gathers(g, f) ==
    g = [S \in SUBSET DOMAIN Frames[f].symbols |->
            IF S = {} THEN NoneYet(f) ELSE AfterSymbol(f, g[S \ {Max(S)}], Max(S))]

(* Places are taken from a set one at a time, the greatest first.          *)
LEMMA PlacesTaken ==
    ASSUME NEW f \in DOMAIN Frames, NEW S \in SUBSET DOMAIN Frames[f].symbols
    PROVE  /\ IsFiniteSet(S) /\ Cardinality(S) \in Nat
           /\ Cardinality(S) <= Cardinality(DOMAIN Frames[f].symbols)
           /\ Cardinality(S) = 0 <=> S = {}
           /\ S # {} => /\ S \ {Max(S)} \in SUBSET DOMAIN Frames[f].symbols
                        /\ Cardinality(S \ {Max(S)}) = Cardinality(S) - 1
  <1>. DEFINE n == Len(Frames[f].symbols)
  <1>1. n \in Nat /\ DOMAIN Frames[f].symbols = 1..n
    BY FramesAssumption
  <1>2. IsFiniteSet(1..n)
    BY <1>1, FS_Interval
  <1>. HIDE DEF n
  <1>3. IsFiniteSet(S) /\ Cardinality(S) \in Nat /\ Cardinality(S) <= Cardinality(1..n)
    BY <1>1, <1>2, FS_Subset, FS_CardinalityType
  <1>4. Cardinality(S) = 0 <=> S = {}
    BY <1>3, FS_EmptySet
  <1>5. S # {} => Max(S) \in S
    BY <1>1, GreatestPlace
  <1>6. S # {} => Cardinality(S \ {Max(S)}) = Cardinality(S) - 1
    BY <1>3, <1>5, FS_RemoveElement
  <1>. QED
    BY <1>1, <1>3, <1>4, <1>6

(* There is a function that does so: were there none for the sets of at    *)
(* most n places, with the least such n, the one for fewer would extend.   *)
LEMMA GathersExist ==
    ASSUME NEW f \in DOMAIN Frames
    PROVE  \E g : Gathers(g, f)
  <1>. DEFINE places == DOMAIN Frames[f].symbols
              upto(n) == {S \in SUBSET places : Cardinality(S) <= n}
              body(g, S) == IF S = {} THEN NoneYet(f) ELSE AfterSymbol(f, g[S \ {Max(S)}], Max(S))
              good(n) == \E g : g = [S \in upto(n) |-> body(g, S)]
              bad == {n \in Nat : ~good(n)}
  <1>1. \A S \in SUBSET places : /\ Cardinality(S) \in Nat /\ Cardinality(S) <= Cardinality(places)
                                 /\ Cardinality(S) = 0 <=> S = {}
    BY PlacesTaken
  <1>2. \A S \in SUBSET places : S # {} => /\ S \ {Max(S)} \in SUBSET places
                                           /\ Cardinality(S \ {Max(S)}) = Cardinality(S) - 1
    BY PlacesTaken
  <1>. HIDE DEF places
  <1>3. good(0)
    <2>. DEFINE g == [S \in upto(0) |-> NoneYet(f)]
    <2>1. \A S \in upto(0) : S = {}
      BY <1>1
    <2>2. g = [S \in upto(0) |-> body(g, S)]
      BY <2>1
    <2>. QED
      BY <2>2
  <1>4. ASSUME NEW n \in Nat, good(n)
        PROVE  good(n + 1)
    <2>1. PICK g : g = [S \in upto(n) |-> body(g, S)]
      BY <1>4
    <2>. DEFINE h == [S \in upto(n + 1) |-> body(g, S)]
    <2>2. ASSUME NEW S \in upto(n + 1), S # {}
          PROVE  h[S \ {Max(S)}] = g[S \ {Max(S)}]
      <3>1. S \ {Max(S)} \in upto(n) /\ S \ {Max(S)} \in upto(n + 1)
        BY <1>1, <1>2, <2>2
      <3>. HIDE DEF upto, body
      <3>. QED
        BY <2>1, <3>1
    <2>3. h = [S \in upto(n + 1) |-> body(h, S)]
      <3>. HIDE DEF upto
      <3>1. \A S \in upto(n + 1) : body(g, S) = body(h, S)
        <4>. HIDE DEF h
        <4>. QED
          BY <2>2
      <3>. HIDE DEF body
      <3>. QED
        BY <3>1
    <2>. QED
      BY <2>3
  <1>. HIDE DEF good
  <1>5. bad = {}
    <2>. SUFFICES ASSUME bad # {} PROVE FALSE
      OBVIOUS
    <2>1. IsWellFoundedOn(OpToRel(<, Nat), Nat)
      BY NatLessThanWellFounded
    <2>2. bad \subseteq Nat
      OBVIOUS
    <2>3. PICK n \in bad : \A m \in bad : ~(<<m, n>> \in OpToRel(<, Nat))
      BY <2>1, <2>2, WFMin
    <2>4. n \in Nat /\ n # 0 /\ ~good(n)
      BY <1>3
    <2>5. n - 1 \in Nat /\ n - 1 < n
      BY <2>4
    <2>6. n - 1 \notin bad
      BY <2>3, <2>4, <2>5 DEF OpToRel
    <2>7. good(n - 1 + 1)
      BY <1>4, <2>5, <2>6
    <2>8. n - 1 + 1 = n
      BY <2>4
    <2>. QED
      BY <2>4, <2>7, <2>8
  <1>6. good(Cardinality(places))
    BY <1>1, <1>5
  <1>7. upto(Cardinality(places)) = SUBSET places
    BY <1>1
  <1>. HIDE DEF upto
  <1>. QED
    BY <1>6, <1>7 DEF good, Gathers, places

(* Variables is what such a function has for all the symbols.              *)
LEMMA VariablesAreGathered ==
    ASSUME NEW f \in DOMAIN Frames
    PROVE  \E g : Gathers(g, f) /\ Variables(f) = g[DOMAIN Frames[f].symbols]
  <1>. DEFINE body(g) == [S \in SUBSET DOMAIN Frames[f].symbols |->
                            IF S = {} THEN [NoFrame EXCEPT !.of = f]
                            ELSE Variable(Frames[f], g[S \ {Max(S)}], Frames[f].symbols[Max(S)])]
  <1>1. Variables(f) = (CHOOSE g : g = body(g))[DOMAIN Frames[f].symbols]
    BY DEF Variables, FoldLeft, MapThenFoldSet
  <1>2. \A g : Gathers(g, f) <=> g = body(g)
    BY DEF Gathers, NoneYet, AfterSymbol
  <1>3. \E g : g = body(g)
    BY <1>2, GathersExist
  <1>. HIDE DEF body
  <1>4. (CHOOSE g : g = body(g)) = body(CHOOSE g : g = body(g))
    BY <1>3
  <1>. QED
    BY <1>1, <1>2, <1>4

-------------------------------------------------------------------------------
(* A list shows some symbols: each of their places once, every element one *)
(* of them, in a register the code knows.                                  *)
ShownAs(f, s) == [index |-> s.index, at |-> ValueAt(Frames[f], s)]

ListOk(f, list, S) ==
    /\ IsVector(list)
    /\ S \subseteq ToSet(Frames[f].symbols)
    /\ ShownOnce(list, S)
    /\ \A v \in ToSet(list) : \E s \in S :
          v = ShownAs(f, s) /\ (InRegister(s) => IsKnown(Frames[f].type, s.register))

(* A symbol is found already where its place is shown.                     *)
LEMMA ShownAtPlace ==
    ASSUME NEW f, NEW s
    PROVE  PlaceOf(ShownAs(f, s).index, ShownAs(f, s).at) = SymbolPlace(s)
  BY DEF PlaceOf, ShownAs, SymbolPlace, ValueAt

LEMMA FoundAtPlace ==
    ASSUME NEW f \in DOMAIN Frames, NEW list, NEW S, ListOk(f, list, S),
           NEW s \in ToSet(Frames[f].symbols)
    PROVE  AlreadyFound(list, s) <=> \E v \in ToSet(list) : PlaceOf(v.index, v.at) = SymbolPlace(s)
  <1>1. ASSUME NEW t \in ToSet(Frames[f].symbols)
        PROVE  (/\ ShownAs(f, t).index = s.index
                /\ InRegister(s) => ShownAs(f, t).at.register = s.register
                /\ AtOffset(s) => ShownAs(f, t).at.offset = s.offset)
               <=> SymbolPlace(t) = SymbolPlace(s)
    <2>1. s.index = t.index => s.kind = t.kind
      BY FramesAssumption
    <2>2. /\ ShownAs(f, t).index = t.index
          /\ ShownAs(f, t).at.register = IF InRegister(t) THEN t.register ELSE None
          /\ ShownAs(f, t).at.offset = IF AtOffset(t) THEN t.offset ELSE None
      BY DEF ShownAs, ValueAt
    <2>3. s.kind = t.kind => (InRegister(s) <=> InRegister(t)) /\ (AtOffset(s) <=> AtOffset(t))
      BY DEF InRegister, AtOffset
    <2>. HIDE DEF ShownAs
    <2>. QED
      BY <2>1, <2>2, <2>3 DEF SymbolPlace
  <1>2. \A v \in ToSet(list) : \E t \in ToSet(Frames[f].symbols) : v = ShownAs(f, t)
    BY DEF ListOk
  <1>3. ASSUME NEW v \in ToSet(list)
        PROVE  (/\ v.index = s.index
                /\ InRegister(s) => v.at.register = s.register
                /\ AtOffset(s) => v.at.offset = s.offset)
               <=> PlaceOf(v.index, v.at) = SymbolPlace(s)
    <2>1. PICK t \in ToSet(Frames[f].symbols) : v = ShownAs(f, t)
      BY <1>2
    <2>2. PlaceOf(v.index, v.at) = SymbolPlace(t)
      BY <2>1, ShownAtPlace
    <2>. QED
      BY <1>1, <2>1, <2>2
  <1>. QED
    BY <1>3 DEF AlreadyFound

(* Such a symbol adds nothing to a list; any other is appended to it.      *)
LEMMA FoundBefore ==
    ASSUME NEW f \in DOMAIN Frames, NEW list, NEW S, ListOk(f, list, S),
           NEW s \in ToSet(Frames[f].symbols), AlreadyFound(list, s)
    PROVE  ListOk(f, list, S \union {s})
  <1>1. PICK v \in ToSet(list) : PlaceOf(v.index, v.at) = SymbolPlace(s)
    BY FoundAtPlace
  <1>2. {SymbolPlace(t) : t \in S \union {s}} = {SymbolPlace(t) : t \in S} \union {SymbolPlace(s)}
    OBVIOUS
  <1>3. {PlaceOf(u.index, u.at) : u \in ToSet(list)} = {SymbolPlace(t) : t \in S}
    BY DEF ListOk, ShownOnce
  <1>4. SymbolPlace(s) \in {SymbolPlace(t) : t \in S}
    BY <1>1, <1>3
  <1>5. ShownOnce(list, S \union {s})
    BY <1>2, <1>3, <1>4 DEF ListOk, ShownOnce
  <1>. QED
    BY <1>5 DEF ListOk

LEMMA FoundNow ==
    ASSUME NEW f \in DOMAIN Frames, NEW list, NEW S, ListOk(f, list, S),
           NEW s \in ToSet(Frames[f].symbols), ~AlreadyFound(list, s),
           InRegister(s) => IsKnown(Frames[f].type, s.register)
    PROVE  ListOk(f, Append(list, ShownAs(f, s)), S \union {s})
  <1>. DEFINE e == ShownAs(f, s)
              longer == Append(list, e)
              place(v) == PlaceOf(v.index, v.at)
  <1>1. /\ IsVector(longer)
        /\ Len(list) \in Nat /\ DOMAIN list = 1..Len(list)
        /\ DOMAIN longer = 1..(Len(list) + 1)
        /\ \A i \in 1..(Len(list) + 1) : longer[i] = IF i = Len(list) + 1 THEN e ELSE list[i]
    BY VectorAppended DEF ListOk
  <1>2. place(e) = SymbolPlace(s)
    BY ShownAtPlace
  <1>3. \A v \in ToSet(list) : place(v) # SymbolPlace(s)
    BY FoundAtPlace
  <1>. HIDE DEF longer, e
  <1>4. ToSet(longer) = ToSet(list) \union {e}
    <2>1. \A i \in 1..(Len(list) + 1) : i = Len(list) + 1 \/ i \in 1..Len(list)
      BY <1>1
    <2>2. Len(list) + 1 \in 1..(Len(list) + 1) /\ 1..Len(list) \subseteq 1..(Len(list) + 1)
      BY <1>1
    <2>3. \A i \in 1..Len(list) : i # Len(list) + 1
      BY <1>1
    <2>. QED
      BY <1>1, <2>1, <2>2, <2>3 DEF ToSet
  <1>5. \A i, j \in DOMAIN longer : i # j => place(longer[i]) # place(longer[j])
    <2>. SUFFICES ASSUME NEW i \in DOMAIN longer, NEW j \in DOMAIN longer, i # j
                  PROVE  place(longer[i]) # place(longer[j])
      OBVIOUS
    <2>. HIDE DEF place
    <2>1. \A k \in DOMAIN longer : \/ k = Len(list) + 1 /\ longer[k] = e
                                   \/ k \in DOMAIN list /\ longer[k] = list[k] /\ list[k] \in ToSet(list)
      BY <1>1 DEF ToSet
    <2>2. \A k, l \in DOMAIN list : k # l => place(list[k]) # place(list[l])
      BY DEF ListOk, ShownOnce, place
    <2>. QED
      BY <1>2, <1>3, <2>1, <2>2
  <1>6. {place(v) : v \in ToSet(longer)} = {SymbolPlace(t) : t \in S \union {s}}
    <2>1. {place(v) : v \in ToSet(list)} = {SymbolPlace(t) : t \in S}
      BY DEF ListOk, ShownOnce
    <2>. HIDE DEF place
    <2>2. {place(v) : v \in ToSet(longer)} = {place(v) : v \in ToSet(list)} \union {place(e)}
      BY <1>4
    <2>3. {SymbolPlace(t) : t \in S \union {s}} = {SymbolPlace(t) : t \in S} \union {SymbolPlace(s)}
      OBVIOUS
    <2>. QED
      BY <1>2, <2>1, <2>2, <2>3
  <1>7. ShownOnce(longer, S \union {s})
    BY <1>5, <1>6 DEF ShownOnce
  <1>8. \A v \in ToSet(longer) : \E t \in S \union {s} :
           v = ShownAs(f, t) /\ (InRegister(t) => IsKnown(Frames[f].type, t.register))
    <2>1. \A v \in ToSet(list) : \E t \in S :
             v = ShownAs(f, t) /\ (InRegister(t) => IsKnown(Frames[f].type, t.register))
      BY DEF ListOk
    <2>2. e = ShownAs(f, s)
      BY DEF e
    <2>. QED
      BY <1>4, <2>1, <2>2
  <1>9. S \union {s} \subseteq ToSet(Frames[f].symbols)
    BY DEF ListOk
  <1>10. ListOk(f, longer, S \union {s})
    BY <1>1, <1>7, <1>8, <1>9 DEF ListOk
  <1>. QED
    BY <1>10 DEF longer, e

(***************************************************************************)
(* The variables after the symbols at the first n places: both lists show  *)
(* the symbols among these that belong to them.                            *)
(***************************************************************************)
Given(f, n, list) ==
    {s \in {Frames[f].symbols[k] : k \in 1..n} : Wanted(s) /\ (s.parameter <=> list = "parameters")}

VariablesOk(f, vs, n) ==
    vs # None =>
        /\ vs = [of |-> f, locals |-> vs.locals, parameters |-> vs.parameters]
        /\ \A list \in {"locals", "parameters"} : ListOk(f, vs[list], Given(f, n, list))

LEMMA NoneYetOk == ASSUME NEW f \in DOMAIN Frames PROVE VariablesOk(f, NoneYet(f), 0)
  <1>1. NoneYet(f) = [of |-> f, locals |-> <<>>, parameters |-> <<>>]
    BY DEF NoneYet, NoFrame
  <1>2. \A list : Given(f, 0, list) = {}
    BY DEF Given
  <1>3. ListOk(f, <<>>, {})
    BY EmptyVector DEF ListOk, ShownOnce, ToSet
  <1>4. \A list \in {"locals", "parameters"} : NoneYet(f)[list] = <<>>
    BY <1>1
  <1>5. NoneYet(f) = [of |-> f, locals |-> NoneYet(f).locals, parameters |-> NoneYet(f).parameters]
    BY <1>1
  <1>. QED
    BY <1>2, <1>3, <1>4, <1>5 DEF VariablesOk

LEMMA SymbolOk ==
    ASSUME NEW f \in DOMAIN Frames, NEW n \in Nat, n + 1 \in DOMAIN Frames[f].symbols,
           NEW vs, VariablesOk(f, vs, n)
    PROVE  VariablesOk(f, AfterSymbol(f, vs, n + 1), n + 1)
  <1>. DEFINE s == Frames[f].symbols[n + 1]
              mine == IF s.parameter THEN "parameters" ELSE "locals"
              after == AfterSymbol(f, vs, n + 1)
  <1>1. s \in ToSet(Frames[f].symbols)
    BY DEF ToSet
  <1>2. s.parameter \in BOOLEAN
    BY <1>1, FramesAssumption
  <1>3. 1..(n + 1) = 1..n \union {n + 1}
    OBVIOUS
  <1>4. \A list \in {"locals", "parameters"} :
           Given(f, n + 1, list) = IF Wanted(s) /\ list = mine THEN Given(f, n, list) \union {s} ELSE Given(f, n, list)
    <2>. SUFFICES ASSUME NEW list \in {"locals", "parameters"}
                  PROVE  Given(f, n + 1, list) = IF Wanted(s) /\ list = mine THEN Given(f, n, list) \union {s}
                                                 ELSE Given(f, n, list)
      OBVIOUS
    <2>1. (s.parameter <=> list = "parameters") <=> list = mine
      BY <1>2
    <2>2. {Frames[f].symbols[k] : k \in 1..(n + 1)} = {Frames[f].symbols[k] : k \in 1..n} \union {s}
      BY <1>3
    <2>. HIDE DEF s, mine
    <2>. QED
      BY <2>1, <2>2 DEF Given
  <1>5. after = IF vs = None \/ ~Wanted(s) THEN vs
                ELSE IF AlreadyFound(vs[mine], s) THEN vs
                ELSE IF InRegister(s) /\ ~IsKnown(Frames[f].type, s.register) THEN None
                ELSE [vs EXCEPT ![mine] = Append(@, ShownAs(f, s))]
    BY DEF AfterSymbol, Variable, ShownAs
  <1>6. mine \in {"locals", "parameters"}
    OBVIOUS
  <1>. HIDE DEF s, mine, after
  <1>. SUFFICES ASSUME after # None
                PROVE  VariablesOk(f, after, n + 1)
    BY DEF VariablesOk, after
  <1>7. vs # None
    BY <1>5
  <1>8. /\ vs = [of |-> f, locals |-> vs.locals, parameters |-> vs.parameters]
        /\ \A list \in {"locals", "parameters"} : ListOk(f, vs[list], Given(f, n, list))
    BY <1>7 DEF VariablesOk
  <1>9. CASE ~Wanted(s)
    BY <1>4, <1>5, <1>8, <1>9 DEF VariablesOk
  <1>10. CASE Wanted(s) /\ AlreadyFound(vs[mine], s)
    <2>1. ListOk(f, vs[mine], Given(f, n, mine) \union {s})
      BY <1>1, <1>6, <1>8, <1>10, FoundBefore
    <2>2. after = vs
      BY <1>5, <1>10
    <2>. QED
      BY <1>4, <1>8, <1>10, <2>1, <2>2 DEF VariablesOk
  <1>11. CASE Wanted(s) /\ ~AlreadyFound(vs[mine], s)
    <2>1. /\ InRegister(s) => IsKnown(Frames[f].type, s.register)
          /\ after = [vs EXCEPT ![mine] = Append(@, ShownAs(f, s))]
      BY <1>5, <1>7, <1>11
    <2>2. ListOk(f, Append(vs[mine], ShownAs(f, s)), Given(f, n, mine) \union {s})
      BY <1>1, <1>6, <1>8, <1>11, <2>1, FoundNow
    <2>3. /\ after = [of |-> f, locals |-> after.locals, parameters |-> after.parameters]
          /\ after[mine] = Append(vs[mine], ShownAs(f, s))
          /\ \A list \in {"locals", "parameters"} : list # mine => after[list] = vs[list]
      <3>. DEFINE more == Append(vs[mine], ShownAs(f, s))
      <3>1. after = [vs EXCEPT ![mine] = more]
        BY <2>1
      <3>2. PICK ls, ps : vs = [of |-> f, locals |-> ls, parameters |-> ps]
        BY <1>8
      <3>. HIDE DEF more
      <3>5. vs.locals = ls /\ vs.parameters = ps
        BY <3>2
      <3>3. CASE mine = "locals"
        <4>1. after = [of |-> f, locals |-> more, parameters |-> vs.parameters]
          <5>1. after = [[of |-> f, locals |-> ls, parameters |-> ps] EXCEPT !["locals"] = more]
            BY <3>1, <3>2, <3>3, Zenon
          <5>. QED
            BY <3>5, <5>1
        <4>. QED
          BY <3>3, <3>5, <4>1 DEF more
      <3>4. CASE mine = "parameters"
        <4>1. after = [of |-> f, locals |-> vs.locals, parameters |-> more]
          <5>1. after = [[of |-> f, locals |-> ls, parameters |-> ps] EXCEPT !["parameters"] = more]
            BY <3>1, <3>2, <3>4, Zenon
          <5>. QED
            BY <3>5, <5>1
        <4>. QED
          BY <3>4, <3>5, <4>1 DEF more
      <3>. QED
        BY <1>6, <3>3, <3>4
    <2>. QED
      BY <1>4, <1>8, <1>11, <2>2, <2>3 DEF VariablesOk
  <1>. QED
    BY <1>9, <1>10, <1>11

(* So are the variables of any frame once all its symbols have been seen:  *)
(* were they not after the least number of them, they would be before.     *)
LEMMA FrameVariables ==
    ASSUME NEW f \in DOMAIN Frames
    PROVE  VariablesOk(f, Variables(f), Len(Frames[f].symbols))
  <1>. DEFINE last == Len(Frames[f].symbols)
              places == DOMAIN Frames[f].symbols
  <1>1. last \in Nat /\ places = 1..last
    BY FramesAssumption
  <1>2. PICK g : Gathers(g, f) /\ Variables(f) = g[places]
    BY VariablesAreGathered
  <1>. HIDE DEF last
  <1>. DEFINE bad == {n \in 0..last : ~VariablesOk(f, g[1..n], n)}
  <1>3. g[1..0] = NoneYet(f)
    BY <1>1, <1>2 DEF Gathers
  <1>4. ASSUME NEW n \in Nat, n + 1 <= last
        PROVE  g[1..(n + 1)] = AfterSymbol(f, g[1..n], n + 1)
    <2>. DEFINE S == 1..(n + 1)
    <2>1. S \in SUBSET places /\ S # {} /\ n + 1 \in S
      <3>1. \A k \in S : k \in 1..last
        BY <1>1, <1>4
      <3>2. n + 1 \in S
        OBVIOUS
      <3>. HIDE DEF S, places
      <3>. QED
        BY <1>1, <3>1, <3>2
    <2>2. Max(S) = n + 1
      <3>1. Max(S) \in S /\ \A y \in S : y <= Max(S)
        BY <2>1, GreatestPlace, n + 1 \in Nat
      <3>. QED
        BY <2>1, <3>1
    <2>3. S \ {n + 1} = 1..n
      OBVIOUS
    <2>. HIDE DEF S, places
    <2>4. g[S] = AfterSymbol(f, g[S \ {Max(S)}], Max(S))
      BY <1>2, <2>1 DEF Gathers, places
    <2>. QED
      BY <2>2, <2>3, <2>4 DEF S
  <1>5. bad = {}
    <2>. SUFFICES ASSUME bad # {} PROVE FALSE
      OBVIOUS
    <2>1. IsWellFoundedOn(OpToRel(<, Nat), Nat)
      BY NatLessThanWellFounded
    <2>2. bad \subseteq Nat
      OBVIOUS
    <2>3. PICK n \in bad : \A m \in bad : ~(<<m, n>> \in OpToRel(<, Nat))
      BY <2>1, <2>2, WFMin
    <2>4. n \in 0..last /\ ~VariablesOk(f, g[1..n], n)
      OBVIOUS
    <2>5. n # 0
      BY <1>3, <2>4, NoneYetOk
    <2>6. n - 1 \in Nat /\ n - 1 < n /\ n - 1 \in 0..last /\ (n - 1) + 1 = n /\ n <= last /\ n \in places
      BY <1>1, <2>4, <2>5
    <2>7. n - 1 \notin bad
      <3>1. <<n - 1, n>> \in OpToRel(<, Nat)
        BY <2>4, <2>6 DEF OpToRel
      <3>. HIDE DEF bad
      <3>. QED
        BY <2>3, <3>1
    <2>8. VariablesOk(f, g[1..(n - 1)], n - 1)
      BY <2>6, <2>7
    <2>9. VariablesOk(f, AfterSymbol(f, g[1..(n - 1)], (n - 1) + 1), (n - 1) + 1)
      <3>. DEFINE m == n - 1
      <3>1. m \in Nat /\ m + 1 \in DOMAIN Frames[f].symbols /\ VariablesOk(f, g[1..m], m)
        BY <2>6, <2>8
      <3>. HIDE DEF m
      <3>2. VariablesOk(f, AfterSymbol(f, g[1..m], m + 1), m + 1)
        BY <3>1, SymbolOk
      <3>. QED
        BY <3>2 DEF m
    <2>10. g[1..((n - 1) + 1)] = AfterSymbol(f, g[1..(n - 1)], (n - 1) + 1)
      BY <1>4, <2>6
    <2>. QED
      BY <2>4, <2>6, <2>9, <2>10
  <1>. QED
    BY <1>1, <1>2, <1>5 DEF last

(* A part of a register holds its low bytes.                               *)
LEMMA ValuesAre ==
    /\ \A b \in {1, 2, 4, 8} : Values(b) \in Nat \ {0}
    /\ \A type, r : IsKnown(type, r) => /\ r.bytes \in {1, 2, 4, 8}
                                        /\ r.file \in General \union Pointers \union Numbered
  <1>1. \A b \in {1, 2, 4, 8} : Values(b) \in Nat \ {0}
    <2>1. \A m \in Nat \ {0} : m * m \in Nat \ {0}
      OBVIOUS
    <2>. DEFINE word == ByteValues * ByteValues
                dword == word * word
    <2>2. ByteValues \in Nat \ {0}
      BY ByteValuesAssumption
    <2>3. word \in Nat \ {0}
      BY <2>1, <2>2
    <2>. HIDE DEF word
    <2>4. dword \in Nat \ {0}
      BY <2>1, <2>3
    <2>. HIDE DEF dword
    <2>5. dword * dword \in Nat \ {0}
      BY <2>1, <2>4
    <2>6. Values(1) = ByteValues /\ Values(2) = word /\ Values(4) = dword /\ Values(8) = dword * dword
      BY DEF Values, word, dword
    <2>. QED
      BY <2>2, <2>3, <2>4, <2>5, <2>6
  <1>2. ASSUME NEW type, NEW r, IsKnown(type, r)
        PROVE  r.bytes \in {1, 2, 4, 8} /\ r.file \in General \union Pointers \union Numbered
    BY <1>2 DEF IsKnown, Known64, Known32
  <1>. QED
    BY <1>1, <1>2

LEMMA LowBytes ==
    ASSUME NEW m \in Nat \ {0}, NEW top \in Nat, NEW x \in 0..top - 1
    PROVE  /\ x % m \in 0..m - 1
           /\ \E high \in 0..top : x = (x % m) + high * m
  <1>1. x \in Nat /\ x <= top
    OBVIOUS
  <1>2. x % m \in 0..m - 1 /\ x \div m \in Nat /\ x = (x % m) + (x \div m) * m
    BY <1>1
  <1>3. x \div m <= x
    BY <1>1
  <1>4. x \div m \in 0..top
    BY <1>1, <1>2, <1>3
  <1>. QED
    BY <1>2, <1>4

(* A variable lies where its frame and registers say.                      *)
LEMMA LiesThere ==
    ASSUME NEW f \in DOMAIN Frames, NEW s \in ToSet(Frames[f].symbols),
           InRegister(s) => IsKnown(Frames[f].type, s.register)
    PROVE  LiesWhereFrameSays(Frames[f], ShownAs(f, s).at)
  <1>. DEFINE at == ShownAs(f, s).at
              value == RegisterValue(Frames[f].context, s.register)
  <1>1. at = ValueAt(Frames[f], s)
    BY DEF ShownAs
  <1>2. /\ at.register = IF InRegister(s) THEN s.register ELSE None
        /\ at.value = IF InRegister(s) THEN value ELSE None
        /\ at.offset = IF AtOffset(s) THEN s.offset ELSE None
        /\ at.address = IF AtOffset(s)
                        THEN Sum64(IF s.kind = "regrel" THEN at.value ELSE Frames[f].base, s.offset) ELSE None
    BY <1>1 DEF ValueAt
  <1>3. InRegister(s) => s.register # None
    BY FramesAssumption
  <1>. HIDE DEF at
  <1>4. ASSUME at.register # None
        PROVE  /\ at.value \in 0..Values(at.register.bytes) - 1
               /\ \E high \in 0..Values(8) :
                     Frames[f].context[at.register.file] = at.value + high * Values(at.register.bytes)
    <2>1. /\ InRegister(s) /\ IsKnown(Frames[f].type, s.register)
          /\ at.register = s.register /\ at.value = value
      BY <1>2, <1>4
    <2>. DEFINE x == Frames[f].context[s.register.file]
                m == Values(s.register.bytes)
    <2>2. m \in Nat \ {0} /\ Values(8) \in Nat
      BY <2>1, ValuesAre
    <2>3. x \in 0..Values(8) - 1
      BY <2>1, ValuesAre, FramesAssumption
    <2>4. value = x % m
      BY DEF RegisterValue
    <2>. HIDE DEF x, m, value
    <2>5. value \in 0..m - 1 /\ \E high \in 0..Values(8) : x = value + high * m
      BY <2>2, <2>3, <2>4, LowBytes
    <2>. QED
      BY <2>1, <2>5 DEF x, m
  <1>5. ASSUME at.offset # None
        PROVE  at.address = ((IF at.register = None THEN Frames[f].base ELSE at.value) + at.offset) % Values(8)
    <2>1. AtOffset(s) /\ at.offset = s.offset
      BY <1>2, <1>5
    <2>2. s.kind = "regrel" <=> at.register # None
      BY <1>2, <1>3, <2>1 DEF InRegister, AtOffset
    <2>. QED
      BY <1>2, <2>1, <2>2 DEF Sum64
  <1>. QED
    BY <1>4, <1>5 DEF LiesWhereFrameSays, at

(* What is shown of a frame is what its symbols came to.                   *)
FrameOk ==
    \/ frame = NoFrame
    \/ \E f \in DOMAIN Frames : frame = Variables(f) /\ frame # None

LEMMA InitFrame == Init => FrameOk
  BY DEF Init, FrameOk

(* Only the walk of a frame and the end of a dump change it.               *)
LEMMA StepFrame == FrameOk /\ [Next]_vars => FrameOk'
  <1>. SUFFICES ASSUME FrameOk, [Next]_vars
                PROVE  FrameOk'
    OBVIOUS
  <1>1. ASSUME UNCHANGED frame
        PROVE  FrameOk'
    BY <1>1 DEF FrameOk
  <1>2. ASSUME frame' = NoFrame
        PROVE  FrameOk'
    BY <1>2 DEF FrameOk
  <1>3. CASE EndFile \/ LoadThrows \/ TypeIsMissing \/ \E f \in DOMAIN Frames : RegisterIsUnknown(f)
    BY <1>3, <1>2 DEF EndFile, LoadThrows, TypeIsMissing, RegisterIsUnknown, NextFile
  <1>4. CASE AlreadyLoaded \/ LoadModule \/ DbgHelpReads \/ WayFails \/ LookIn \/ XmlLog
    BY <1>4, <1>1 DEF AlreadyLoaded, LoadModule, DbgHelpReads, WayFails, LookIn, XmlLog
  <1>5. CASE WayOpens \/ NoWayOpens
    BY <1>5, <1>1 DEF WayOpens, NoWayOpens, Done
  <1>6. CASE \E of \in {"main", "base"} : OpenWalker(of)
    BY <1>6, <1>1 DEF OpenWalker
  <1>7. CASE CloseWalker \/ NextPhase \/ StartLookup \/ Answered \/ NextType \/ EndSetup \/ SymbolsShown
    BY <1>7, <1>1 DEF CloseWalker, NextPhase, StartLookup, Answered, NextType, EndSetup, SymbolsShown
  <1>8. ASSUME NEW w \in DOMAIN walkers,
               \/ \E t \in UserTypes : AskType(w, t) \/ AskSymbols(w, t.module)
               \/ \E r \in Readers : SetupGlobals(w, r)
               \/ \E i \in DOMAIN DumpOf(w) : WalkFrame(w, i)
        PROVE  FrameOk'
    BY <1>8, <1>1 DEF AskType, AskSymbols, SetupGlobals, WalkFrame
  <1>9. ASSUME NEW f \in DOMAIN Frames, FrameWalked(f)
        PROVE  FrameOk'
    BY <1>9 DEF FrameWalked, FrameOk
  <1>10. CASE Ended \/ UNCHANGED vars
    BY <1>10, <1>1 DEF Ended, vars
  <1>. QED
    BY <1>3, <1>4, <1>5, <1>6, <1>7, <1>8, <1>9, <1>10 DEF Next

LEMMA ShownRight == FrameOk => VariablesOnce
  <1>. SUFFICES ASSUME FrameOk, frame.of # 0,
                       NEW list \in {"locals", "parameters"}
                PROVE  LET f == Frames[frame.of] IN
                       /\ ShownOnce(frame[list], {s \in ToSet(f.symbols) :
                                        s.local /\ ~s.null /\ (s.parameter <=> list = "parameters")})
                       /\ \A v \in ToSet(frame[list]) : LiesWhereFrameSays(f, v.at)
    BY DEF VariablesOnce
  <1>1. PICK f \in DOMAIN Frames : frame = Variables(f) /\ frame # None
    BY DEF FrameOk, NoFrame
  <1>2. VariablesOk(f, frame, Len(Frames[f].symbols))
    BY <1>1, FrameVariables
  <1>3. /\ frame = [of |-> f, locals |-> frame.locals, parameters |-> frame.parameters]
        /\ ListOk(f, frame[list], Given(f, Len(Frames[f].symbols), list))
    BY <1>1, <1>2 DEF VariablesOk
  <1>4. frame.of = f
    BY <1>3
  <1>5. {Frames[f].symbols[k] : k \in 1..Len(Frames[f].symbols)} = ToSet(Frames[f].symbols)
    BY FramesAssumption DEF ToSet
  <1>6. Given(f, Len(Frames[f].symbols), list) = {s \in ToSet(Frames[f].symbols) :
                                                    s.local /\ ~s.null /\ (s.parameter <=> list = "parameters")}
    BY <1>5 DEF Given, Wanted
  <1>7. ASSUME NEW v \in ToSet(frame[list])
        PROVE  LiesWhereFrameSays(Frames[f], v.at)
    <2>1. PICK s \in ToSet(Frames[f].symbols) :
             v = ShownAs(f, s) /\ (InRegister(s) => IsKnown(Frames[f].type, s.register))
      BY <1>3 DEF ListOk
    <2>2. LiesWhereFrameSays(Frames[f], ShownAs(f, s).at)
      BY <2>1, LiesThere
    <2>. QED
      BY <2>1, <2>2
  <1>. QED
    BY <1>3, <1>4, <1>6, <1>7 DEF ListOk

(* Whatever the symbols of a frame and of the scope inlined in it, and     *)
(* however many, each variable is shown once, in the list it belongs to,   *)
(* and lies where the frame and the registers, in their widths, say.       *)
THEOREM VariablesShownOnce == Spec => []VariablesOnce
  BY InitFrame, StepFrame, ShownRight, PTL DEF Spec
===============================================================================

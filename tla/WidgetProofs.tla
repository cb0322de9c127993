---------------------------- MODULE WidgetProofs ----------------------------
(***************************************************************************)
(* Theorems about the widgets of the markup: the slideshows (CSlider,      *)
(* Carousel, Cycle), for any number of slides, clicks and calls, and       *)
(* Collapse, Tooltip and Modal, for any number of panels, fades under way, *)
(* backdrops and calls.                                                    *)
(***************************************************************************)
EXTENDS CSlider, Carousel, Cycle, Collapse, Tooltip, Modal, FiniteSetTheorems, TLAPS

-----------------------------------------------------------------------------
(* The slider of the front page.                                           *)

LEMMA SliderInitial == CSInit => CSOneSlideshow /\ CSOneCurrent
  BY DEF CSInit, CSStart, CSOneSlideshow, CSOneCurrent

LEMMA NavigateKeepsCurrent ==
  ASSUME CSOneCurrent, NEW p, CSNavigate(p), UNCHANGED csCss
  PROVE  CSOneCurrent'
  BY DEF CSOneCurrent, CSNavigate

LEMMA SliderStep ==
  ASSUME CSOneSlideshow, CSOneCurrent, [CSNext]_csVars
  PROVE  CSOneSlideshow' /\ CSOneCurrent'
  <1>1. ASSUME NEW p, CSClick(p) PROVE CSOneSlideshow' /\ CSOneCurrent'
    <2>1. CSOneSlideshow'
      BY <1>1 DEF CSClick, CSTakeOver, CSOneSlideshow
    <2>2. CSOneCurrent'
      BY <1>1, NavigateKeepsCurrent DEF CSClick
    <2>. QED
      BY <2>1, <2>2
  <1>2. CASE CSTimer
    <2>1. CSOneSlideshow'
      BY <1>2 DEF CSTimer, CSOneSlideshow
    <2>2. CSOneCurrent'
      BY <1>2, NavigateKeepsCurrent DEF CSTimer
    <2>. QED
      BY <2>1, <2>2
  <1>3. CASE CSTransitionEnd
    BY <1>3 DEF CSTransitionEnd, CSOneSlideshow, CSOneCurrent
  <1>4. CASE CSFallbackEnd
    BY <1>4 DEF CSFallbackEnd, CSOneSlideshow, CSOneCurrent
  <1>5. CASE UNCHANGED csVars
    BY <1>5 DEF csVars, CSOneSlideshow, CSOneCurrent
  <1>. QED
    BY <1>1, <1>2, <1>3, <1>4, <1>5 DEF CSNext, CSArrow, CSPage

LEMMA SliderTypesInitial == CSInit => CSTypeOK
  <1>. SUFFICES ASSUME NEW css \in BOOLEAN, NEW autoplay \in BOOLEAN, CSStart(css, autoplay)
                PROVE  CSTypeOK
    BY DEF CSInit
  <1>1. 0 \in CSIndex
    BY SlidesAssumption DEF CSIndex
  <1>2. csTimers \in 0..2
    BY DEF CSStart
  <1>3. csCss \in BOOLEAN /\ csAnimating \in BOOLEAN /\ csAutoplay \in BOOLEAN
    BY DEF CSStart
  <1>4. csCurrent = 0 /\ csMarked = {0} /\ csDot = 0 /\ csLeaving = 0
    BY DEF CSStart
  <1>. QED
    BY <1>1, <1>2, <1>3, <1>4 DEF CSTypeOK

LEMMA SliderTypesStep ==
  ASSUME CSOneSlideshow', CSTypeOK, [CSNext]_csVars
  PROVE  CSTypeOK'
  <1>1. csTimers' \in 0..2
    BY DEF CSOneSlideshow
  <1>2. csCurrent \in CSIndex => CSAfter \in CSIndex /\ CSBefore \in CSIndex
    BY SlidesAssumption DEF CSIndex, CSAfter, CSBefore
  <1>3. ASSUME NEW p \in CSIndex, CSNavigate(p), UNCHANGED csCss, csAutoplay' \in BOOLEAN
        PROVE  CSTypeOK'
    BY <1>1, <1>3 DEF CSNavigate, CSTypeOK
  <1>4. ASSUME NEW p \in CSIndex, CSClick(p) PROVE CSTypeOK'
    BY <1>3, <1>4 DEF CSClick, CSTakeOver
  <1>5. CASE CSArrow \/ CSPage
    BY <1>2, <1>4, <1>5 DEF CSArrow, CSPage, CSTypeOK
  <1>6. CASE CSTimer
    BY <1>2, <1>3, <1>6 DEF CSTimer, CSTypeOK
  <1>7. CASE CSTransitionEnd
    BY <1>1, <1>7 DEF CSTransitionEnd, CSTypeOK
  <1>8. CASE CSFallbackEnd
    BY <1>1, <1>8 DEF CSFallbackEnd, CSTypeOK
  <1>9. CASE UNCHANGED csVars
    BY <1>1, <1>9 DEF csVars, CSTypeOK
  <1>. QED
    BY <1>5, <1>6, <1>7, <1>8, <1>9 DEF CSNext

\* The slideshow has one timeout while it plays and none after the visitor
\* took over (jquery.cslider.js:164-239).
THEOREM OneSlideshowAlways == CSSpec => []CSOneSlideshow
  <1>1. CSInit => CSOneSlideshow /\ CSOneCurrent
    BY SliderInitial
  <1>2. CSOneSlideshow /\ CSOneCurrent /\ [CSNext]_csVars => (CSOneSlideshow /\ CSOneCurrent)'
    BY SliderStep
  <1>. QED
    BY <1>1, <1>2, PTL DEF CSSpec

\* The dot and the counter name one slide, with CSS animations the class too
\* (_navigate, _updatePage).
THEOREM OneCurrentAlways == CSSpec => []CSOneCurrent
  <1>1. CSInit => CSOneSlideshow /\ CSOneCurrent
    BY SliderInitial
  <1>2. CSOneSlideshow /\ CSOneCurrent /\ [CSNext]_csVars => (CSOneSlideshow /\ CSOneCurrent)'
    BY SliderStep
  <1>. QED
    BY <1>1, <1>2, PTL DEF CSSpec

\* The counter, the dot and the marked slides are slides.
THEOREM SliderTypesAlways == CSSpec => []CSTypeOK
  <1>1. CSInit => CSOneSlideshow /\ CSOneCurrent /\ CSTypeOK
    BY SliderInitial, SliderTypesInitial
  <1>2. CSOneSlideshow /\ CSOneCurrent /\ CSTypeOK /\ [CSNext]_csVars
          => (CSOneSlideshow /\ CSOneCurrent /\ CSTypeOK)'
    BY SliderStep, SliderTypesStep
  <1>. QED
    BY <1>1, <1>2, PTL DEF CSSpec

-----------------------------------------------------------------------------
(* The carousel.                                                           *)

LEMMA OnlyItem ==
  ASSUME NEW i \in CaIndex, caActive = {i}
  PROVE  CaPos = i
  BY DEF CaPos

LEMMA Neighbours ==
  ASSUME NEW i \in CaIndex, caActive = {i}
  PROVE  CaSucc \in CaIndex /\ CaPred \in CaIndex
  <1>1. CaPos = i /\ i \in Int /\ Items \in Nat \ {0}
    BY OnlyItem, ItemsAssumption DEF CaIndex
  <1>2. /\ (i + 1) % Items \in 0..(Items - 1)
        /\ (i - 1) % Items \in 0..(Items - 1)
    BY <1>1
  <1>. QED
    BY <1>1, <1>2 DEF CaSucc, CaPred, CaIndex

\* What OneItemActive rests on: the handler of the transition's end takes the
\* class from the item that has it and gives it to an item of the carousel; a
\* refused slide has no such handler, and no other slide follows it.
CarouselMoves ==
  /\ \E i \in CaIndex : caActive = {i}
  /\ caSliding <=> caMove # <<>> \/ caRefused
  /\ caRefused => caMove = <<>>
  /\ caMove # <<>> => /\ caMove = <<caMove[1], caMove[2]>>
                      /\ caMove[1] = CaPos /\ caMove[2] \in CaIndex

CarouselInv ==
  /\ CarouselMoves
  /\ caQueue \in Seq(CaIndex) /\ caSlid \in Nat
  /\ ~caCss => caMove = <<>> /\ caSlid = 0
  /\ WaitingToIsWoken

LEMMA SlideKeeps ==
  ASSUME CarouselMoves, ~caSliding, NEW to \in CaIndex, NEW paused, NEW handle,
         CaSlide(to, paused, handle)
  PROVE  /\ CarouselMoves'
         /\ caCss => caMove' # <<>> \/ caRefused'
         /\ ~caCss => caMove' = <<>>
  <1>1. PICK i \in CaIndex : caActive = {i}
    BY DEF CarouselMoves
  <1>2. CaPos = i /\ caMove = <<>> /\ ~caRefused
    BY <1>1, OnlyItem DEF CarouselMoves
  <1>3. CASE CaRefuse(paused, handle)
    <2>1. caSliding' = TRUE /\ caRefused' = TRUE /\ UNCHANGED <<caActive, caMove>>
      BY <1>3 DEF CaRefuse
    <2>. QED
      BY <1>1, <1>2, <2>1 DEF CarouselMoves
  <1>4. CASE ~CaRefuse(paused, handle) /\ caCss
    <2>1. caSliding' = TRUE /\ caMove' = <<i, to>> /\ caActive' = caActive /\ caRefused' = caRefused
      BY <1>2, <1>4 DEF CaSlide
    <2>2. CaPos' = i
      BY <1>1, <1>2, <2>1 DEF CaPos
    <2>. QED
      BY <1>1, <1>2, <1>4, <2>1, <2>2 DEF CarouselMoves
  <1>5. CASE ~CaRefuse(paused, handle) /\ ~caCss
    <2>1. caActive' = {to} /\ UNCHANGED <<caSliding, caMove, caRefused>>
      BY <1>5 DEF CaSlide
    <2>. QED
      BY <1>2, <1>5, <2>1 DEF CarouselMoves
  <1>. QED
    BY <1>3, <1>4, <1>5

LEMMA FinishKeeps ==
  ASSUME CarouselMoves, caMove # <<>>, CaFinish, UNCHANGED caRefused
  PROVE  CarouselMoves'
  <1>1. PICK i \in CaIndex : caActive = {i}
    BY DEF CarouselMoves
  <1>2. caMove[1] = i /\ caMove[2] \in CaIndex
    BY <1>1, OnlyItem DEF CarouselMoves
  <1>3. caActive' = {caMove[2]} /\ caSliding' = FALSE /\ caMove' = <<>>
    BY <1>1, <1>2 DEF CaFinish
  <1>4. ~caRefused
    BY DEF CarouselMoves
  <1>. QED
    BY <1>2, <1>3, <1>4 DEF CarouselMoves

LEMMA MovesUnchanged ==
  ASSUME CarouselMoves, UNCHANGED <<caActive, caSliding, caMove, caRefused>>
  PROVE  CarouselMoves'
  BY DEF CarouselMoves, CaPos

LEMMA CarouselInitial == CaInit => CarouselInv
  <1>. SUFFICES ASSUME CaInit PROVE CarouselInv
    OBVIOUS
  <1>1. 0 \in CaIndex
    BY ItemsAssumption DEF CaIndex
  <1>. QED
    BY <1>1 DEF CaInit, CaStart, CarouselInv, CarouselMoves, WaitingToIsWoken

\* The waiting calls that name the item on display are answered at once; the
\* first that does not, starts a slide.
LEMMA SlidEventKeeps ==
  ASSUME CarouselInv, CaSlidEvent
  PROVE  CarouselInv'
  <1>. DEFINE here == {i \in 1..Len(caQueue) : \A j \in 1..i : caQueue[j] = CaPos}
              n == Cardinality(here)
  <1>. USE DEF CarouselInv
  <1>1. caSlid' \in Nat /\ caCss' = caCss /\ caCss
    BY DEF CaSlidEvent
  <1>2. CASE caSliding \/ caQueue = <<>>
    <2>1. UNCHANGED <<caQueue, caActive, caSliding, caMove, caRefused>>
      BY <1>2 DEF CaSlidEvent
    <2>2. caQueue = <<>> \/ caMove # <<>> \/ caRefused
      BY <1>2 DEF CarouselMoves
    <2>3. CarouselMoves'
      BY <2>1, MovesUnchanged
    <2>. QED
      BY <1>1, <2>1, <2>2, <2>3 DEF WaitingToIsWoken
  <1>3. CASE ~(caSliding \/ caQueue = <<>>) /\ n = Len(caQueue)
    <2>1. UNCHANGED <<caActive, caSliding, caMove, caRefused>> /\ caQueue' = <<>>
      BY <1>3 DEF CaSlidEvent, CaRestart
    <2>. QED
      BY <1>1, <2>1, MovesUnchanged DEF WaitingToIsWoken
  <1>4. CASE ~(caSliding \/ caQueue = <<>>) /\ n # Len(caQueue)
    <2>. HIDE DEF here
    <2>1. n \in 0..Len(caQueue)
      <3>1. Len(caQueue) \in Nat /\ here \subseteq 1..Len(caQueue)
        BY DEF here
      <3>2. IsFiniteSet(1..Len(caQueue)) /\ Cardinality(1..Len(caQueue)) = Len(caQueue)
        <4>1. 1 \in Int /\ Len(caQueue) \in Int
          BY <3>1
        <4>2. /\ IsFiniteSet(1..Len(caQueue))
              /\ Cardinality(1..Len(caQueue)) = IF 1 > Len(caQueue) THEN 0 ELSE Len(caQueue) - 1 + 1
          BY <4>1, FS_Interval
        <4>. QED
          BY <3>1, <4>2
      <3>3. IsFiniteSet(here) /\ n <= Len(caQueue)
        BY <3>1, <3>2, FS_Subset
      <3>4. n \in Nat
        BY <3>3, FS_CardinalityType
      <3>. QED
        BY <3>1, <3>3, <3>4
    <2>2. n + 1 \in 1..Len(caQueue)
      BY <1>4, <2>1
    <2>3. caQueue[n + 1] \in CaIndex /\ SubSeq(caQueue, n + 2, Len(caQueue)) \in Seq(CaIndex)
      BY <2>1, <2>2
    <2>4. /\ CaSlide(caQueue[n + 1], caPaused /\ n = 0, caHandle \/ n > 0)
          /\ caQueue' = SubSeq(caQueue, n + 2, Len(caQueue))
      BY <1>4 DEF CaSlidEvent, here
    <2>. HIDE DEF n
    <2>5. CarouselMoves' /\ (caMove' # <<>> \/ caRefused')
      BY <1>1, <1>4, <2>3, <2>4, SlideKeeps, Zenon
    <2>. QED
      BY <1>1, <2>3, <2>4, <2>5 DEF WaitingToIsWoken
  <1>. QED
    BY <1>2, <1>3, <1>4

LEMMA CarouselStep ==
  ASSUME CarouselInv, [CaNext]_caVars
  PROVE  CarouselInv'
  <1>. USE DEF CarouselInv
  <1>1. ASSUME ~caSliding, NEW to \in CaIndex, CaSlide(to, caPaused, caHandle),
               UNCHANGED <<caCss, caQueue, caSlid>>
        PROVE  CarouselInv'
    <2>1. /\ CarouselMoves' /\ (~caCss => caMove' = <<>>)
          /\ caCss => caMove' # <<>> \/ caRefused'
      BY <1>1, SlideKeeps
    <2>2. caQueue # <<>> => caSlid > 0
      BY <1>1 DEF WaitingToIsWoken, CarouselMoves
    <2>. QED
      BY <1>1, <2>1, <2>2 DEF WaitingToIsWoken
  <1>2. ASSUME UNCHANGED <<caCss, caActive, caSliding, caMove, caRefused, caSlid, caQueue>>
        PROVE  CarouselInv'
    BY <1>2, MovesUnchanged DEF WaitingToIsWoken
  <1>3. ASSUME caMove # <<>>, CaFinish, UNCHANGED <<caCss, caQueue, caRefused>> PROVE CarouselInv'
    <2>1. CarouselMoves' /\ caCss
      BY <1>3, FinishKeeps
    <2>. QED
      BY <1>3, <2>1 DEF CaFinish, WaitingToIsWoken
  <1>4. CASE CaStep \/ CaTick
    <2>1. CaSucc \in CaIndex /\ CaPred \in CaIndex
      BY Neighbours DEF CarouselMoves
    <2>. QED
      BY <1>1, <1>4, <2>1 DEF CaStep, CaTick
  <1>5. CASE CaTransitionEnd
    BY <1>3, <1>5 DEF CaTransitionEnd
  <1>6. CASE CaSlidEvent
    BY <1>6, SlidEventKeeps
  <1>7. ASSUME NEW byCall, CaPause(byCall) PROVE CarouselInv'
    BY <1>2, <1>3, <1>7 DEF CaPause
  <1>8. ASSUME NEW byCall, CaCycle(byCall) PROVE CarouselInv'
    BY <1>2, <1>8 DEF CaCycle
  <1>9. ASSUME NEW p \in CaIndex, CaTo(p) PROVE CarouselInv'
    <2>1. CASE caSliding
      <3>1. /\ UNCHANGED <<caCss, caActive, caSliding, caMove, caRefused, caSlid>>
            /\ caQueue' = Append(caQueue, p)
        BY <1>9, <2>1 DEF CaTo
      <3>2. CarouselMoves'
        BY <3>1, MovesUnchanged
      <3>3. caMove # <<>> \/ caRefused
        BY <2>1 DEF CarouselMoves
      <3>. QED
        BY <3>1, <3>2, <3>3 DEF WaitingToIsWoken
    <2>2. CASE ~caSliding /\ p = CaPos
      BY <1>2, <1>9, <2>2 DEF CaTo, CaGo, CaRestart
    <2>3. CASE ~caSliding /\ p # CaPos
      BY <1>1, <1>9, <2>3 DEF CaTo, CaGo
    <2>. QED
      BY <2>1, <2>2, <2>3
  <1>10. CASE UNCHANGED caVars
    BY <1>2, <1>10 DEF caVars
  <1>. QED
    BY <1>4, <1>5, <1>6, <1>7, <1>8, <1>9, <1>10 DEF CaNext, CaPointer, CaCall

LEMMA CarouselTypesInitial == CaInit => CaTypeOK
  <1>. SUFFICES ASSUME NEW css \in BOOLEAN, CaStart(css) PROVE CaTypeOK
    BY DEF CaInit
  <1>1. 0 \in CaIndex /\ 0 \in 0..MaxLeaks /\ 0 \in 0..MaxQueue
    BY ItemsAssumption DEF CaIndex
  <1>2. <<>> \in Seq(CaIndex) /\ Len(<<>>) <= MaxQueue
    BY ItemsAssumption
  <1>3. /\ caCss \in BOOLEAN /\ caSliding \in BOOLEAN /\ caPaused \in BOOLEAN /\ caHandle \in BOOLEAN
        /\ caRefused \in BOOLEAN
    BY DEF CaStart
  <1>4. caActive = {0} /\ caMove = <<>> /\ caLeaks = 0 /\ caQueue = <<>> /\ caSlid = 0
    BY DEF CaStart
  <1>. QED
    BY <1>1, <1>2, <1>3, <1>4 DEF CaTypeOK

LEMMA CarouselTypesStep ==
  ASSUME CarouselInv, CarouselInv', CaTypeOK, [CaNext]_caVars
  PROVE  CaTypeOK'
  <1>1. caActive' \subseteq CaIndex /\ caQueue' \in Seq(CaIndex)
    BY DEF CarouselInv, CarouselMoves
  <1>2. caMove' = <<>> \/ caMove' \in CaIndex \X CaIndex
    <2>1. \A i \in CaIndex : caActive' = {i} => CaPos' = i
      BY DEF CaPos
    <2>2. CaPos' \in CaIndex
      BY <2>1 DEF CarouselInv, CarouselMoves
    <2>. QED
      BY <2>2 DEF CarouselInv, CarouselMoves
  <1>3. caSliding' \in BOOLEAN /\ caRefused' \in BOOLEAN
    BY DEF CaTypeOK, CaNext, CaStep, CaTick, CaSlide, CaRefuse, CaTransitionEnd, CaFinish, CaSlidEvent, CaRestart,
           CaPointer, CaCall, CaPause, CaCycle, CaTo, CaGo, caVars
  <1>. DEFINE Bounds == caLeaks' \in 0..MaxLeaks /\ Len(caQueue') <= MaxQueue /\ caSlid' \in 0..MaxQueue
              Flags == caCss' = caCss /\ caPaused' \in BOOLEAN /\ caHandle' \in BOOLEAN
  <1>4. ASSUME Bounds, Flags PROVE CaTypeOK'
    BY <1>1, <1>2, <1>3, <1>4 DEF CaTypeOK
  <1>. HIDE DEF Bounds, Flags
  <1>5. ASSUME NEW to, NEW paused \in BOOLEAN, NEW handle \in BOOLEAN, CaSlide(to, paused, handle)
        PROVE  caPaused' \in BOOLEAN /\ caHandle' \in BOOLEAN
    BY <1>5 DEF CaSlide, CaRefuse
  <1>6. CASE CaStep \/ CaTick
    <2>1. caPaused' \in BOOLEAN /\ caHandle' \in BOOLEAN
      BY <1>5, <1>6 DEF CaStep, CaTick, CaTypeOK
    <2>. QED
      BY <1>4, <1>6, <2>1 DEF CaStep, CaTick, CaTypeOK, Bounds, Flags
  <1>7. CASE CaTransitionEnd
    <2>1. caSlid' = 1 /\ 1 \in 0..MaxQueue
      BY <1>7, ItemsAssumption DEF CaTransitionEnd, CaFinish
    <2>. QED
      BY <1>4, <1>7, <2>1 DEF CaTransitionEnd, CaTypeOK, Bounds, Flags
  <1>8. CASE CaSlidEvent
    <2>. DEFINE here == {i \in 1..Len(caQueue) : \A j \in 1..i : caQueue[j] = CaPos}
                n == Cardinality(here)
    <2>1. caSlid' \in 0..MaxQueue /\ caCss' = caCss /\ caLeaks' = caLeaks
      BY <1>8, ItemsAssumption DEF CaSlidEvent, CaTypeOK
    <2>2. \/ caQueue' = caQueue \/ caQueue' = <<>> \/ caQueue' = SubSeq(caQueue, n + 2, Len(caQueue))
      BY <1>8 DEF CaSlidEvent
    <2>3. caHandle' \in BOOLEAN /\ caPaused' \in BOOLEAN
      <3>1. \/ UNCHANGED <<caPaused, caHandle>>
            \/ CaRestart
            \/ CaSlide(caQueue[n + 1], caPaused /\ n = 0, caHandle \/ n > 0)
        BY <1>8 DEF CaSlidEvent
      <3>2. (caPaused /\ n = 0) \in BOOLEAN /\ (caHandle \/ n > 0) \in BOOLEAN
        OBVIOUS
      <3>. QED
        BY <1>5, <3>1, <3>2 DEF CaRestart, CaTypeOK
    <2>4. n \in Nat
      <3>1. Len(caQueue) \in Nat
        BY DEF CaTypeOK
      <3>2. IsFiniteSet(1..Len(caQueue))
        BY <3>1, FS_Interval
      <3>3. IsFiniteSet(here)
        BY <3>2, FS_Subset
      <3>. QED
        BY <3>3, FS_CardinalityType
    <2>. HIDE DEF n
    <2>5. Len(SubSeq(caQueue, n + 2, Len(caQueue))) <= Len(caQueue)
      BY <2>4 DEF CaTypeOK
    <2>6. Len(caQueue') <= MaxQueue
      <3>1. Len(caQueue) \in Nat /\ Len(caQueue) <= MaxQueue /\ MaxQueue \in Nat
        BY ItemsAssumption DEF CaTypeOK
      <3>2. CASE caQueue' = <<>>
        BY <3>1, <3>2
      <3>3. CASE caQueue' = caQueue
        BY <3>1, <3>3
      <3>4. CASE caQueue' = SubSeq(caQueue, n + 2, Len(caQueue))
        <4>1. Len(caQueue') \in Nat
          BY <1>1
        <4>2. Len(caQueue') <= Len(caQueue)
          BY <2>5, <3>4, Zenon
        <4>. QED
          BY <3>1, <4>1, <4>2
      <3>. QED
        BY <2>2, <3>2, <3>3, <3>4
    <2>. QED
      BY <1>4, <2>1, <2>3, <2>6 DEF CaTypeOK, Bounds, Flags
  <1>9. ASSUME NEW byCall \in BOOLEAN, CaPause(byCall) PROVE CaTypeOK'
    <2>1. caSlid' \in 0..MaxQueue
      BY <1>9, ItemsAssumption DEF CaPause, CaFinish, CaTypeOK
    <2>2. caLeaks' \in 0..MaxLeaks
      BY <1>9, ItemsAssumption DEF CaPause, CaTypeOK
    <2>. QED
      BY <1>4, <1>9, <2>1, <2>2 DEF CaPause, CaTypeOK, Bounds, Flags
  <1>10. ASSUME NEW byCall \in BOOLEAN, CaCycle(byCall) PROVE CaTypeOK'
    <2>1. caLeaks' \in 0..MaxLeaks
      BY <1>10, ItemsAssumption DEF CaCycle, CaTypeOK
    <2>. QED
      BY <1>4, <1>10, <2>1 DEF CaCycle, CaTypeOK, Bounds, Flags
  <1>11. ASSUME NEW p \in CaIndex, CaTo(p) PROVE CaTypeOK'
    <2>1. CASE caSliding
      <3>1. caQueue' = Append(caQueue, p) /\ Len(caQueue) < MaxQueue
            /\ UNCHANGED <<caPaused, caHandle, caCss, caLeaks, caSlid>>
        BY <1>11, <2>1 DEF CaTo
      <3>2. Len(caQueue') <= MaxQueue
        <4>1. Len(caQueue') = Len(caQueue) + 1 /\ Len(caQueue) \in Nat
          BY <3>1 DEF CaTypeOK
        <4>. QED
          BY <3>1, <4>1, ItemsAssumption
      <3>. QED
        BY <1>4, <3>1, <3>2 DEF CaTypeOK, Bounds, Flags
    <2>2. CASE ~caSliding
      <3>1. UNCHANGED <<caCss, caLeaks, caSlid, caQueue>> /\ CaGo(p)
        BY <1>11, <2>2 DEF CaTo
      <3>2. caPaused' \in BOOLEAN /\ caHandle' \in BOOLEAN
        BY <1>5, <3>1 DEF CaGo, CaRestart, CaTypeOK
      <3>. QED
        BY <1>4, <3>1, <3>2 DEF CaTypeOK, Bounds, Flags
    <2>. QED
      BY <2>1, <2>2
  <1>12. CASE UNCHANGED caVars
    BY <1>4, <1>12 DEF caVars, CaTypeOK, Bounds, Flags
  <1>. QED
    BY <1>6, <1>7, <1>8, <1>9, <1>10, <1>11, <1>12 DEF CaNext, CaPointer, CaCall

\* One item is active, and until a slide is refused, the carousel slides exactly
\* while a transition will end it, with one item or more and however it is moved
\* (bootstrap.js:1623-1690).
THEOREM OneItemActiveAlways == CaSpec => []OneItemActive
  <1>1. CarouselInv => OneItemActive
    BY FS_Singleton DEF CarouselInv, CarouselMoves, OneItemActive
  <1>2. CaInit => CarouselInv
    BY CarouselInitial
  <1>3. CarouselInv /\ [CaNext]_caVars => CarouselInv'
    BY CarouselStep
  <1>. QED
    BY <1>1, <1>2, <1>3, PTL DEF CaSpec

\* A waiting call of to() is answered by a slide that is under way, or by a
\* slid that is still to come, until a slide is refused (bootstrap.js:1610-1614, 1672-1677).
THEOREM WaitingToIsWokenAlways == CaSpec => []WaitingToIsWoken
  <1>1. CarouselInv => WaitingToIsWoken
    BY DEF CarouselInv
  <1>2. CaInit => CarouselInv
    BY CarouselInitial
  <1>3. CarouselInv /\ [CaNext]_caVars => CarouselInv'
    BY CarouselStep
  <1>. QED
    BY <1>1, <1>2, <1>3, PTL DEF CaSpec

\* The positions that wait, and the items that move, are items.
THEOREM CarouselTypesAlways == CaSpec => []CaTypeOK
  <1>1. CaInit => CarouselInv /\ CaTypeOK
    BY CarouselInitial, CarouselTypesInitial
  <1>2. CarouselInv /\ CaTypeOK /\ [CaNext]_caVars => (CarouselInv /\ CaTypeOK)'
    BY CarouselStep, CarouselTypesStep
  <1>. QED
    BY <1>1, <1>2, PTL DEF CaSpec

-----------------------------------------------------------------------------
(* Cycle.                                                                  *)

\* Nothing fades; or slide s fades out, for the current slide to come; or that one
\* fades in.
CyNone == \A s \in CySlides : cyFx[s] = <<>>
CyFading(s, job) == cyFx[s] = <<job>> /\ \A t \in CySlides \ {s} : cyFx[t] = <<>>

CyFxFits ==
  CyOrderly /\ ~CyStopped =>
    \/ (cyOpt.sync \/ ~cyBusy) /\ CyNone
    \/ /\ ~cyOpt.sync /\ cyBusy
       /\ \E s \in CySlides \ {cyCurr} : cyVisible \subseteq {s, cyCurr} /\ CyFading(s, cyCurr)
    \/ ~cyOpt.sync /\ cyBusy /\ cyVisible = {cyCurr} /\ CyFading(cyCurr, CyFadeIn)

CycleInv ==
  /\ cyCurr \in CySlides /\ cyFx \in [CySlides -> Seq(CySlides \cup {CyFadeIn})]
  /\ CyOneTimeout /\ CyCurrentShown /\ CyFxFits

LEMMA CycleInitial == CyInit => CycleInv
  <1>. SUFFICES ASSUME NEW o \in CyShows, NEW hover \in {"away", "unseen"}, CyStart(o, hover)
                PROVE  CycleInv
    BY DEF CyInit
  <1>1. CyFirst(o) \subseteq CySlides
    BY CycleAssumption DEF CyFirst, CySlides
  <1>2. cyFx \in [CySlides -> Seq(CySlides \cup {CyFadeIn})] /\ CyNone
    <2>1. <<>> \in Seq(CySlides \cup {CyFadeIn})
      OBVIOUS
    <2>. QED
      BY <2>1 DEF CyStart, CyNone
  <1>. QED
    BY <1>1, <1>2 DEF CyStart, CycleInv, CyOneTimeout, CyCurrentShown, CyFxFits

\* However many slides fade, the stop of all of them leaves queues of fades, and
\* ends a number of them.
LEMMA StopTypes ==
  ASSUME cyFx \in [CySlides -> Seq(CySlides \cup {CyFadeIn})], NEW manual
  PROVE  CyFxLeft(manual) \in [CySlides -> Seq(CySlides \cup {CyFadeIn})] /\ CyEnded \in Nat
  <1>1. IsFiniteSet(CySlides)
    BY CycleAssumption, FS_Interval DEF CySlides
  <1>2. \A S \in SUBSET CySlides : Cardinality(S) \in Nat
    BY <1>1, FS_Subset, FS_CardinalityType
  <1>3. ASSUME NEW n \in CySlides
        PROVE  [i \in 1..Cardinality(CyLate(n)) |-> CyFadeIn] \in Seq(CySlides \cup {CyFadeIn})
    <2>1. Cardinality(CyLate(n)) \in Nat
      BY <1>2 DEF CyLate, CyHead
    <2>. QED
      BY <2>1
  <1>4. CyEnded \in Nat
    BY <1>2 DEF CyEnded, CyHead, CyOut
  <1>. QED
    BY <1>3, <1>4 DEF CyFxLeft

\* Nothing that a click stops in an orderly show goes on, or leaves a timeout.
LEMMA StopClears ==
  ASSUME CycleInv, CyOrderly, NEW manual \in BOOLEAN, NEW c, c # "live"
  PROVE  /\ CyCleared(manual, c) # "live" /\ CyLeft(manual, cyLeaks) = 0
         /\ CyFxLeft(manual) = cyFx
         /\ ~CyTrumps(manual) => CyShown(manual) = cyVisible
         /\ CyTrumps(manual) => cyOpt.sync /\ (~CyStopped => CyShown(manual) = {cyCurr})
  <1>1. cyLeaks = 0
    BY DEF CycleInv, CyOneTimeout
  <1>2. CyTrumps(manual) => cyOpt.sync
    BY DEF CyTrumps, CyOrderly
  <1>3. CyLeft(manual, cyLeaks) = 0
    BY <1>1, <1>2 DEF CyLeft, CyQueued, CyEnded
  <1>. QED
    BY <1>2, <1>3 DEF CyCleared, CyFxLeft, CyShown

\* go() is only ever called with a handle that is not of a pending timeout:
\* the timeout has come, or the click has cleared it.
LEMMA GoKeeps ==
  ASSUME CycleInv, CyOrderly, NEW manual \in BOOLEAN, NEW n, NEW c,
         c # "live", CyGo(manual, n, c, cyLeaks)
  PROVE  CyOneTimeout' /\ CyCurrentShown' /\ CyFxFits'
  <1>. DEFINE h == CyCleared(manual, c)
              Good == CyOneTimeout' /\ CyCurrentShown' /\ CyFxFits'
  <1>1. h # "live" /\ CyLeft(manual, cyLeaks) = 0 /\ CyFxLeft(manual) = cyFx
    BY StopClears
  <1>2. /\ ~CyTrumps(manual) => CyShown(manual) = cyVisible
        /\ CyTrumps(manual) => cyOpt.sync /\ (~CyStopped => CyShown(manual) = {cyCurr})
    BY StopClears
  <1>3. cyOpt' = cyOpt /\ CyOrderly'
    BY DEF CyGo, CyOrderly
  <1>4. CASE CyIgnored(manual, h)
    <2>1. /\ cyHandle' = h /\ cyLeaks' = 0 /\ cyVisible' = CyShown(manual) /\ cyFx' = cyFx
          /\ cyBusy' = (cyBusy /\ ~CyTrumps(manual))
          /\ UNCHANGED <<cyCurr, cyDown>>
      BY <1>1, <1>4 DEF CyGo
    <2>2. CyOneTimeout'
      BY <1>1, <2>1 DEF CyOneTimeout
    <2>3. CASE CyTrumps(manual)
      <3>1. cyBusy' = FALSE /\ cyOpt.sync
        BY <1>2, <2>1, <2>3
      <3>2. ~CyStopped => cyVisible' = {cyCurr'} /\ CyNone'
        BY <1>2, <2>1, <2>3, <3>1 DEF CycleInv, CyFxFits, CyOrderly, CyNone
      <3>. QED
        BY <1>3, <2>1, <2>2, <3>1, <3>2 DEF CyStopped, CyCurrentShown, CyFxFits
    <2>4. CASE ~CyTrumps(manual)
      <3>1. cyVisible' = cyVisible /\ (cyBusy' <=> cyBusy)
        BY <1>2, <2>1, <2>4
      <3>2. CyCurrentShown'
        BY <1>3, <2>1, <3>1 DEF CycleInv, CyStopped, CyCurrentShown
      <3>3. CyFxFits'
        BY <1>3, <2>1, <3>1 DEF CycleInv, CyStopped, CyFxFits, CyNone, CyFading
      <3>. QED
        BY <2>2, <3>2, <3>3
    <2>. QED
      BY <2>3, <2>4
  <1>5. CASE ~CyIgnored(manual, h)
    <2>1. ~CyStopped /\ (cyBusy => CyTrumps(manual)) /\ CyNone /\ CyShown(manual) = {cyCurr}
      <3>1. ~CyStopped /\ (cyBusy => CyTrumps(manual))
        BY <1>5 DEF CyIgnored
      <3>2. CyTrumps(manual) \/ cyVisible = {cyCurr}
        BY <3>1 DEF CycleInv, CyCurrentShown
      <3>. QED
        BY <1>2, <3>1, <3>2 DEF CycleInv, CyFxFits
    <2>2. CASE ~manual /\ CyEnds(n)
      <3>1. /\ cyHandle' = h /\ cyLeaks' = 0 /\ UNCHANGED <<cyCurr, cyBusy, cyVisible, cyFx>>
        BY <1>1, <1>5, <2>2 DEF CyGo
      <3>2. ~cyBusy
        BY <2>1, <2>2 DEF CyTrumps
      <3>. QED
        BY <1>1, <1>3, <2>1, <3>1, <3>2
           DEF CycleInv, CyOneTimeout, CyCurrentShown, CyFxFits, CyNone
    <2>3. CASE ~(~manual /\ CyEnds(n)) /\ (manual \/ cyPause = 0) /\ n # cyCurr /\ n \notin CySlides
      <3>1. /\ cyHandle' = h /\ cyLeaks' = 0 /\ cyBusy' = FALSE
            /\ cyVisible' = {cyCurr} /\ UNCHANGED <<cyCurr, cyFx>>
        BY <1>1, <1>5, <2>1, <2>3 DEF CyGo
      <3>. QED
        BY <1>1, <1>3, <2>1, <3>1 DEF CyOneTimeout, CyCurrentShown, CyFxFits, CyNone
    <2>4. CASE ~(~manual /\ CyEnds(n)) /\ (manual \/ cyPause = 0) /\ n # cyCurr /\ n \in CySlides
      <3>1. /\ cyHandle' = h /\ cyLeaks' = 0 /\ cyBusy' = TRUE /\ cyCurr' = n
            /\ cyVisible' = (CyShown(manual) \cap {cyCurr}) \cup {n}
            /\ cyFx' = IF cyOpt.sync THEN cyFx ELSE [cyFx EXCEPT ![cyCurr] = Append(@, n)]
        BY <1>1, <1>5, <2>4 DEF CyGo
      <3>2. cyVisible' = {cyCurr, n}
        BY <2>1, <3>1
      <3>3. cyOpt.sync => CyNone'
        BY <2>1, <3>1 DEF CyNone
      <3>4. ~cyOpt.sync => /\ cyFx'[cyCurr] = <<n>>
                           /\ \A t \in CySlides \ {cyCurr} : cyFx'[t] = <<>>
        <4>1. cyFx[cyCurr] = <<>>
          BY <2>1 DEF CycleInv, CyNone
        <4>2. Append(<<>>, n) = <<n>>
          OBVIOUS
        <4>. QED
          BY <2>1, <3>1, <4>1, <4>2 DEF CycleInv, CyNone
      <3>5. CyFxFits'
        <4>1. CASE cyOpt.sync
          BY <1>3, <3>3, <4>1 DEF CyFxFits
        <4>2. CASE ~cyOpt.sync
          <5>1. cyCurr \in CySlides \ {cyCurr'} /\ cyVisible' \subseteq {cyCurr, cyCurr'}
            BY <2>4, <3>1, <3>2 DEF CycleInv
          <5>2. cyFx'[cyCurr] = <<cyCurr'>> /\ \A t \in CySlides \ {cyCurr} : cyFx'[t] = <<>>
            BY <3>1, <3>4, <4>2
          <5>3. cyBusy' /\ ~cyOpt.sync' /\ \E s \in CySlides \ {cyCurr'} :
                   /\ cyVisible' \subseteq {s, cyCurr'} /\ cyFx'[s] = <<cyCurr'>>
                   /\ \A t \in CySlides \ {s} : cyFx'[t] = <<>>
            BY <1>3, <3>1, <4>2, <5>1, <5>2
          <5>. QED
            BY <5>3 DEF CyFxFits, CyFading
        <4>. QED
          BY <4>1, <4>2
      <3>. QED
        BY <1>1, <3>1, <3>2, <3>5 DEF CyOneTimeout, CyCurrentShown
    <2>5. CASE ~(~manual /\ CyEnds(n)) /\ ~((manual \/ cyPause = 0) /\ n # cyCurr)
      <3>1. /\ cyBusy' = FALSE /\ cyVisible' = {cyCurr} /\ cyFx' = cyFx
            /\ CyQueue(h, 0) /\ cyCurr' = cyCurr
        BY <1>1, <1>5, <2>1, <2>5 DEF CyGo
      <3>. QED
        BY <1>1, <1>3, <2>1, <3>1 DEF CyQueue, CyOneTimeout, CyCurrentShown, CyFxFits, CyNone
    <2>. QED
      BY <2>2, <2>3, <2>4, <2>5
  <1>. QED
    BY <1>4, <1>5

\* The end of a fade is the end of the transition, or lets the current slide come.
LEMMA FadeEndKeeps ==
  ASSUME CycleInv, CyOrderly, NEW s \in CySlides, CyFxEnd(s)
  PROVE  CyOneTimeout' /\ CyCurrentShown' /\ CyFxFits'
  <1>1. cyOpt' = cyOpt /\ cyCurr' = cyCurr /\ cyDown' = cyDown /\ CyOrderly' /\ (CyStopped' <=> CyStopped)
    BY DEF CyFxEnd, CyOrderly, CyStopped
  <1>2. CASE CyStopped
    <2>1. /\ UNCHANGED <<cyHandle, cyLeaks>> /\ (cyBusy' = FALSE \/ cyBusy' = cyBusy)
      BY <1>2 DEF CyFxEnd
    <2>. QED
      BY <1>1, <1>2, <2>1 DEF CycleInv, CyOneTimeout, CyCurrentShown, CyFxFits
  <1>3. CASE ~CyStopped
    <2>1. cyFx[s] # <<>> /\ cyLeaks = 0 /\ (cyBusy => cyHandle # "live")
      BY DEF CyFxEnd, CycleInv, CyOneTimeout
    <2>2. ~cyOpt.sync /\ cyBusy
      BY <1>3, <2>1 DEF CycleInv, CyFxFits, CyNone
    <2>3. CASE /\ cyVisible = {cyCurr} /\ CyFading(cyCurr, CyFadeIn)
      <3>1. s = cyCurr /\ cyFx[s] = <<CyFadeIn>>
        BY <2>1, <2>3 DEF CyFading
      <3>2. Head(<<CyFadeIn>>) = CyFadeIn /\ Tail(<<CyFadeIn>>) = <<>>
        OBVIOUS
      <3>3. /\ cyBusy' = FALSE /\ cyFx' = [cyFx EXCEPT ![s] = <<>>]
            /\ CyQueue(cyHandle, cyLeaks) /\ cyVisible' = cyVisible
        BY <1>3, <3>1, <3>2 DEF CyFxEnd
      <3>4. CyNone'
        BY <2>3, <3>1, <3>3 DEF CyFading, CyNone, CycleInv
      <3>. QED
        BY <1>1, <2>1, <2>2, <2>3, <3>3, <3>4
           DEF CyQueue, CyOneTimeout, CyCurrentShown, CyFxFits
    <2>4. ASSUME NEW r \in CySlides \ {cyCurr}, cyVisible \subseteq {r, cyCurr}, CyFading(r, cyCurr)
          PROVE  CyOneTimeout' /\ CyCurrentShown' /\ CyFxFits'
      <3>1. s = r /\ cyFx[s] = <<cyCurr>> /\ cyFx[cyCurr] = <<>> /\ cyCurr # CyFadeIn
        BY <2>1, <2>4 DEF CyFading, CycleInv, CySlides, CyFadeIn
      <3>2. Head(<<cyCurr>>) = cyCurr /\ Tail(<<cyCurr>>) = <<>> /\ Append(<<>>, CyFadeIn) = <<CyFadeIn>>
        OBVIOUS
      <3>3. /\ cyFx' = [[cyFx EXCEPT ![s] = <<>>] EXCEPT ![cyCurr] = Append(@, CyFadeIn)]
            /\ cyVisible' = cyVisible \ {s} /\ UNCHANGED <<cyBusy, cyHandle, cyLeaks>>
        BY <3>1, <3>2 DEF CyFxEnd
      <3>4. CyFading(cyCurr, CyFadeIn)'
        <4>1. cyFx'[cyCurr] = <<CyFadeIn>> /\ \A t \in CySlides \ {cyCurr} : cyFx'[t] = <<>>
          BY <2>4, <3>1, <3>2, <3>3 DEF CyFading, CycleInv
        <4>2. cyFx'[cyCurr'] = <<CyFadeIn>> /\ \A t \in CySlides \ {cyCurr'} : cyFx'[t] = <<>>
          BY <1>1, <4>1
        <4>. QED
          BY <4>2 DEF CyFading
      <3>5. cyVisible' = {cyCurr}
        BY <1>3, <2>4, <3>1, <3>3 DEF CycleInv, CyCurrentShown
      <3>. QED
        BY <1>1, <2>1, <2>2, <3>3, <3>4, <3>5 DEF CyOneTimeout, CyCurrentShown, CyFxFits
    <2>. QED
      BY <1>3, <2>1, <2>2, <2>3, <2>4 DEF CycleInv, CyFxFits
  <1>. QED
    BY <1>2, <1>3

LEMMA CycleFits ==
  ASSUME CycleInv, CyOrderly, [CyNextStep]_cyVars
  PROVE  CyOneTimeout' /\ CyCurrentShown' /\ CyFxFits'
  <1>. DEFINE Good == CyOneTimeout' /\ CyCurrentShown' /\ CyFxFits'
  <1>. USE DEF CycleInv
  <1>1. ASSUME cyOpt' = cyOpt, cyCurr' = cyCurr, cyBusy' = cyBusy, cyVisible' = cyVisible,
               cyFx' = cyFx, cyLeaks' = cyLeaks, cyHandle' \in {cyHandle, "zero"},
               CyStopped' <=> CyStopped
        PROVE  Good
    <2>1. CyOneTimeout' /\ CyCurrentShown'
      BY <1>1 DEF CyOneTimeout, CyCurrentShown, CyOrderly
    <2>2. CyFxFits'
      BY <1>1 DEF CyFxFits, CyOrderly, CyNone, CyFading
    <2>. QED
      BY <2>1, <2>2
  <1>2. CASE CyTimeout
    <2>1. cyLeaks = 0
      BY DEF CyOneTimeout
    <2>2. CyGo(FALSE, cyNext, "stale", cyLeaks)
      <3>1. ~(cyLeaks > 0)
        BY <2>1
      <3>. QED
        BY <1>2, <3>1, Zenon DEF CyTimeout
    <2>. QED
      BY <2>2, GoKeeps
  <1>3. CASE CyTransitionEnd
    <2>1. /\ cyOpt.sync /\ ~CyStopped /\ cyBusy' = FALSE /\ cyVisible' = {cyCurr}
          /\ CyQueue(cyHandle, cyLeaks) /\ UNCHANGED <<cyOpt, cyCurr, cyFx, cyDown>>
          /\ cyHandle # "live" /\ cyLeaks = 0
      BY <1>3 DEF CyTransitionEnd, CyOneTimeout
    <2>2. CyNone'
      BY <2>1 DEF CyFxFits, CyNone
    <2>. QED
      BY <2>1, <2>2 DEF CyQueue, CyOneTimeout, CyCurrentShown, CyFxFits
  <1>4. CASE CyCallPause \/ CyPointer
    BY <1>1, <1>4 DEF CyCallPause, CyPointer, CyStopped
  <1>5. CASE CyCallResumeNow
    BY <1>5, GoKeeps DEF CyCallResumeNow
  <1>6. CASE CyCallStop
    BY <1>6 DEF CyCallStop, CyStopped, CyOneTimeout, CyCurrentShown, CyFxFits
  <1>7. ASSUME NEW d \in {-1, 1}, CyAdvance(d) PROVE Good
    <2>1. CASE \E to : CyGo(TRUE, to, "zero", cyLeaks)
      BY <2>1, GoKeeps
    <2>2. CASE /\ cyHandle' = "zero"
               /\ UNCHANGED <<cyOpt, cyCurr, cyBusy, cyVisible, cyFx, cyLeaks, cyDown>>
      BY <1>1, <2>2 DEF CyStopped
    <2>. QED
      BY <1>7, <2>1, <2>2 DEF CyAdvance
  <1>8. ASSUME NEW i \in CySlides, CyPager(i) PROVE Good
    BY <1>8, GoKeeps DEF CyPager
  <1>9. ASSUME NEW i \in CySlides, CyFxEnd(i) PROVE Good
    BY <1>9, FadeEndKeeps
  <1>10. CASE UNCHANGED cyVars
    BY <1>1, <1>10 DEF cyVars, CyStopped
  <1>. QED
    BY <1>2, <1>3, <1>4, <1>5, <1>6, <1>7, <1>8, <1>9, <1>10 DEF CyNextStep, CyCall

\* What the pause counter can be follows from the pointer: only a pointer that
\* was seen to enter has been counted.
PauseFits ==
  /\ cyHover \in {"away", "over", "unseen"}
  /\ cyPause \in IF cyHover = "over" THEN 0..2 ELSE -1..1

CycleTypes == CyTypeOK /\ PauseFits

LEMMA CycleTypesInitial == CyInit => CycleTypes
  <1>. SUFFICES ASSUME NEW o \in CyShows, NEW hover \in {"away", "unseen"}, CyStart(o, hover)
                PROVE  CycleTypes
    BY DEF CyInit
  <1>1. CyFirst(o) \subseteq CySlides /\ CySecond(o, cyCurr) \subseteq -1..CyN
    BY CycleAssumption DEF CyFirst, CySecond, CySlides
  <1>2. (o.order = "backwards") \in BOOLEAN
    BY Zenon
  <1>3. cyCount = CyN /\ CyN \in Int
    BY CycleAssumption DEF CyStart
  <1>4. cyHandle \in {"zero", "stale", "live"} /\ cyPause = 0 /\ cyLeaks = 0
    BY DEF CyStart
  <1>5. PauseFits
    BY <1>4 DEF CyStart, PauseFits
  <1>6. cyVisible \subseteq CySlides /\ cyCurr \in CySlides /\ cyNext \in -1..CyN
    BY <1>1 DEF CyStart
  <1>7. cyBack \in BOOLEAN /\ cyBusy \in BOOLEAN
    BY <1>2, Zenon DEF CyStart
  <1>8. cyOpt \in CyShows /\ cyDown = "no" /\ cyHover \in {"away", "unseen"}
    BY DEF CyStart
  <1>9. cyFx \in [CySlides -> Seq(CySlides \cup {CyFadeIn})]
    BY CycleInitial, Zenon DEF CyInit, CycleInv
  <1>. QED
    BY <1>3, <1>4, <1>5, <1>6, <1>7, <1>8, <1>9 DEF CycleTypes, CyTypeOK

LEMMA QueueTypes ==
  ASSUME NEW h \in {"zero", "stale", "live"}, NEW leaks \in Nat, CyQueue(h, leaks)
  PROVE  cyHandle' \in {"zero", "stale", "live"} /\ cyLeaks' \in Nat
  <1>1. leaks + 1 \in Nat
    OBVIOUS
  <1>2. cyLeaks' \in {leaks, leaks + 1}
    BY DEF CyQueue
  <1>3. cyHandle' \in {h, "live"}
    BY DEF CyQueue
  <1>. QED
    BY <1>1, <1>2, <1>3

\* What go() leaves of the types, whoever calls it with a slide or with what
\* nowrap left in nextSlide.
LEMMA GoTypes ==
  ASSUME CyTypeOK, NEW manual \in BOOLEAN, NEW n \in -1..CyN,
         NEW c \in {"zero", "stale", "live"}, NEW l \in Nat, CyGo(manual, n, c, l)
  PROVE  /\ cyOpt' = cyOpt /\ cyHover' = cyHover
         /\ cyCurr' \in CySlides /\ cyNext' \in -1..CyN
         /\ cyBack' \in BOOLEAN /\ cyBusy' \in BOOLEAN
         /\ cyCount' \in Int /\ cyVisible' \subseteq CySlides
         /\ cyFx' \in [CySlides -> Seq(CySlides \cup {CyFadeIn})]
         /\ cyHandle' \in {"zero", "stale", "live"} /\ cyLeaks' \in Nat
         /\ cyDown' \in {"no", "stop", "destroy", "end", "error"}
  <1>. DEFINE h == CyCleared(manual, c)
              leaks == CyLeft(manual, l)
              fx == CyFxLeft(manual)
              counted == ~manual /\ cyPause = 0 /\ ~CyBounce /\ cyOpt.end = "autostop"
              changed == (manual \/ cyPause = 0) /\ n # cyCurr
              Fades == [CySlides -> Seq(CySlides \cup {CyFadeIn})]
  <1>1. h \in {"zero", "stale", "live"}
    BY DEF CyCleared
  <1>2. CyShown(manual) \subseteq CySlides
    BY DEF CyShown, CyTypeOK
  <1>3. cyCount - 1 \in Int /\ cyCount \in Int /\ (cyBusy /\ ~CyTrumps(manual)) \in BOOLEAN
    BY DEF CyTypeOK
  <1>4. fx \in Fades /\ leaks \in Nat /\ cyFx \in Fades
    <2>1. cyFx \in Fades
      BY DEF CyTypeOK
    <2>2. fx \in Fades /\ CyEnded \in Nat
      BY <2>1, StopTypes
    <2>. QED
      BY <2>1, <2>2 DEF CyLeft, CyQueued
  <1>. HIDE DEF h, leaks, fx
  <1>5. cyOpt' = cyOpt /\ cyHover' = cyHover
    BY DEF CyGo
  <1>6. CASE CyIgnored(manual, h)
    <2>1. /\ cyNext' = n /\ cyHandle' = h /\ cyLeaks' = leaks
          /\ cyVisible' = CyShown(manual) /\ cyFx' = fx
          /\ cyBusy' = (cyBusy /\ ~CyTrumps(manual))
          /\ UNCHANGED <<cyCurr, cyBack, cyCount, cyDown>>
      BY <1>6, Zenon DEF CyGo, h, leaks, fx
    <2>2. cyBusy' \in BOOLEAN
      BY <1>3, <2>1, Zenon
    <2>. QED
      BY <1>1, <1>2, <1>4, <1>5, <2>1, <2>2 DEF CyTypeOK
  <1>7. CASE ~CyIgnored(manual, h) /\ ~manual /\ CyEnds(n)
    <2>1. /\ cyDown' = "end" /\ cyHandle' = h /\ cyLeaks' = leaks
          /\ cyCount' = cyCount - 1 \/ cyCount' = cyCount
          /\ UNCHANGED <<cyCurr, cyNext, cyBack, cyBusy, cyVisible, cyFx>>
      BY <1>7 DEF CyGo, h, leaks
    <2>. QED
      BY <1>1, <1>3, <1>4, <1>5, <2>1 DEF CyTypeOK
  <1>8. CASE ~CyIgnored(manual, h) /\ ~(~manual /\ CyEnds(n)) /\ changed /\ n \notin CySlides
    <2>1. /\ cyDown' = "error" /\ cyHandle' = h /\ cyLeaks' = leaks /\ cyNext' = n
          /\ cyBusy' = FALSE /\ cyVisible' = CyShown(manual) /\ cyFx' = fx
          /\ UNCHANGED <<cyCurr, cyBack, cyCount>>
      BY <1>8 DEF CyGo, h, leaks, fx
    <2>. QED
      BY <1>1, <1>2, <1>4, <1>5, <2>1 DEF CyTypeOK
  <1>9. CASE ~CyIgnored(manual, h) /\ ~(~manual /\ CyEnds(n)) /\ ~(changed /\ n \notin CySlides)
    <2>1. /\ cyCount' = cyCount - 1 \/ cyCount' = cyCount
          /\ cyDown' = "no" \/ cyDown' = cyDown
          /\ IF changed
               THEN /\ cyBusy' = TRUE /\ cyVisible' = (CyShown(manual) \cap {cyCurr}) \cup {n}
                    /\ cyFx' = IF cyOpt.sync THEN fx ELSE [fx EXCEPT ![cyCurr] = Append(@, n)]
                    /\ cyHandle' = h /\ cyLeaks' = leaks
               ELSE /\ cyBusy' = FALSE /\ cyVisible' = CyShown(manual) /\ cyFx' = fx
                    /\ CyQueue(h, leaks)
          /\ IF changed \/ n = cyCurr
               THEN cyCurr' = n /\ cyNext' \in CyAfter(n) /\ cyBack' = CyTurn(n)
               ELSE cyNext' = n /\ UNCHANGED <<cyCurr, cyBack>>
      BY <1>9 DEF CyGo, h, leaks, fx
    <2>2. (changed \/ n = cyCurr => n \in CySlides) /\ cyCurr \in CySlides
      BY <1>9 DEF CyTypeOK
    <2>3. n \in CySlides => CyAfter(n) \subseteq -1..CyN
      BY CycleAssumption DEF CyAfter, CySlides
    <2>4. CyTurn(n) \in BOOLEAN
      BY DEF CyTurn, CyTypeOK
    <2>5. cyCurr' \in CySlides /\ cyNext' \in -1..CyN /\ cyBack' \in BOOLEAN
      BY <2>1, <2>2, <2>3, <2>4 DEF CyTypeOK
    <2>6. /\ cyBusy' \in BOOLEAN /\ cyVisible' \subseteq CySlides
          /\ cyHandle' \in {"zero", "stale", "live"} /\ cyLeaks' \in Nat
      BY <1>1, <1>2, <1>4, <2>1, <2>2, QueueTypes
    <2>7. cyFx' \in Fades
      <3>1. changed => Append(fx[cyCurr], n) \in Seq(CySlides \cup {CyFadeIn})
        BY <1>4, <2>2
      <3>. QED
        BY <1>4, <2>1, <2>2, <3>1
    <2>8. cyCount' \in Int /\ cyDown' \in {"no", "stop", "destroy", "end", "error"}
      BY <1>3, <2>1 DEF CyTypeOK
    <2>. QED
      BY <1>5, <2>5, <2>6, <2>7, <2>8
  <1>. QED
    BY <1>6, <1>7, <1>8, <1>9

LEMMA CycleTypesStep ==
  ASSUME CycleTypes, [CyNextStep]_cyVars
  PROVE  CycleTypes'
  <1>. USE DEF CycleTypes
  <1>1. cyLeaks \in Nat
    BY DEF CyTypeOK
  <1>2. PauseFits' => cyPause' \in -1..2
    BY DEF PauseFits
  <1>3. ASSUME NEW manual \in BOOLEAN, NEW n \in -1..CyN, NEW c \in {"zero", "stale", "live"},
               NEW l \in Nat, CyGo(manual, n, c, l), cyPause' \in {cyPause, 0}
        PROVE  CycleTypes'
    <2>1. PauseFits'
      BY <1>3 DEF CyGo, PauseFits
    <2>. QED
      BY <1>1, <1>2, <1>3, <2>1, GoTypes DEF CyTypeOK, PauseFits
  <1>4. \A i \in CySlides : i \in -1..CyN
    BY CycleAssumption DEF CySlides
  <1>5. cyNext \in -1..CyN /\ cyHandle \in {"zero", "stale", "live"}
    BY DEF CyTypeOK
  <1>6. CASE CyTimeout
    <2>1. \E c \in {"zero", "stale", "live"}, l \in Nat : CyGo(FALSE, cyNext, c, l)
      <3>1. cyLeaks > 0 => cyLeaks - 1 \in Nat
        BY <1>1
      <3>2. CASE CyGo(FALSE, cyNext, "stale", cyLeaks)
        BY <1>1, <3>2
      <3>3. CASE cyLeaks > 0 /\ CyGo(FALSE, cyNext, cyHandle, cyLeaks - 1)
        BY <1>5, <3>1, <3>3, Zenon
      <3>. QED
        BY <1>6, <3>2, <3>3 DEF CyTimeout
    <2>. QED
      BY <1>3, <1>5, <1>6, <2>1 DEF CyTimeout
  <1>7. CASE CyTransitionEnd
    <2>1. PauseFits'
      BY <1>7 DEF CyTransitionEnd, PauseFits
    <2>2. cyHandle' \in {"zero", "stale", "live"} /\ cyLeaks' \in Nat
      BY <1>1, <1>5, <1>7, QueueTypes DEF CyTransitionEnd
    <2>. QED
      BY <1>1, <1>2, <1>7, <2>1, <2>2 DEF CyTransitionEnd, CyTypeOK, PauseFits
  <1>8. CASE CyCallPause
    <2>1. cyPause' \in {0, 1} /\ cyHover' = cyHover
      BY <1>8 DEF CyCallPause
    <2>2. PauseFits'
      BY <2>1 DEF PauseFits
    <2>. QED
      BY <1>1, <1>2, <1>8, <2>2 DEF CyCallPause, CyTypeOK, PauseFits
  <1>9. CASE CyCallResumeNow
    BY <1>1, <1>3, <1>5, <1>9 DEF CyCallResumeNow
  <1>10. CASE CyCallStop
    <2>1. PauseFits'
      BY <1>10 DEF CyCallStop, PauseFits
    <2>2. cyFx' \in [CySlides -> Seq(CySlides \cup {CyFadeIn})]
      BY <1>10 DEF CyCallStop, CyTypeOK
    <2>. QED
      BY <1>1, <1>2, <1>10, <2>1, <2>2 DEF CyCallStop, CyTypeOK, PauseFits
  <1>11. CASE CyPointer
    <2>1. PauseFits'
      BY <1>11 DEF CyPointer, PauseFits
    <2>. QED
      BY <1>1, <1>2, <1>11, <2>1 DEF CyPointer, CyTypeOK, PauseFits
  <1>12. ASSUME NEW d \in {-1, 1}, CyAdvance(d) PROVE CycleTypes'
    <2>. DEFINE n == cyCurr + d
    <2>1. n \in -1..CyN /\ n % CyN \in CySlides /\ cyCurr \in CySlides
      BY CycleAssumption DEF CySlides, CyTypeOK
    <2>. HIDE DEF n
    <2>2. CASE ~CyRandom /\ n \notin CySlides /\ cyOpt.end = "nowrap"
      <3>1. /\ cyNext' = n /\ cyHandle' = "zero"
            /\ UNCHANGED <<cyOpt, cyCurr, cyBack, cyCount, cyBusy, cyVisible, cyFx,
                           cyLeaks, cyPause, cyHover, cyDown>>
        BY <1>12, <2>2 DEF CyAdvance, n
      <3>2. PauseFits'
        BY <3>1 DEF PauseFits
      <3>. QED
        BY <1>1, <1>2, <2>1, <3>1, <3>2 DEF CyTypeOK, PauseFits
    <2>3. CASE ~(~CyRandom /\ n \notin CySlides /\ cyOpt.end = "nowrap")
      <3>1. \E to \in CySlides : CyGo(TRUE, to, "zero", cyLeaks)
        BY <1>12, <2>1, <2>3 DEF CyAdvance, n
      <3>2. cyPause' = cyPause
        BY <1>12, <2>3 DEF CyAdvance, n
      <3>. QED
        BY <1>1, <1>3, <1>4, <3>1, <3>2
    <2>. QED
      BY <2>2, <2>3
  <1>13. ASSUME NEW i \in CySlides, CyPager(i) PROVE CycleTypes'
    BY <1>1, <1>3, <1>4, <1>13 DEF CyPager
  <1>14. ASSUME NEW s \in CySlides, CyFxEnd(s) PROVE CycleTypes'
    <2>. DEFINE Fades == Seq(CySlides \cup {CyFadeIn})
                job == Head(cyFx[s])
                rest == [cyFx EXCEPT ![s] = Tail(@)]
    <2>1. cyFx[s] \in Fades /\ cyFx[s] # <<>> /\ cyFx \in [CySlides -> Fades]
      BY <1>14 DEF CyFxEnd, CyTypeOK
    <2>2. job \in CySlides \cup {CyFadeIn} /\ Tail(cyFx[s]) \in Fades
      BY <2>1
    <2>3. rest \in [CySlides -> Fades]
      BY <2>1, <2>2
    <2>. HIDE DEF job, rest
    <2>4. job # CyFadeIn => [rest EXCEPT ![job] = Append(@, CyFadeIn)] \in [CySlides -> Fades]
      <3>1. job # CyFadeIn => Append(rest[job], CyFadeIn) \in Fades
        BY <2>2, <2>3
      <3>. QED
        BY <2>3, <3>1
    <2>5. cyFx' \in [CySlides -> Fades]
      BY <1>14, <2>3, <2>4 DEF CyFxEnd, job, rest
    <2>6. /\ cyBusy' \in BOOLEAN /\ cyVisible' \subseteq CySlides
          /\ cyHandle' \in {"zero", "stale", "live"} /\ cyLeaks' \in Nat
      <3>1. /\ cyBusy' \in {cyBusy, FALSE} /\ cyVisible' \subseteq cyVisible
            /\ UNCHANGED <<cyHandle, cyLeaks>> \/ CyQueue(cyHandle, cyLeaks)
        BY <1>14, Zenon DEF CyFxEnd
      <3>2. cyHandle' \in {"zero", "stale", "live"} /\ cyLeaks' \in Nat
        BY <1>1, <1>5, <3>1, QueueTypes
      <3>. QED
        BY <3>1, <3>2 DEF CyTypeOK
    <2>7. UNCHANGED <<cyOpt, cyCurr, cyNext, cyBack, cyCount, cyPause, cyHover, cyDown, cyClicks>>
      BY <1>14 DEF CyFxEnd
    <2>8. PauseFits'
      BY <2>7 DEF PauseFits
    <2>. QED
      BY <2>5, <2>6, <2>7, <2>8 DEF CyTypeOK
  <1>15. CASE UNCHANGED cyVars
    BY <1>15 DEF cyVars, CyTypeOK, PauseFits
  <1>. QED
    BY <1>6, <1>7, <1>8, <1>9, <1>10, <1>11, <1>12, <1>13, <1>14, <1>15 DEF CyNextStep, CyCall

LEMMA CycleStep ==
  ASSUME CycleInv, CycleTypes, [CyNextStep]_cyVars
  PROVE  CycleInv' /\ CycleTypes'
  <1>1. CycleTypes'
    BY CycleTypesStep
  <1>2. cyCurr' \in CySlides /\ cyFx' \in [CySlides -> Seq(CySlides \cup {CyFadeIn})]
    BY <1>1 DEF CycleTypes, CyTypeOK
  <1>3. CASE CyOrderly
    BY <1>1, <1>2, <1>3, CycleFits DEF CycleInv
  <1>4. CASE ~CyOrderly
    <2>1. cyOpt' = cyOpt
      BY DEF CyNextStep, CyTimeout, CyTransitionEnd, CyCall, CyCallPause, CyCallResumeNow, CyCallStop,
             CyPointer, CyAdvance, CyPager, CyFxEnd, CyGo, cyVars
    <2>2. ~CyOrderly'
      BY <1>4, <2>1 DEF CyOrderly
    <2>. QED
      BY <1>1, <1>2, <2>2 DEF CycleInv, CyOneTimeout, CyCurrentShown, CyFxFits
  <1>. QED
    BY <1>3, <1>4

LEMMA CycleAlways == CySpec => [](CycleInv /\ CycleTypes)
  BY CycleInitial, CycleTypesInitial, CycleStep, PTL DEF CySpec

\* With two slides or more, sync on or no click that trumps, at most one timeout
\* is pending, and none during a transition, whatever is clicked, called or
\* hovered (go, advance, queueNext, cycle.js:627-777).
THEOREM OneTimeoutAlways == CySpec => []CyOneTimeout
  <1>1. CycleInv => CyOneTimeout
    BY DEF CycleInv
  <1>. QED
    BY <1>1, CycleAlways, PTL

\* With two slides or more, sync on or no click that trumps, the current slide is
\* displayed, alone unless a transition brings it in.
THEOREM CurrentShownAlways == CySpec => []CyCurrentShown
  <1>1. CycleInv => CyCurrentShown
    BY DEF CycleInv
  <1>. QED
    BY <1>1, CycleAlways, PTL

\* currSlide is always a slide and nextSlide at most one beyond, whatever nowrap
\* leaves there; the pause counter never drifts (go, advance, hoverPause).
THEOREM CycleTypesAlways == CySpec => []CyTypeOK
  <1>1. CycleTypes => CyTypeOK
    BY DEF CycleTypes
  <1>. QED
    BY <1>1, CycleAlways, PTL

-----------------------------------------------------------------------------
(* The accordion.                                                          *)

\* The panels that are open are panels, and one at most.
PanelInv == coIn \subseteq Panels /\ \A p, q \in coIn : p = q

LEMMA OnlyPanel ==
  ASSUME NEW p \in Nat
  PROVE  Min({p}) = p
  BY DEF Min

LEMMA PanelInitial == CoInit => PanelInv
  BY DEF CoInit, CoStart, PanelInv

LEMMA PanelStep ==
  ASSUME PanelInv, [CoNext]_coVars
  PROVE  PanelInv'
  <1>1. ASSUME NEW p \in Panels, CoToggle(p) PROVE PanelInv'
    <2>1. CASE p \in coIn
      BY <1>1, <2>1 DEF CoToggle, CoHide, PanelInv
    <2>2. CASE p \notin coIn /\ ~CoMayShow
      BY <1>1, <2>2 DEF CoToggle, CoMade, PanelInv
    <2>3. CASE p \notin coIn /\ CoMayShow
      <3>1. coIn' = (coIn \ {q \in coIn : coData[q] # "moving"}) \cup {p}
        BY <1>1, <2>3 DEF CoToggle, CoShow
      <3>2. ASSUME NEW q \in coIn PROVE coData[q] # "moving"
        <4>1. coIn = {q} /\ q \in Nat
          BY CollapseAssumption DEF PanelInv
        <4>2. coData[Min(coIn)] # "moving"
          BY <2>3, <3>2 DEF CoMayShow
        <4>. QED
          BY <4>1, <4>2, OnlyPanel
      <3>3. coIn' = {p}
        BY <3>1, <3>2
      <3>. QED
        BY <3>3 DEF PanelInv
    <2>. QED
      BY <2>1, <2>2, <2>3
  <1>2. ASSUME NEW p \in Panels, CoEnd(p) PROVE PanelInv'
    BY <1>2 DEF CoEnd, PanelInv
  <1>3. CASE UNCHANGED coVars
    BY <1>3 DEF coVars, PanelInv
  <1>. QED
    BY <1>1, <1>2, <1>3 DEF CoNext

LEMMA PanelTypesInitial == CoInit => CoTypeOK
  BY DEF CoInit, CoStart, CoTypeOK

LEMMA PanelTypesStep ==
  ASSUME CoTypeOK, [CoNext]_coVars
  PROVE  CoTypeOK'
  <1>1. CoMoved \in {"none", "idle", "moving"}
    BY DEF CoMoved
  <1>2. ASSUME NEW p \in Panels, CoToggle(p) PROVE CoTypeOK'
    <2>1. CASE CoHide(p)
      BY <1>1, <1>2, <2>1 DEF CoToggle, CoHide, CoTypeOK
    <2>2. CASE CoShow(p)
      BY <1>1, <1>2, <2>2 DEF CoToggle, CoShow, CoTypeOK
    <2>3. CASE CoMade(p)
      BY <1>2, <2>3 DEF CoToggle, CoMade, CoTypeOK
    <2>. QED
      BY <1>2, <2>1, <2>2, <2>3 DEF CoToggle
  <1>3. ASSUME NEW p \in Panels, CoEnd(p) PROVE CoTypeOK'
    BY <1>3 DEF CoEnd, CoTypeOK
  <1>4. CASE UNCHANGED coVars
    BY <1>4 DEF coVars, CoTypeOK
  <1>. QED
    BY <1>2, <1>3, <1>4 DEF CoNext

\* Two panels of an accordion are never open, however fast its headers are
\* clicked and whatever instances were forgotten (bootstrap.js:1447-1469).
THEOREM OnePanelOpenAlways == CoSpec => []OnePanelOpen
  <1>1. PanelInv => OnePanelOpen
    <2>1. PanelInv => coIn = {} \/ \E p \in coIn : coIn = {p}
      BY DEF PanelInv
    <2>2. Cardinality({}) = 0 /\ \A p : Cardinality({p}) = 1
      BY FS_EmptySet, FS_Singleton
    <2>3. PanelInv => Cardinality(coIn) \in {0, 1}
      BY <2>1, <2>2
    <2>. QED
      BY <2>3 DEF OnePanelOpen
  <1>. QED
    BY <1>1, PanelInitial, PanelStep, PTL DEF CoSpec

\* Only panels open, move and have instances.
THEOREM PanelTypesAlways == CoSpec => []CoTypeOK
  <1>1. CoTypeOK /\ [CoNext]_coVars => CoTypeOK'
    BY PanelTypesStep
  <1>. QED
    BY <1>1, PanelTypesInitial, PTL DEF CoSpec

-----------------------------------------------------------------------------
(* The tooltip.                                                            *)

Truths ==
  ttOver \in BOOLEAN /\ ttDom \in BOOLEAN /\ ttCrossed \in BOOLEAN

Counts ==
  ttRemovals \in Nat /\ ttHooks \in Nat /\ ttHooks <= ttRemovals

\* Delays belong to what the pointer did last.
Delays ==
  /\ ttTimers \subseteq {"in", "out"}
  /\ "in" \in ttTimers => ttOver /\ ttState = "in" /\ ttTimers = {"in"}
  /\ "out" \in ttTimers => ttState = "out"

Removing == ttRemovals > 0

\* A tip without the pointer will be hidden, or is being removed.
Leaving ==
  /\ ttFading => ttDom /\ ttClass
  /\ ttDom /\ ~ttOver => "out" \in ttTimers \/ Removing

\* A tip under the pointer stays, unless an earlier hide takes it away.
Staying ==
  ttOver /\ "in" \notin ttTimers =>
    /\ Removing \/ "out" \in ttTimers => ttCrossed
    /\ ttDom \/ ttCrossed

TipInv == Truths /\ Counts /\ Delays /\ Leaving /\ Staying

LEMMA TipInitial == TtInit => TipInv
  <1>. SUFFICES ASSUME TtInit PROVE TipInv
    OBVIOUS
  <1>1. /\ ttOver = FALSE /\ ttState = "out" /\ ttTimers = {} /\ ttDom = FALSE
        /\ ttFading = FALSE /\ ttHooks = 0 /\ ttRemovals = 0 /\ ttCrossed = FALSE
    BY DEF TtInit, TtStart
  <1>2. Counts
    BY <1>1 DEF Counts
  <1>3. Truths
    BY <1>1 DEF Truths
  <1>4. Delays /\ Leaving /\ Staying
    BY <1>1 DEF Delays, Leaving, Staying
  <1>. QED
    BY <1>2, <1>3, <1>4 DEF TipInv

LEMMA ShowTip ==
  ASSUME TipInv, TtShow, ttTimers' \subseteq {"out"}, "out" \in ttTimers' => "out" \in ttTimers,
         ttOver' = TRUE, UNCHANGED ttState
  PROVE  TipInv'
  <1>1. Counts' /\ (Removing' <=> Removing)
    BY DEF TipInv, Counts, TtShow, Removing
  <1>2. ttDom' = TRUE /\ ttCrossed' = (Removing \/ "out" \in ttTimers)
        /\ (ttFading' => ttClass')
    <2>1. ttDom' = TRUE /\ ttCrossed' = (Removing \/ "out" \in ttTimers)
      BY DEF TtShow, Removing
    <2>2. ttClass' = ttFade /\ (ttFading' = FALSE \/ ttFading' = ttFade)
      BY DEF TtShow
    <2>. QED
      BY <2>1, <2>2
  <1>3. Truths'
    BY <1>2 DEF Truths
  <1>4. Delays'
    BY DEF TipInv, Delays
  <1>5. Leaving' /\ Staying'
    BY <1>1, <1>2 DEF Leaving, Staying
  <1>. QED
    BY <1>1, <1>3, <1>4, <1>5 DEF TipInv

\* hide() at the end of a visit, or of one that began before the last ended.
LEMMA HideTip ==
  ASSUME TipInv, TtHide, ttTimers' = {}, UNCHANGED ttState,
         ttOver' \in BOOLEAN, ttOver' => ttCrossed
  PROVE  TipInv'
  <1>1. Counts' /\ (ttClass => Removing')
    <2>1. ttRemovals \in Nat /\ ttHooks \in Nat /\ ttHooks <= ttRemovals
      BY DEF TipInv, Counts
    <2>2. CASE ttClass
      <3>1. ttHooks' = ttHooks + 1 /\ ttRemovals' = ttRemovals + 1
        BY <2>2 DEF TtHide
      <3>. QED
        BY <2>1, <3>1 DEF Counts, Removing
    <2>3. CASE ~ttClass
      <3>1. ttHooks' = ttHooks /\ ttRemovals' = ttRemovals
        BY <2>3 DEF TtHide
      <3>. QED
        BY <2>1, <2>3, <3>1 DEF Counts
    <2>. QED
      BY <2>2, <2>3
  <1>2. /\ ttCrossed' = ttCrossed /\ ttClass' = ttClass
        /\ ttClass => ttDom' = ttDom /\ (ttFading' => ttDom)
        /\ ~ttClass => ttDom' = FALSE /\ ttFading' = ttFading
    BY DEF TtHide
  <1>3. Truths'
    BY <1>2 DEF TipInv, Truths
  <1>4. Delays'
    BY DEF Delays
  <1>5. Leaving' /\ Staying'
    BY <1>1, <1>2 DEF TipInv, Leaving, Staying
  <1>. QED
    BY <1>1, <1>3, <1>4, <1>5 DEF TipInv

LEMMA TipStep ==
  ASSUME TipInv, [TtNext]_ttVars
  PROVE  TipInv'
  <1>. USE DEF TipInv
  <1>1. CASE TtEnter
    <2>1. CASE "in" \in ttDelay
      <3>1. /\ ttOver' = TRUE /\ ttTimers' = {"in"} /\ ttState' = "in"
            /\ UNCHANGED <<ttDom, ttClass, ttFading, ttHooks, ttRemovals, ttCrossed>>
        BY <1>1, <2>1 DEF TtEnter, UnchangedTip
      <3>. QED
        BY <3>1 DEF Truths, Counts, Delays, Leaving, Staying
    <2>2. CASE "in" \notin ttDelay
      <3>1. ~ttOver /\ TtShow /\ ttOver' = TRUE /\ UNCHANGED <<ttTimers, ttState>>
        BY <1>1, <2>2 DEF TtEnter
      <3>2. ttTimers \subseteq {"out"}
        BY <3>1 DEF Delays
      <3>. QED
        BY <3>1, <3>2, ShowTip
    <2>. QED
      BY <2>1, <2>2
  <1>2. CASE TtLeave
    <2>1. CASE "out" \in ttDelay
      <3>1. /\ ttOver' = FALSE /\ ttTimers' = {"out"} /\ ttState' = "out"
            /\ UNCHANGED <<ttDom, ttClass, ttFading, ttHooks, ttRemovals, ttCrossed>>
        BY <1>2, <2>1 DEF TtLeave, TtCleared, UnchangedTip
      <3>. QED
        BY <3>1 DEF Truths, Counts, Delays, Leaving, Staying
    <2>2. CASE "out" \notin ttDelay
      <3>1. ttOver' = FALSE /\ ttTimers' = {} /\ TtHide /\ UNCHANGED ttState
        BY <1>2, <2>2 DEF TtLeave, TtCleared
      <3>. QED
        BY <3>1, HideTip
    <2>. QED
      BY <2>1, <2>2
  <1>3. CASE TtDelayed("in")
    <2>1. /\ ttOver /\ ttState = "in" /\ ttTimers = {"in"} /\ ttTimers' = {}
          /\ TtShow /\ UNCHANGED <<ttOver, ttState>>
      BY <1>3 DEF TtDelayed, Delays
    <2>2. ttOver' = TRUE
      BY <2>1 DEF Truths
    <2>. QED
      BY <2>1, <2>2, ShowTip
  <1>4. CASE TtDelayed("out")
    <2>1. /\ "out" \in ttTimers /\ ttState = "out" /\ ttTimers' = ttTimers \ {"out"}
          /\ TtHide /\ UNCHANGED <<ttOver, ttState>>
      BY <1>4 DEF TtDelayed, Delays
    <2>2. "in" \notin ttTimers /\ ttTimers' = {}
      BY <2>1 DEF Delays
    <2>3. ttOver' \in BOOLEAN /\ (ttOver' => ttCrossed)
      BY <2>1, <2>2 DEF Truths, Staying
    <2>. QED
      BY <2>1, <2>2, <2>3, HideTip
  <1>5. CASE TtTransitionEnd
    <2>1. Counts' /\ (Removing' => Removing) /\ (ttHooks # 0 => Removing) /\ (ttHooks = 0 => (Removing <=> Removing'))
      BY <1>5 DEF TtTransitionEnd, Counts, Removing
    <2>2. /\ ttDom' = (ttHooks = 0) /\ ttFading' = FALSE /\ ttFading
          /\ UNCHANGED <<ttOver, ttState, ttTimers, ttClass, ttCrossed>>
      BY <1>5 DEF TtTransitionEnd
    <2>3. Truths' /\ Delays'
      BY <2>2 DEF Truths, Delays
    <2>4. Leaving' /\ Staying'
      BY <2>1, <2>2 DEF Leaving, Staying
    <2>. QED
      BY <2>1, <2>3, <2>4
  <1>6. CASE TtRemove
    <2>1. Counts' /\ Removing
      BY <1>6 DEF TtRemove, Counts, Removing
    <2>2. /\ ttDom' = FALSE /\ ttFading' = FALSE
          /\ UNCHANGED <<ttOver, ttState, ttTimers, ttClass, ttCrossed>>
      BY <1>6 DEF TtRemove
    <2>3. Truths' /\ Delays'
      BY <2>2 DEF Truths, Delays
    <2>4. Leaving' /\ Staying'
      BY <2>1, <2>2 DEF Leaving, Staying
    <2>. QED
      BY <2>1, <2>3, <2>4
  <1>7. CASE UNCHANGED ttVars
    BY <1>7 DEF ttVars, Truths, Counts, Delays, Leaving, Staying, Removing
  <1>. QED
    BY <1>1, <1>2, <1>3, <1>4, <1>5, <1>6, <1>7 DEF TtNext

LEMMA TipTypesInitial == TtInit => TtTypeOK
  <1>. SUFFICES ASSUME NEW delay \in SUBSET {"in", "out"}, NEW fade \in BOOLEAN, TtStart(delay, fade)
                PROVE  TtTypeOK
    BY DEF TtInit
  <1>1. 0 \in 0..MaxFades /\ 0 \in 0..0
    BY FadesAssumption
  <1>2. /\ ttFade \in BOOLEAN /\ ttOver \in BOOLEAN /\ ttDom \in BOOLEAN
        /\ ttClass \in BOOLEAN /\ ttFading \in BOOLEAN /\ ttCrossed \in BOOLEAN
    BY DEF TtStart
  <1>3. ttDelay = delay /\ ttTimers = {} /\ ttState = "out" /\ ttHooks = 0 /\ ttRemovals = 0
    BY DEF TtStart
  <1>. QED
    BY <1>1, <1>2, <1>3 DEF TtTypeOK

LEMMA TipTypesStep ==
  ASSUME TtTypeOK, [TtNext]_ttVars
  PROVE  TtTypeOK'
  <1>. DEFINE Flags == {ttFade, ttOver, ttDom, ttClass, ttFading, ttCrossed} \subseteq BOOLEAN
              Waits == /\ ttDelay \subseteq {"in", "out"} /\ ttTimers \subseteq {"in", "out"}
                       /\ ttState \in {"in", "out"}
              Removals == ttRemovals \in 0..MaxFades /\ ttHooks \in 0..ttRemovals
  <1>1. TtTypeOK <=> Flags /\ Waits /\ Removals
    BY DEF TtTypeOK
  <1>2. ttRemovals \in Nat /\ ttHooks \in Nat /\ ttHooks <= ttRemovals /\ ttRemovals <= MaxFades
    BY FadesAssumption DEF TtTypeOK
  <1>3. Removals'
    <2>1. UNCHANGED <<ttHooks, ttRemovals>> => Removals'
      BY <1>1
    <2>2. ASSUME ttRemovals < MaxFades, TtHide PROVE Removals'
      <3>1. \/ ttHooks' = ttHooks + 1 /\ ttRemovals' = ttRemovals + 1
            \/ ttHooks' = ttHooks /\ ttRemovals' = ttRemovals
        BY <2>2 DEF TtHide
      <3>. QED
        BY <1>2, <2>2, <3>1, FadesAssumption
    <2>3. TtEnter => UNCHANGED <<ttHooks, ttRemovals>>
      BY DEF TtEnter, TtShow, UnchangedTip
    <2>4. TtLeave => UNCHANGED <<ttHooks, ttRemovals>> \/ (ttRemovals < MaxFades /\ TtHide)
      BY DEF TtLeave, UnchangedTip
    <2>5. ASSUME NEW k \in {"in", "out"}, TtDelayed(k)
          PROVE  UNCHANGED <<ttHooks, ttRemovals>> \/ (ttRemovals < MaxFades /\ TtHide)
      BY <2>5 DEF TtDelayed, TtShow, UnchangedTip
    <2>6. TtTransitionEnd => Removals'
      BY <1>2, FadesAssumption DEF TtTransitionEnd
    <2>7. TtRemove => Removals'
      BY <1>2, FadesAssumption DEF TtRemove
    <2>8. UNCHANGED ttVars => UNCHANGED <<ttHooks, ttRemovals>>
      BY DEF ttVars
    <2>. HIDE DEF Removals
    <2>. QED
      BY <2>1, <2>2, <2>3, <2>4, <2>5, <2>6, <2>7, <2>8 DEF TtNext
  <1>4. Waits'
    BY <1>1 DEF TtNext, TtEnter, TtLeave, TtDelayed, TtTransitionEnd, TtRemove, TtCleared, ttVars
  <1>5. Flags'
    <2>1. Flags
      BY <1>1
    <2>2. ttFade' = ttFade /\ ttFade \in BOOLEAN
      BY <2>1 DEF TtNext, TtEnter, TtLeave, TtDelayed, TtTransitionEnd, TtRemove, ttVars
    <2>3. ttOver' \in BOOLEAN
      BY <2>1 DEF TtNext, TtEnter, TtLeave, TtDelayed, TtTransitionEnd, TtRemove, ttVars
    <2>4. TtShow =>
            ttDom' \in BOOLEAN /\ ttClass' \in BOOLEAN /\ ttFading' \in BOOLEAN /\ ttCrossed' \in BOOLEAN
      BY <2>2 DEF TtShow
    <2>5. TtHide =>
            ttDom' \in BOOLEAN /\ ttClass' \in BOOLEAN /\ ttFading' \in BOOLEAN /\ ttCrossed' \in BOOLEAN
      BY <2>1 DEF TtHide
    <2>6. UnchangedTip \/ UNCHANGED ttVars =>
            ttDom' \in BOOLEAN /\ ttClass' \in BOOLEAN /\ ttFading' \in BOOLEAN /\ ttCrossed' \in BOOLEAN
      BY <2>1 DEF UnchangedTip, ttVars
    <2>7. TtTransitionEnd \/ TtRemove =>
            ttDom' \in BOOLEAN /\ ttClass' \in BOOLEAN /\ ttFading' \in BOOLEAN /\ ttCrossed' \in BOOLEAN
      BY <2>1 DEF TtTransitionEnd, TtRemove
    <2>8. ttDom' \in BOOLEAN /\ ttClass' \in BOOLEAN /\ ttFading' \in BOOLEAN /\ ttCrossed' \in BOOLEAN
      <3>1. TtShow \/ TtHide \/ UnchangedTip \/ TtTransitionEnd \/ TtRemove \/ UNCHANGED ttVars
        BY DEF TtNext, TtEnter, TtLeave, TtDelayed
      <3>. QED
        BY <2>4, <2>5, <2>6, <2>7, <3>1
    <2>. QED
      BY <2>2, <2>3, <2>8
  <1>. QED
    BY <1>1, <1>3, <1>4, <1>5 DEF TtTypeOK

\* A tooltip at rest is where the pointer is, for any pattern of delays and
\* fades, unless it was shown during a hide (bootstrap.js:805-914).
THEOREM TipFollowsAlways == TtSpec => []TipFollows
  <1>1. TipInv => TipFollows
    <2>. SUFFICES ASSUME TipInv, ttTimers = {}, ttRemovals = 0
                  PROVE  (ttDom => ttOver) /\ (ttCrossed \/ ttDom = ttOver)
      BY DEF TipFollows
    <2>1. ~Removing
      BY DEF Removing
    <2>. QED
      BY <2>1 DEF TipInv, Truths, Leaving, Staying
  <1>. QED
    BY <1>1, TipInitial, TipStep, PTL DEF TtSpec

\* hide() never has more handlers than timeouts.
THEOREM TipTypesAlways == TtSpec => []TtTypeOK
  <1>1. TtTypeOK /\ [TtNext]_ttVars => TtTypeOK'
    BY TipTypesStep
  <1>. QED
    BY <1>1, TipTypesInitial, PTL DEF TtSpec

-----------------------------------------------------------------------------
(* The modal dialog.                                                       *)

\* The dialog between calls that do not hurry it.
Closed ==
  /\ moShown = FALSE /\ moVisible = FALSE /\ moIn = FALSE /\ ~moFading
  /\ moHooks = 0 /\ moTimers = 0
  /\ moDom = {} /\ moRef = {} /\ moCallback = {} /\ moRemoving = {} /\ moMoving = {}

\* The backdrop b fades in.
Opening(b) ==
  /\ moFade /\ moShown = TRUE /\ moVisible = FALSE /\ moIn = FALSE /\ ~moFading
  /\ moHooks = 0 /\ moTimers = 0
  /\ moDom = {b} /\ moRef = {b} /\ moCallback = {b} /\ moRemoving = {} /\ moMoving = {b}

\* The dialog fades in, or has.
Opened(b) ==
  /\ moShown = TRUE /\ moVisible = TRUE /\ moIn = TRUE /\ (moFading => moFade)
  /\ moHooks = 0 /\ moTimers = 0
  /\ moDom = {b} /\ moRef = {b} /\ moCallback = {} /\ moRemoving = {} /\ moMoving = {}

\* The dialog fades out; the end of its fade may be lost, its timeout not.
Hiding(b) ==
  /\ moFade /\ moShown = FALSE /\ moVisible = TRUE /\ moIn = FALSE
  /\ moHooks = 1 /\ moTimers = 1
  /\ moDom = {b} /\ moRef = {b} /\ moCallback = {} /\ moRemoving = {} /\ moMoving = {}

\* The backdrop fades out.
Closing(b) ==
  /\ moFade /\ moShown = FALSE /\ moVisible = FALSE /\ moIn = FALSE /\ ~moFading
  /\ moHooks = 0 /\ moTimers = 0
  /\ moDom = {b} /\ moRef = {b} /\ moCallback = {} /\ moRemoving = {b} /\ moMoving = {b}

Phase == Closed \/ \E b : Opening(b) \/ Opened(b) \/ Hiding(b) \/ Closing(b)

ModalInv == moHurry \in Nat /\ (moHurry = 0 => Phase)

LEMMA ModalInitial == MoInit => ModalInv
  BY DEF MoInit, MoStart, ModalInv, Phase, Closed

LEMMA OneBackdrop ==
  ASSUME NEW callback, MoNewBackdrops(1, callback), moDom = {}
  PROVE  \E b : /\ moDom' = {b} /\ moRef' = {b} /\ moMoving' = moMoving \cup {b}
                /\ moCallback' = moCallback \cup (IF callback THEN {b} ELSE {})
                /\ moRemoving' = moRemoving
  <1>1. PICK bs \in SUBSET Backdrops :
          /\ Cardinality(bs) = 1 /\ moDom' = moDom \cup bs /\ moRef' \in {{b} : b \in bs}
          /\ moCallback' = moCallback \cup (IF callback THEN bs ELSE {})
          /\ moMoving' = moMoving \cup bs /\ moRemoving' = moRemoving
    BY DEF MoNewBackdrops, kSubset
  <1>2. IsFiniteSet(bs)
    BY ModalAssumption, FS_Subset
  <1>3. PICK b : bs = {b}
    BY <1>1, <1>2, FS_Singleton
  <1>4. moRef' = {b}
    BY <1>1, <1>3
  <1>. QED
    BY <1>1, <1>3, <1>4

LEMMA CallInPeace ==
  ASSUME moHurry \in Nat, MoCall
  PROVE  moHurry' \in Nat /\ (moHurry' = 0 => moHurry = 0 /\ MoCalm)
  BY DEF MoCall

LEMMA ModalStep ==
  ASSUME ModalInv, [MoNext]_moVars
  PROVE  ModalInv'
  <1>. USE DEF ModalInv
  <1>1. ASSUME UNCHANGED moHurry, moHurry = 0 => Phase'
        PROVE  ModalInv'
    BY <1>1
  <1>2. CASE MoShow
    <2>1. SUFFICES ASSUME moHurry' = 0 PROVE Phase'
      BY <1>2, CallInPeace DEF MoShow
    <2>2. Phase /\ MoCalm
      BY <1>2, <2>1, CallInPeace DEF MoShow
    <2>3. Closed
      BY <1>2, <2>2 DEF MoShow, MoCalm, Phase, Opening, Opened, Hiding, Closing
    <2>4. PICK b : /\ moDom' = {b} /\ moRef' = {b} /\ moMoving' = moMoving \cup {b}
                   /\ moCallback' = moCallback \cup {b} /\ moRemoving' = moRemoving
      BY <1>2, <2>3, OneBackdrop DEF MoShow, Closed
    <2>5. Opening(b)'
      BY <1>2, <2>3, <2>4 DEF MoShow, Closed, Opening
    <2>. QED
      BY <2>5 DEF Phase
  <1>3. CASE MoHide
    <2>1. SUFFICES ASSUME moHurry' = 0 PROVE Phase'
      BY <1>3, CallInPeace DEF MoHide
    <2>2. Phase /\ MoCalm
      BY <1>3, <2>1, CallInPeace DEF MoHide
    <2>3. PICK b : Opened(b)
      BY <1>3, <2>2 DEF MoHide, MoCalm, Phase, Closed, Opening, Hiding, Closing
    <2>4. Hiding(b)'
      BY <1>3, <2>3 DEF MoHide, Opened, Hiding
    <2>. QED
      BY <2>4 DEF Phase
  <1>4. CASE MoShowAtOnce
    <2>1. SUFFICES ASSUME moHurry = 0 PROVE Phase'
      BY <1>1, <1>4 DEF MoShowAtOnce
    <2>2. Closed
      BY <1>4, <2>1 DEF MoShowAtOnce, Phase, Opening, Opened, Hiding, Closing
    <2>3. PICK b : moDom' = {b} /\ moRef' = {b}
      BY <1>4 DEF MoShowAtOnce
    <2>4. Opened(b)'
      BY <1>4, <2>2, <2>3 DEF MoShowAtOnce, Closed, Opened
    <2>. QED
      BY <2>4 DEF Phase
  <1>5. CASE MoHideAtOnce
    <2>1. SUFFICES ASSUME moHurry = 0 PROVE Phase'
      BY <1>1, <1>5 DEF MoHideAtOnce
    <2>2. PICK b : Opened(b)
      BY <1>5, <2>1 DEF MoHideAtOnce, Phase, Closed, Opening, Hiding, Closing
    <2>3. Closed'
      BY <1>5, <2>2 DEF MoHideAtOnce, Closed, Opened
    <2>. QED
      BY <2>3 DEF Phase
  <1>6. CASE MoElementEnd
    <2>1. SUFFICES ASSUME moHurry = 0 PROVE Phase'
      BY <1>1, <1>6 DEF MoElementEnd
    <2>2. PICK b : Opened(b) \/ Hiding(b)
      BY <1>6, <2>1 DEF MoElementEnd, Phase, Closed, Opening, Closing
    <2>3. Opened(b) => Opened(b)'
      BY <1>6 DEF MoElementEnd, Opened
    <2>4. Hiding(b) => Closing(b)'
      BY <1>6 DEF MoElementEnd, MoHideModal, Hiding, Closing
    <2>. QED
      BY <2>2, <2>3, <2>4 DEF Phase
  <1>7. CASE MoElementLost
    <2>1. SUFFICES ASSUME moHurry = 0 PROVE Phase'
      BY <1>1, <1>7 DEF MoElementLost
    <2>2. PICK b : Opened(b) \/ Hiding(b)
      BY <1>7, <2>1 DEF MoElementLost, Phase, Closed, Opening, Closing
    <2>3. Opened(b)' \/ Hiding(b)'
      BY <1>7, <2>2 DEF MoElementLost, Opened, Hiding
    <2>. QED
      BY <2>3 DEF Phase
  <1>8. CASE MoTimer
    <2>1. SUFFICES ASSUME moHurry = 0 PROVE Phase'
      BY <1>1, <1>8 DEF MoTimer
    <2>2. PICK b : Hiding(b)
      BY <1>8, <2>1 DEF MoTimer, Phase, Closed, Opening, Opened, Closing
    <2>3. Closing(b)'
      BY <1>8, <2>2 DEF MoTimer, MoHideModal, Hiding, Closing
    <2>. QED
      BY <2>3 DEF Phase
  <1>9. ASSUME NEW b \in Backdrops, MoBackdropEnd(b) PROVE ModalInv'
    <2>1. SUFFICES ASSUME moHurry = 0 PROVE Phase'
      BY <1>1, <1>9 DEF MoBackdropEnd
    <2>2. Opening(b) \/ Closing(b)
      BY <1>9, <2>1 DEF MoBackdropEnd, Phase, Closed, Opening, Opened, Hiding, Closing
    <2>3. Opening(b) => Opened(b)'
      BY <1>9 DEF MoBackdropEnd, Opening, Opened
    <2>4. Closing(b) => Closed'
      BY <1>9 DEF MoBackdropEnd, Closing, Closed
    <2>. QED
      BY <2>2, <2>3, <2>4 DEF Phase
  <1>10. CASE UNCHANGED moVars
    BY <1>10 DEF moVars, Phase, Closed, Opening, Opened, Hiding, Closing
  <1>. QED
    BY <1>2, <1>3, <1>4, <1>5, <1>6, <1>7, <1>8, <1>9, <1>10 DEF MoNext, MoToggle

\* Without transitions nothing is ever under way.
ModalTypes ==
  /\ MoTypeOK /\ moTimers \in Nat
  /\ ~moFade => moMoving = {} /\ ~moFading /\ moTimers = 0

LEMMA ModalTypesInitial == MoInit => ModalTypes
  <1>. SUFFICES ASSUME NEW fade \in BOOLEAN, MoStart(fade) PROVE ModalTypes
    BY DEF MoInit
  <1>1. /\ moFade \in BOOLEAN /\ moShown \in BOOLEAN /\ moVisible \in BOOLEAN
        /\ moIn \in BOOLEAN /\ moFading \in BOOLEAN
    BY DEF MoStart
  <1>2. moTimers \in Nat /\ moHooks \in 0..moTimers /\ moHurry \in 0..MaxHurry
    BY ModalAssumption DEF MoStart
  <1>3. /\ moCallback = {} /\ moRemoving = {} /\ moMoving = {} /\ moRef = {} /\ moDom = {}
        /\ ~moFading /\ moTimers = 0
    BY DEF MoStart
  <1>. QED
    BY <1>1, <1>2, <1>3 DEF ModalTypes, MoTypeOK

LEMMA ModalTypesStep ==
  ASSUME ModalTypes, [MoNext]_moVars
  PROVE  ModalTypes'
  <1>. DEFINE Flags == {moFade, moShown, moVisible, moIn, moFading} \subseteq BOOLEAN
              Tallies == moTimers \in Nat /\ moHooks \in 0..moTimers /\ moHurry \in 0..MaxHurry
              Backs == /\ moCallback \cup moRemoving \subseteq moMoving
                       /\ moRef \cup moMoving \subseteq moDom /\ moDom \subseteq Backdrops
              Quiet == ~moFade => moMoving = {} /\ ~moFading /\ moTimers = 0
  <1>1. ModalTypes <=> Flags /\ Tallies /\ Backs /\ Quiet
    BY DEF ModalTypes, MoTypeOK
  <1>2. MoCall => moHurry' \in 0..MaxHurry
    BY <1>1, ModalAssumption DEF MoCall
  <1>3. ASSUME NEW n, NEW callback, MoNewBackdrops(n, callback), Backs PROVE Backs'
    <2>1. PICK bs \in SUBSET (Backdrops \ moDom) :
            /\ moDom' = moDom \cup bs /\ moRef' \in {{b} : b \in bs}
            /\ moCallback' = moCallback \cup (IF callback THEN bs ELSE {})
            /\ moMoving' = moMoving \cup bs /\ moRemoving' = moRemoving
      BY <1>3 DEF MoNewBackdrops, kSubset
    <2>. QED
      BY <1>3, <2>1
  <1>4. ASSUME NEW n, MoHideModal(n), Backs PROVE Backs' /\ moVisible' = FALSE /\ moFading' = FALSE
    <2>1. CASE moShown
      BY <1>3, <1>4, <2>1 DEF MoHideModal
    <2>2. CASE ~moShown
      BY <1>4, <2>2 DEF MoHideModal
    <2>. QED
      BY <2>1, <2>2
  <1>5. CASE MoShow
    <2>1. Backs'
      BY <1>1, <1>3, <1>5 DEF MoShow
    <2>2. Flags' /\ Tallies' /\ Quiet'
      BY <1>1, <1>2, <1>5 DEF MoShow
    <2>. QED
      BY <1>1, <2>1, <2>2 DEF ModalTypes, MoTypeOK
  <1>6. CASE MoHide
    <2>1. Tallies'
      BY <1>1, <1>2, <1>6 DEF MoHide
    <2>2. Flags' /\ Backs' /\ Quiet'
      BY <1>1, <1>6 DEF MoHide
    <2>. QED
      BY <2>1, <2>2 DEF ModalTypes, MoTypeOK
  <1>7. CASE MoShowAtOnce
    <2>1. Backs'
      BY <1>1, <1>7 DEF MoShowAtOnce
    <2>2. Flags' /\ Tallies' /\ Quiet'
      BY <1>1, <1>7 DEF MoShowAtOnce
    <2>. QED
      BY <2>1, <2>2 DEF ModalTypes, MoTypeOK
  <1>8. CASE MoHideAtOnce
    <2>1. Backs'
      BY <1>1, <1>8 DEF MoHideAtOnce
    <2>2. Flags' /\ Tallies' /\ Quiet'
      BY <1>1, <1>8 DEF MoHideAtOnce
    <2>. QED
      BY <2>1, <2>2 DEF ModalTypes, MoTypeOK
  <1>9. CASE MoElementEnd
    <2>1. moFade
      BY <1>1, <1>9 DEF MoElementEnd
    <2>2. Tallies'
      BY <1>1, <1>9 DEF MoElementEnd
    <2>3. Backs' /\ moFading' = FALSE /\ moVisible' \in BOOLEAN
      <3>1. CASE moHooks > 0
        BY <1>1, <1>4, <1>9, <3>1 DEF MoElementEnd
      <3>2. CASE ~(moHooks > 0)
        BY <1>1, <1>9, <3>2 DEF MoElementEnd
      <3>. QED
        BY <3>1, <3>2
    <2>4. Flags' /\ Quiet'
      BY <1>1, <1>9, <2>1, <2>3 DEF MoElementEnd
    <2>. QED
      BY <2>2, <2>3, <2>4 DEF ModalTypes, MoTypeOK
  <1>10. CASE MoElementLost
    <2>1. Flags' /\ Tallies' /\ Backs' /\ Quiet'
      BY <1>1, <1>10 DEF MoElementLost
    <2>. QED
      BY <2>1 DEF ModalTypes, MoTypeOK
  <1>11. CASE MoTimer
    <2>1. moFade
      BY <1>1, <1>11 DEF MoTimer
    <2>2. Tallies'
      BY <1>1, <1>11 DEF MoTimer
    <2>3. Backs' /\ moFading' = FALSE /\ moVisible' = FALSE
      BY <1>1, <1>4, <1>11 DEF MoTimer
    <2>4. Flags' /\ Quiet'
      BY <1>1, <1>11, <2>1, <2>3 DEF MoTimer
    <2>. QED
      BY <2>2, <2>3, <2>4 DEF ModalTypes, MoTypeOK
  <1>12. ASSUME NEW b \in Backdrops, MoBackdropEnd(b) PROVE ModalTypes'
    <2>1. moFade /\ moFade' = moFade
      BY <1>1, <1>12 DEF MoBackdropEnd
    <2>2. Backs'
      BY <1>1, <1>12 DEF MoBackdropEnd
    <2>3. Flags'
      BY <1>1, <1>12 DEF MoBackdropEnd
    <2>4. Tallies' /\ Quiet'
      BY <1>1, <1>12, <2>1 DEF MoBackdropEnd
    <2>. QED
      BY <2>2, <2>3, <2>4 DEF ModalTypes, MoTypeOK
  <1>13. CASE UNCHANGED moVars
    BY <1>13 DEF moVars, ModalTypes, MoTypeOK
  <1>. QED
    BY <1>5, <1>6, <1>7, <1>8, <1>9, <1>10, <1>11, <1>12, <1>13 DEF MoNext, MoToggle

\* Called between fades only, the dialog rests open over its one backdrop, or
\* closed without any, although the end of a fade may be lost (bootstrap.js:108-249).
THEOREM ModalSettlesAlways == MoSpec => []ModalSettles
  <1>1. ModalInv => ModalSettles
    <2>. SUFFICES ASSUME ModalInv, moHurry = 0, MoCalm
                  PROVE  /\ moVisible = moShown /\ moIn = moShown
                         /\ moDom = moRef /\ Cardinality(moRef) = IF moShown THEN 1 ELSE 0
      BY DEF ModalSettles
    <2>1. Cardinality({}) = 0 /\ \A b : Cardinality({b}) = 1
      BY FS_EmptySet, FS_Singleton
    <2>2. Closed \/ \E b : Opened(b)
      BY DEF ModalInv, MoCalm, Phase, Opening, Hiding, Closing
    <2>. QED
      BY <2>1, <2>2 DEF Closed, Opened
  <1>. QED
    BY <1>1, ModalInitial, ModalStep, PTL DEF MoSpec

\* However it is hurried, the dialog has no more handlers of its fade's end than
\* timeouts, and only backdrops of the document fade (bootstrap.js:108-249).
THEOREM ModalTypesAlways == MoSpec => []MoTypeOK
  <1>1. ModalTypes /\ [MoNext]_moVars => ModalTypes'
    BY ModalTypesStep
  <1>2. ModalTypes => MoTypeOK
    BY DEF ModalTypes
  <1>. QED
    BY <1>1, <1>2, ModalTypesInitial, PTL DEF MoSpec

=============================================================================

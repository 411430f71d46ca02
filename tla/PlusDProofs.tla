----------------------------- MODULE PlusDProofs -----------------------------
(***************************************************************************)
(* The controller and the drives of the +D keep their invariants for any   *)
(* number of drives, sectors, steps and revolutions.                       *)
(***************************************************************************)
EXTENDS PlusD, TLAPS

-----------------------------------------------------------------------------
(* The drive *)

Settled(d) == d.loaded /\ d.ready # d.motoron => d.motor_event
Held(d) == d.motoron => d.loaded

\* What any operation of the controller makes of a drive.
Kept(d, e) ==
  /\ e \in Drive
  /\ Settled(d) => Settled(e)
  /\ Held(d) => Held(e)

LEMMA MotoronKeeps ==
  ASSUME NEW d \in Drive, NEW on \in BOOLEAN
  PROVE  /\ Kept(d, fdd_motoron(d, on))
         /\ Held(d) => ~fdd_motoron(d, FALSE).motoron
BY DEF Kept, Settled, Held, Drive, fdd_motoron

-----------------------------------------------------------------------------
(* The controller *)

\* Commands wait for their own end: the strengthening of Executing.
Waits(f) ==
  /\ f.busy <=> f.state # "NONE"
  /\ f.datarq => /\ f.state \in DataStates
                 /\ f.timeout_event
                 /\ f.state = "READID" => ~f.read_id
                 /\ f.data_offset < SectorLength
  /\ f.busy => \/ f.fdc_event
               \/ f.datarq
               \/ f.read_id /\ f.state \in {"SEEK", "SEEK_DELAY", "READTRACK", "WRITETRACK"}
               \/ f.never

Good(f) == f \in Fdc /\ Waits(f)

\* What a handler called for f and d may leave: a command that has ended has
\* raised INTRQ.
Fine(o, d) ==
  /\ Good(o.fdc)
  /\ Kept(d, o.drive)
  /\ o.fdc.busy \/ o.fdc.intrq

\* A command under way that does not ask for data.
Underway(f) == f \in Fdc /\ f.busy /\ f.state # "NONE" /\ ~f.datarq

LEMMA StoppedTyped ==
  ASSUME NEW f \in Fdc
  PROVE  /\ Stopped(f) \in Fdc
         /\ Stopped(f).state = "NONE" /\ Stopped(f).busy = FALSE
         /\ Stopped(f).datarq = FALSE
<1>1. PICK b \in BOOLEAN : b = (f.id_mark /\ f.read_id)
  OBVIOUS
<1>2. Stopped(f) = [f EXCEPT !.state = "NONE", !.busy = FALSE, !.datarq = FALSE,
                             !.id_mark = b, !.rev = 0, !.flag = FALSE, !.steps = 0,
                             !.sectors = 0, !.data_offset = 0]
  BY <1>1 DEF Stopped
<1>3. "NONE" \in States /\ 0 \in -1 .. REV /\ 0 \in 0 .. MaxSteps
      /\ 0 \in 0 .. MaxSectors /\ 0 \in 0 .. SectorLength
  BY FdcAssumption DEF States
<1> QED BY <1>2, <1>3, FdcAssumption DEF Fdc

LEMMA IntrqTyped ==
  ASSUME NEW f \in Fdc
  PROVE  /\ wd_fdc_set_intrq(f) \in Fdc
         /\ wd_fdc_set_intrq(f).intrq = TRUE
         /\ \A g \in {wd_fdc_set_intrq(f)} :
              /\ g.state = f.state /\ g.busy = f.busy /\ g.datarq = f.datarq
              /\ g.fdc_event = f.fdc_event /\ g.timeout_event = f.timeout_event
              /\ g.data_offset = f.data_offset /\ g.read_id = f.read_id
              /\ g.never = f.never
<1>1. PICK b \in BOOLEAN : b = (f.motor_off_event \/ f.motoron)
  OBVIOUS
<1>2. wd_fdc_set_intrq(f) = [f EXCEPT !.intrq = TRUE, !.motor_off_event = b]
  BY <1>1 DEF wd_fdc_set_intrq
<1> QED BY <1>2 DEF Fdc

LEMMA CompleteGood ==
  ASSUME NEW f \in Fdc
  PROVE  Good(Complete(f)) /\ Complete(f).intrq /\ ~Complete(f).busy
<1> DEFINE g == Stopped(f)
<1>1. g \in Fdc /\ g.state = "NONE" /\ g.busy = FALSE /\ g.datarq = FALSE
  BY StoppedTyped
<1>2. Complete(f) = wd_fdc_set_intrq(g)
  BY DEF Complete
<1> HIDE DEF g
<1> QED BY <1>1, <1>2, IntrqTyped DEF Good, Waits

LEMMA KeptSame == ASSUME NEW d \in Drive PROVE Kept(d, d)
BY DEF Kept

LEMMA TransferGood ==
  ASSUME NEW f, Underway(f), f.state \in DataStates,
         f.state = "READID" => ~f.read_id
  PROVE  Good(StartTransfer(f)) /\ StartTransfer(f).busy
<1> DEFINE g == StartTransfer(f)
<1>1. /\ g \in Fdc /\ g.state = f.state /\ g.busy = f.busy /\ g.datarq = TRUE
      /\ g.timeout_event = TRUE /\ g.data_offset = 0 /\ g.read_id = f.read_id
  <2>1. f \in Fdc /\ 0 \in 0 .. SectorLength
    BY FdcAssumption DEF Underway
  <2>2. g = [f EXCEPT !.datarq = TRUE, !.data_offset = 0, !.timeout_event = TRUE]
    BY DEF StartTransfer
  <2> QED BY <2>1, <2>2 DEF Fdc
<1>2. 0 < SectorLength /\ f.busy /\ f.state # "NONE"
  BY FdcAssumption DEF Underway
<1> HIDE DEF g
<1>3. Good(g) /\ g.busy
  BY <1>1, <1>2 DEF Good, Waits
<1> QED BY <1>3 DEF g

\* A search changes nothing but what it has found and how far it has come.
LEMMA SearchFinds ==
  ASSUME NEW f, Underway(f), NEW d \in Drive, NEW exists \in BOOLEAN,
         NEW s \in Search(f, d, exists)
  PROVE  /\ Underway(s.fdc)
         /\ s.fdc.state = f.state
         /\ s.result \in {"found", "none", "wait", "never"}
         /\ s.result = "wait" => s.fdc.fdc_event
         /\ s.result = "never" => s.fdc.never
<1> DEFINE At(f1, result) == [fdc |-> f1, result |-> result]
           Wait(f1) == [f1 EXCEPT !.fdc_event = TRUE]
           Found(r) == [f EXCEPT !.id_mark = TRUE, !.rev = r]
           Gone(r) == [f EXCEPT !.rev = r]
           Endless(f1) == [f1 EXCEPT !.never = TRUE]
<1>1. \/ s = At(f, "found")
      \/ s = At(f, "none")
      \/ s = At(Wait(f), "wait")
      \/ s = At(Endless(f), "never")
      \/ \E r \in 0 .. f.rev : s = At(Found(r), "found") \/ s = At(Wait(Found(r)), "wait")
      \/ \E r \in 0 .. f.rev - 1 : s = At(Wait(Gone(r)), "wait")
      \/ s = At(Wait(Gone(-1)), "wait")
      \/ s = At(Gone(0), "none")
      \/ s = At(Endless(Gone(-1)), "never")
  BY DEF Search, Missed
<1>2. f.rev \in -1 .. REV /\ f \in Fdc /\ f.busy /\ f.state # "NONE" /\ ~f.datarq
  BY DEF Underway, Fdc
<1>3. ASSUME NEW g, Underway(g)
      PROVE  /\ Underway(Wait(g)) /\ Wait(g).state = g.state /\ Wait(g).fdc_event
             /\ Underway(Endless(g)) /\ Endless(g).state = g.state /\ Endless(g).never
  BY <1>3 DEF Underway, Fdc
<1>4. ASSUME NEW r \in -1 .. REV
      PROVE  /\ Underway(Found(r)) /\ Found(r).state = f.state
             /\ Underway(Gone(r)) /\ Gone(r).state = f.state
  BY <1>2, <1>4 DEF Underway, Fdc
<1>5. /\ -1 \in -1 .. REV /\ 0 \in -1 .. REV
      /\ \A r \in 0 .. f.rev : r \in -1 .. REV
      /\ \A r \in 0 .. f.rev - 1 : r \in -1 .. REV
  BY <1>2, FdcAssumption
<1> HIDE DEF Wait, Found, Gone, Endless
<1> QED BY <1>1, <1>3, <1>4, <1>5

LEMMA UnderwayGood ==
  ASSUME NEW f, Underway(f), f.fdc_event \/ f.never
  PROVE  Good(f) /\ f.busy
BY DEF Underway, Good, Waits

\* Registers that do not matter for being under way.
LEMMA UnderwayStays ==
  ASSUME NEW f, Underway(f), NEW a \in BOOLEAN, NEW b \in BOOLEAN
  PROVE  /\ Underway([f EXCEPT !.read_id = a])
         /\ [f EXCEPT !.read_id = a].state = f.state
         /\ Underway([f EXCEPT !.read_id = a, !.id_mark = b])
         /\ [f EXCEPT !.read_id = a, !.id_mark = b].state = f.state
         /\ Underway([f EXCEPT !.id_mark = a])
         /\ [f EXCEPT !.id_mark = a].state = f.state
         /\ Underway([f EXCEPT !.fdc_event = a])
         /\ [f EXCEPT !.fdc_event = a].state = f.state
         /\ Underway([f EXCEPT !.fdc_event = a, !.read_id = b])
         /\ [f EXCEPT !.fdc_event = a, !.read_id = b].state = f.state
         /\ Underway([f EXCEPT !.rev = REV, !.id_mark = a])
         /\ [f EXCEPT !.rev = REV, !.id_mark = a].state = f.state
<1>1. REV \in -1 .. REV
  BY FdcAssumption
<1> QED BY <1>1 DEF Underway, Fdc

LEMMA SeekVerifyReadIdFine ==
  ASSUME NEW f, Underway(f), NEW d \in Drive,
         NEW f1 \in wd_fdc_seek_verify_read_id(f, d)
  PROVE  Good(f1) /\ (f1.busy \/ f1.intrq)
<1> DEFINE h == [f EXCEPT !.read_id = TRUE, !.fdc_event = FALSE]
<1>1. Underway(h)
  <2>1. h = [f EXCEPT !.fdc_event = FALSE, !.read_id = TRUE]
    BY DEF Underway, Fdc
  <2> QED BY <2>1, UnderwayStays
<1>2. PICK s \in Search(h, d, TRUE) :
        f1 = IF s.result \in {"found", "none"}
             THEN Complete([s.fdc EXCEPT !.read_id = FALSE]) ELSE s.fdc
  BY DEF wd_fdc_seek_verify_read_id
<1> HIDE DEF h
<1>3. /\ Underway(s.fdc)
      /\ s.result \in {"found", "none", "wait", "never"}
      /\ s.result = "wait" => s.fdc.fdc_event
      /\ s.result = "never" => s.fdc.never
  BY <1>1, SearchFinds
<1>4. [s.fdc EXCEPT !.read_id = FALSE] \in Fdc
  BY <1>3, UnderwayStays DEF Underway
<1>5. CASE s.result \in {"found", "none"}
  BY <1>2, <1>4, <1>5, CompleteGood
<1>6. CASE s.result \notin {"found", "none"}
  BY <1>2, <1>3, <1>6, UnderwayGood
<1> QED BY <1>5, <1>6

LEMMA SeekVerifyFine ==
  ASSUME NEW f, Underway(f), NEW d \in Drive, NEW o \in wd_fdc_seek_verify(f, d)
  PROVE  Fine(o, d)
<1> DEFINE h == [f EXCEPT !.rev = REV, !.id_mark = FALSE]
<1>1. Underway(h)
  BY UnderwayStays
<1>2. PICK f1 \in wd_fdc_seek_verify_read_id(h, d) : o = Outcome(f1, d)
  BY DEF wd_fdc_seek_verify
<1>3. Good(f1) /\ (f1.busy \/ f1.intrq)
  BY <1>1, <1>2, SeekVerifyReadIdFine
<1> QED BY <1>2, <1>3, KeptSame DEF Fine, Outcome

LEMMA VerifyTrackFine ==
  ASSUME NEW f, Underway(f), NEW d \in Drive, NEW o \in VerifyTrack(f, d)
  PROVE  Fine(o, d)
<1> DEFINE v == [f EXCEPT !.state = "VERIFY"]
           w == [f EXCEPT !.state = "VERIFY", !.motoron = TRUE, !.fdc_event = TRUE]
<1>1. Underway(v) /\ Underway(w) /\ w.fdc_event
  BY DEF Underway, Fdc, States
<1>2. f \in Fdc
  BY DEF Underway
<1> HIDE DEF v, w
<1>3. \/ o = Outcome(Complete(f), d)
      \/ o \in wd_fdc_seek_verify(v, d)
      \/ o = Outcome(w, fdd_motoron(d, TRUE))
  BY DEF VerifyTrack, v, w
<1>4. CASE o = Outcome(Complete(f), d)
  BY <1>2, <1>4, CompleteGood, KeptSame DEF Fine, Outcome
<1>5. CASE o \in wd_fdc_seek_verify(v, d)
  BY <1>1, <1>5, SeekVerifyFine
<1>6. CASE o = Outcome(w, fdd_motoron(d, TRUE))
  BY <1>1, <1>6, UnderwayGood, MotoronKeeps DEF Fine, Outcome
<1> QED BY <1>3, <1>4, <1>5, <1>6

LEMMA TypeIFine ==
  ASSUME NEW f, Underway(f), NEW d \in Drive, NEW o \in wd_fdc_type_i(f, d)
  PROVE  Fine(o, d)
<1> DEFINE v == [f EXCEPT !.steps = 0]
           w == [f EXCEPT !.steps = @ - 1, !.state = "SEEK_DELAY", !.fdc_event = TRUE]
<1>1. Underway(v)
  BY FdcAssumption DEF Underway, Fdc
<1>2. ASSUME f.steps # 0
      PROVE  Underway(w) /\ w.fdc_event
  <2>1. f.steps - 1 \in 0 .. MaxSteps /\ "SEEK_DELAY" \in States /\ f \in Fdc
    BY <1>2, FdcAssumption DEF Underway, Fdc, States, Seeking
  <2> QED BY <2>1 DEF Underway, Fdc
<1>3. \/ o \in VerifyTrack(v, d)
      \/ f.steps # 0 /\ o = Outcome(w, d)
  BY DEF wd_fdc_type_i
<1> HIDE DEF v, w
<1>4. CASE o \in VerifyTrack(v, d)
  BY <1>1, <1>4, VerifyTrackFine
<1>5. CASE f.steps # 0 /\ o = Outcome(w, d)
  BY <1>2, <1>5, UnderwayGood, KeptSame DEF Fine, Outcome
<1> QED BY <1>3, <1>4, <1>5

LEMMA TypeIISeekFine ==
  ASSUME NEW f, Underway(f), f.state \in SectorStates, NEW d \in Drive,
         NEW o \in wd_fdc_type_ii_seek(f, d)
  PROVE  Fine(o, d)
<1>1. PICK b \in BOOLEAN : b = (f.read_id \/ ~f.id_mark)
  OBVIOUS
<1> DEFINE h == [f EXCEPT !.fdc_event = FALSE, !.read_id = b]
           e == f.sectors > 0
           Decided(s) == [s.fdc EXCEPT !.read_id = FALSE]
           Gone(s) == [Decided(s) EXCEPT !.id_mark = FALSE]
<1>2. h = [f EXCEPT !.fdc_event = FALSE, !.read_id = @ \/ ~f.id_mark]
  BY <1>1
<1>3. /\ Underway(h) /\ h.state = f.state
      /\ e \in BOOLEAN
  <2>1. Underway(h) /\ h.state = f.state
    BY UnderwayStays
  <2>2. e \in BOOLEAN
    OBVIOUS
  <2> QED BY <2>1, <2>2
<1>4. PICK s \in Search(h, d, e) :
        \/ s.result \in {"wait", "never"} /\ o = Outcome(s.fdc, d)
        \/ s.result = "found" /\ o = Outcome(StartTransfer(Decided(s)), d)
        \/ s.result \in {"none", "found"} /\ o = Outcome(Complete(Gone(s)), d)
  BY <1>2 DEF wd_fdc_type_ii_seek
<1> HIDE DEF h, e
<1>5. /\ Underway(s.fdc) /\ s.fdc.state = f.state
      /\ s.result = "wait" => s.fdc.fdc_event
      /\ s.result = "never" => s.fdc.never
  BY <1>3, SearchFinds
<1>6. Underway(Decided(s)) /\ Decided(s).state = f.state
  BY <1>5, UnderwayStays
<1> HIDE DEF Decided
<1>7. Gone(s) \in Fdc
  BY <1>6, UnderwayStays DEF Underway
<1> HIDE DEF Gone
<1>8. CASE s.result \in {"wait", "never"} /\ o = Outcome(s.fdc, d)
  BY <1>5, <1>8, UnderwayGood, KeptSame DEF Fine, Outcome
<1>9. CASE s.result = "found" /\ o = Outcome(StartTransfer(Decided(s)), d)
  BY <1>6, <1>9, TransferGood, KeptSame DEF Fine, Outcome, DataStates, SectorStates
<1>10. CASE s.result \in {"none", "found"} /\ o = Outcome(Complete(Gone(s)), d)
  BY <1>7, <1>10, CompleteGood, KeptSame DEF Fine, Outcome
<1> QED BY <1>4, <1>8, <1>9, <1>10

LEMMA TypeIIFine ==
  ASSUME NEW f, Underway(f), f.state \in SectorStates, NEW d \in Drive,
         NEW o \in wd_fdc_type_ii(f, d)
  PROVE  Fine(o, d)
<1> DEFINE h == [f EXCEPT !.rev = REV, !.id_mark = FALSE]
           g == [f EXCEPT !.fdc_event = FALSE]
<1>1. Underway(h) /\ h.state = f.state /\ g \in Fdc
  BY UnderwayStays DEF Underway
<1>2. o \in wd_fdc_type_ii_seek(h, d) \/ o = Outcome(Complete(g), d)
  BY DEF wd_fdc_type_ii
<1> HIDE DEF h, g
<1>3. CASE o \in wd_fdc_type_ii_seek(h, d)
  BY <1>1, <1>3, TypeIISeekFine
<1>4. CASE o = Outcome(Complete(g), d)
  BY <1>1, <1>4, CompleteGood, KeptSame DEF Fine, Outcome
<1> QED BY <1>2, <1>3, <1>4

LEMMA TypeIIIFine ==
  ASSUME NEW f, Underway(f), f.state \in DataStates, NEW d \in Drive,
         NEW o \in wd_fdc_type_iii(f, d)
  PROVE  Fine(o, d)
<1> DEFINE g == [f EXCEPT !.fdc_event = FALSE]
           h == IF g.read_id THEN g
                ELSE [g EXCEPT !.read_id = TRUE, !.rev = REV, !.id_mark = FALSE]
           Decided(s) == [s.fdc EXCEPT !.read_id = FALSE]
<1>1. Underway(g) /\ g.state = f.state
  BY UnderwayStays
<1>2. Underway(h) /\ h.state = f.state
  <2> HIDE DEF g
  <2>1. REV \in -1 .. REV
    BY FdcAssumption
  <2> QED BY <1>1, <2>1 DEF Underway, Fdc
<1>3. \/ g.state # "READID" /\ o \in {Outcome(StartTransfer(g), d), Outcome(Complete(g), d)}
      \/ \E s \in Search(h, d, TRUE) :
           o = Outcome(IF s.result = "found" THEN StartTransfer(Decided(s))
                       ELSE IF s.result = "none" THEN Complete(Decided(s))
                       ELSE s.fdc, d)
  BY DEF wd_fdc_type_iii
<1> HIDE DEF g, h
<1>4. CASE g.state # "READID" /\ o \in {Outcome(StartTransfer(g), d), Outcome(Complete(g), d)}
  BY <1>1, <1>4, CompleteGood, TransferGood, KeptSame DEF Fine, Outcome, Underway
<1>5. ASSUME NEW s, s \in Search(h, d, TRUE),
             o = Outcome(IF s.result = "found" THEN StartTransfer(Decided(s))
                         ELSE IF s.result = "none" THEN Complete(Decided(s))
                         ELSE s.fdc, d)
      PROVE  Fine(o, d)
  <2>1. /\ Underway(s.fdc) /\ s.fdc.state = f.state
        /\ s.result \in {"found", "none", "wait", "never"}
        /\ s.result = "wait" => s.fdc.fdc_event
        /\ s.result = "never" => s.fdc.never
    <3>1. \A t \in Search(h, d, TRUE) :
            /\ Underway(t.fdc) /\ t.fdc.state = h.state
            /\ t.result \in {"found", "none", "wait", "never"}
            /\ t.result = "wait" => t.fdc.fdc_event
            /\ t.result = "never" => t.fdc.never
      BY <1>2, SearchFinds
    <3> QED BY <1>2, <1>5, <3>1
  <2>2. /\ Underway(Decided(s)) /\ Decided(s).state = f.state
        /\ Decided(s) \in Fdc /\ ~Decided(s).read_id
    <3>1. Underway(Decided(s)) /\ Decided(s).state = f.state
      BY <2>1, UnderwayStays
    <3>2. Decided(s) \in Fdc
      BY <3>1 DEF Underway
    <3>3. ~Decided(s).read_id
      BY <2>1 DEF Underway, Fdc
    <3> QED BY <3>1, <3>2, <3>3
  <2> HIDE DEF Decided
  <2>3. CASE s.result = "found"
    BY <1>5, <2>2, <2>3, TransferGood, KeptSame DEF Fine, Outcome
  <2>4. CASE s.result = "none"
    BY <1>5, <2>2, <2>4, CompleteGood, KeptSame DEF Fine, Outcome
  <2>5. CASE s.result \in {"wait", "never"}
    BY <1>5, <2>1, <2>5, UnderwayGood, KeptSame DEF Fine, Outcome
  <2> QED BY <2>1, <2>3, <2>4, <2>5
<1> QED BY <1>3, <1>4, <1>5

\* The motor is on after a spin-up, and the command waits where there is a delay.
LEMMA SpinupFine ==
  ASSUME NEW f, Underway(f), NEW d \in Drive, NEW h \in BOOLEAN, NEW e \in BOOLEAN
  PROVE  LET spinup == wd_fdc_spinup(f, d, h, e)
         IN /\ Underway(spinup.fdc) /\ spinup.fdc.state = f.state
            /\ Kept(d, spinup.drive) /\ spinup.drive \in Drive
            /\ spinup.delay => spinup.fdc.fdc_event
<1>1. PICK delay \in BOOLEAN : delay = ((f.state # "SEEK" /\ e) \/ (~f.motoron /\ ~h))
  OBVIOUS
<1>2. PICK b \in BOOLEAN : b = (f.fdc_event \/ delay)
  OBVIOUS
<1> DEFINE g == [f EXCEPT !.motoron = TRUE, !.fdc_event = b]
           m == IF f.motoron THEN d ELSE fdd_motoron(d, TRUE)
<1>3. wd_fdc_spinup(f, d, h, e) = [fdc |-> g, drive |-> m, delay |-> delay]
  BY <1>1, <1>2 DEF wd_fdc_spinup
<1>4. Underway(g) /\ g.state = f.state /\ (delay => g.fdc_event)
  BY <1>2 DEF Underway, Fdc
<1>5. Kept(d, m) /\ m \in Drive
  BY MotoronKeeps, KeptSame DEF Kept
<1> HIDE DEF g, m
<1> QED BY <1>3, <1>4, <1>5

LEMMA AcceptedUnderway ==
  ASSUME NEW f, Good(f), ~f.busy, NEW state \in States \ {"NONE"}
  PROVE  Underway(Accepted(f, state)) /\ Accepted(f, state).state = state
<1>1. f \in Fdc /\ ~f.datarq
  BY DEF Good, Waits, DataStates, SectorStates
<1>2. REV \in -1 .. REV
  BY FdcAssumption
<1> QED BY <1>1, <1>2 DEF Underway, Accepted, Fdc

LEMMA CommandFine ==
  ASSUME NEW f, Good(f), ~f.busy, NEW d \in Drive, NEW h \in BOOLEAN
  PROVE  /\ \A verify \in BOOLEAN, steps \in 0 .. MaxSteps :
              \A o \in TypeI(f, d, h, verify, steps) : Fine(o, d)
         /\ \A e, multiple \in BOOLEAN, state \in SectorStates, sectors \in 0 .. MaxSectors :
              \A o \in TypeII(f, d, h, e, state, multiple, sectors) : Fine(o, d)
         /\ \A e \in BOOLEAN, state \in DataStates \ SectorStates :
              \A o \in TypeIII(f, d, h, e, state) : Fine(o, d)
<1>1. ASSUME NEW g, Underway(g), NEW e \in BOOLEAN
      PROVE  LET spinup == wd_fdc_spinup(g, d, h, e)
             IN /\ spinup.delay => Fine(Outcome(spinup.fdc, spinup.drive), d)
                /\ \A o : Fine(o, spinup.drive) => Fine(o, d)
                /\ Underway(spinup.fdc) /\ spinup.fdc.state = g.state
                /\ spinup.drive \in Drive
  <2> DEFINE spinup == wd_fdc_spinup(g, d, h, e)
  <2>1. /\ Underway(spinup.fdc) /\ Kept(d, spinup.drive)
        /\ spinup.delay => spinup.fdc.fdc_event
        /\ spinup.fdc.state = g.state /\ spinup.drive \in Drive
    BY <1>1, SpinupFine
  <2> HIDE DEF spinup
  <2>2. spinup.delay => Fine(Outcome(spinup.fdc, spinup.drive), d)
    BY <2>1, UnderwayGood DEF Fine, Outcome
  <2>3. \A o : Fine(o, spinup.drive) => Fine(o, d)
    BY <2>1 DEF Fine, Kept
  <2> QED BY <2>1, <2>2, <2>3 DEF spinup
<1>2. ASSUME NEW verify \in BOOLEAN, NEW steps \in 0 .. MaxSteps,
             NEW o \in TypeI(f, d, h, verify, steps)
      PROVE  Fine(o, d)
  <2> DEFINE g == [Accepted(f, "SEEK") EXCEPT
                     !.datarq = FALSE, !.flag = verify, !.steps = steps]
             spinup == wd_fdc_spinup(g, d, h, FALSE)
  <2>1. Underway(Accepted(f, "SEEK"))
    BY AcceptedUnderway DEF States, Seeking
  <2>2. Underway(g)
    BY <2>1 DEF Underway, Fdc
  <2>3. /\ spinup.delay /\ o = Outcome(spinup.fdc, spinup.drive)
        \/ o \in wd_fdc_type_i(spinup.fdc, spinup.drive)
    BY DEF TypeI, AfterSpinup
  <2> HIDE DEF g
  <2>4. Underway(spinup.fdc) /\ spinup.drive \in Drive
    BY <2>2, SpinupFine
  <2>5. /\ spinup.delay => Fine(Outcome(spinup.fdc, spinup.drive), d)
        /\ \A r : Fine(r, spinup.drive) => Fine(r, d)
    BY <2>2, <1>1
  <2> HIDE DEF spinup
  <2> QED BY <2>3, <2>4, <2>5, TypeIFine
<1>3. ASSUME NEW e \in BOOLEAN, NEW multiple \in BOOLEAN, NEW state \in SectorStates,
             NEW sectors \in 0 .. MaxSectors,
             NEW o \in TypeII(f, d, h, e, state, multiple, sectors)
      PROVE  Fine(o, d)
  <2> DEFINE g == [Accepted(f, state) EXCEPT !.flag = multiple, !.sectors = sectors]
             spinup == wd_fdc_spinup(g, d, h, e)
  <2>1. Underway(Accepted(f, state)) /\ Accepted(f, state).state = state
    BY AcceptedUnderway DEF States, SectorStates, DataStates
  <2>2. Underway(g) /\ g.state = state
    BY <2>1 DEF Underway, Fdc
  <2>3. /\ spinup.delay /\ o = Outcome(spinup.fdc, spinup.drive)
        \/ o \in wd_fdc_type_ii(spinup.fdc, spinup.drive)
    BY DEF TypeII, AfterSpinup
  <2> HIDE DEF g
  <2>4. Underway(spinup.fdc) /\ spinup.drive \in Drive /\ spinup.fdc.state = state
    <3>1. Underway(spinup.fdc) /\ spinup.drive \in Drive /\ spinup.fdc.state = g.state
      BY <2>2, <1>1
    <3> QED BY <2>2, <3>1
  <2>5. /\ spinup.delay => Fine(Outcome(spinup.fdc, spinup.drive), d)
        /\ \A r : Fine(r, spinup.drive) => Fine(r, d)
    BY <2>2, <1>1
  <2> HIDE DEF spinup
  <2> QED BY <2>3, <2>4, <2>5, TypeIIFine
<1>4. ASSUME NEW e \in BOOLEAN, NEW state \in DataStates \ SectorStates,
             NEW o \in TypeIII(f, d, h, e, state)
      PROVE  Fine(o, d)
  <2> DEFINE g == Accepted(f, state)
             spinup == wd_fdc_spinup(g, d, h, e)
  <2>1. Underway(g) /\ g.state = state
    BY AcceptedUnderway DEF States, SectorStates, DataStates
  <2>3. /\ spinup.delay /\ o = Outcome(spinup.fdc, spinup.drive)
        \/ o \in wd_fdc_type_iii(spinup.fdc, spinup.drive)
    BY DEF TypeIII, AfterSpinup
  <2> HIDE DEF g
  <2>4. Underway(spinup.fdc) /\ spinup.drive \in Drive /\ spinup.fdc.state = state
    BY <2>1, SpinupFine
  <2>5. /\ spinup.delay => Fine(Outcome(spinup.fdc, spinup.drive), d)
        /\ \A r : Fine(r, spinup.drive) => Fine(r, d)
    BY <2>1, <1>1
  <2> HIDE DEF spinup
  <2> QED BY <2>3, <2>4, <2>5, TypeIIIFine
<1> QED BY <1>2, <1>3, <1>4

\* What an event may leave, of a command under way or of one that has ended.
Result(f, o, d) ==
  /\ Good(o.fdc)
  /\ Kept(d, o.drive)
  /\ f.busy => o.fdc.busy \/ o.fdc.intrq

LEMMA FdcEventResult ==
  ASSUME NEW f, Good(f), NEW d \in Drive, NEW o \in FdcEvent(f, d)
  PROVE  Result(f, o, d)
<1> DEFINE g == [f EXCEPT !.fdc_event = FALSE]
<1>1. /\ g \in Fdc /\ f \in Fdc /\ g.busy = f.busy /\ g.state = f.state
      /\ g.datarq = f.datarq /\ g.read_id = f.read_id /\ g.never = f.never
      /\ g.timeout_event = f.timeout_event /\ g.data_offset = f.data_offset
  BY DEF Good, Fdc
<1>2. f.state # "NONE" /\ ~f.datarq => Underway(g)
  BY <1>1 DEF Good, Waits, Underway
<1>3. ASSUME Fine(o, d) PROVE Result(f, o, d)
  BY <1>3 DEF Fine, Result
<1>4. \/ f.state = "VERIFY" /\ \E f1 \in wd_fdc_seek_verify_read_id(g, d) : o = Outcome(f1, d)
      \/ f.state \in SectorStates /\ ~f.datarq /\ o \in wd_fdc_type_ii_seek(g, d)
      \/ f.state \in SectorStates /\ ~f.datarq /\ o \in wd_fdc_type_ii(g, d)
      \/ f.state \in DataStates /\ ~f.datarq /\ o \in wd_fdc_type_iii(g, d)
      \/ f.state = "READID" /\ ~f.datarq /\ o \in wd_fdc_type_iii(g, d)
      \/ f.state \in Seeking /\ o \in wd_fdc_type_i(g, d)
      \/ f.state = "VERIFY" /\ o \in wd_fdc_seek_verify(g, d)
      \/ /\ o = Outcome(g, d)
         /\ \/ f.state = "NONE" \/ f.datarq
            \/ f.read_id /\ f.state \in {"SEEK", "SEEK_DELAY", "READTRACK", "WRITETRACK"}
  BY <1>1 DEF FdcEvent, States, Seeking, SectorStates, DataStates, Fdc, Good, Waits
<1>5. ~f.datarq \/ f.state \in DataStates
  BY DEF Good, Waits
<1>6. CASE f.state = "VERIFY" /\ \E f1 \in wd_fdc_seek_verify_read_id(g, d) : o = Outcome(f1, d)
  <2>1. Underway(g)
    BY <1>2, <1>5, <1>6 DEF DataStates, SectorStates
  <2>2. PICK f1 \in wd_fdc_seek_verify_read_id(g, d) : o = Outcome(f1, d)
    BY <1>6
  <2> HIDE DEF g
  <2>3. Good(f1) /\ (f1.busy \/ f1.intrq)
    BY <2>1, <2>2, SeekVerifyReadIdFine
  <2> QED BY <2>2, <2>3, KeptSame DEF Result, Outcome
<1> HIDE DEF g
<1>7. CASE f.state \in SectorStates /\ ~f.datarq /\ o \in wd_fdc_type_ii_seek(g, d)
  BY <1>1, <1>2, <1>3, <1>7, TypeIISeekFine DEF SectorStates
<1>8. CASE f.state \in SectorStates /\ ~f.datarq /\ o \in wd_fdc_type_ii(g, d)
  BY <1>1, <1>2, <1>3, <1>8, TypeIIFine DEF SectorStates
<1>9. CASE f.state \in DataStates /\ ~f.datarq /\ o \in wd_fdc_type_iii(g, d)
  BY <1>1, <1>2, <1>3, <1>9, TypeIIIFine DEF DataStates, SectorStates
<1>10. CASE f.state = "READID" /\ ~f.datarq /\ o \in wd_fdc_type_iii(g, d)
  BY <1>1, <1>2, <1>3, <1>10, TypeIIIFine DEF DataStates
<1>11. CASE f.state \in Seeking /\ o \in wd_fdc_type_i(g, d)
  BY <1>1, <1>2, <1>3, <1>5, <1>11, TypeIFine DEF Seeking, DataStates, SectorStates
<1>12. CASE f.state = "VERIFY" /\ o \in wd_fdc_seek_verify(g, d)
  BY <1>1, <1>2, <1>3, <1>5, <1>12, SeekVerifyFine DEF DataStates, SectorStates
<1>13. CASE /\ o = Outcome(g, d)
            /\ \/ f.state = "NONE" \/ f.datarq
               \/ f.read_id /\ f.state \in {"SEEK", "SEEK_DELAY", "READTRACK", "WRITETRACK"}
  <2>1. Good(g)
    BY <1>1, <1>13 DEF Good, Waits
  <2>2. f.busy => g.busy
    BY <1>1
  <2> QED BY <1>13, <2>1, <2>2, KeptSame DEF Result, Outcome
<1> QED BY <1>4, <1>6, <1>7, <1>8, <1>9, <1>10, <1>11, <1>12, <1>13

LEMMA TimeoutResult ==
  ASSUME NEW f, Good(f), NEW d \in Drive, NEW o \in TimeoutEvent(f, d)
  PROVE  Result(f, o, d)
<1> DEFINE g == [f EXCEPT !.timeout_event = FALSE]
<1>1. g \in Fdc /\ g.state = f.state
  BY DEF Good, Fdc
<1>2. f.state \notin DataStates => Good(g) /\ g.busy = f.busy
  BY DEF Good, Waits, Fdc
<1>3. o = Outcome(IF g.state \in DataStates THEN Complete(g) ELSE g, d)
  BY DEF TimeoutEvent
<1> HIDE DEF g
<1>4. CASE f.state \in DataStates
  BY <1>1, <1>3, <1>4, CompleteGood, KeptSame DEF Result, Outcome
<1>5. CASE f.state \notin DataStates
  BY <1>1, <1>2, <1>3, <1>5, KeptSame DEF Result, Outcome
<1> QED BY <1>4, <1>5

LEMMA MotorOffResult ==
  ASSUME NEW f, Good(f), NEW d \in Drive, NEW o \in MotorOffEvent(f, d)
  PROVE  Result(f, o, d)
<1> DEFINE g == [f EXCEPT !.motor_off_event = FALSE, !.motoron = FALSE]
<1>1. Good(g) /\ g.busy = f.busy
  BY DEF Good, Waits, Fdc
<1>2. o = Outcome(g, fdd_motoron(d, FALSE))
  BY DEF MotorOffEvent
<1> HIDE DEF g
<1>3. Kept(d, fdd_motoron(d, FALSE))
  BY MotoronKeeps
<1> QED BY <1>1, <1>2, <1>3 DEF Result, Outcome

\* INTRQ does not matter to what a command waits for.
LEMMA IntrqGood ==
  ASSUME NEW f, Good(f)
  PROVE  /\ Good(wd_fdc_set_intrq(f)) /\ wd_fdc_set_intrq(f).intrq
         /\ Good([f EXCEPT !.intrq = FALSE])
         /\ [f EXCEPT !.intrq = FALSE].busy = f.busy
<1>1. Good(wd_fdc_set_intrq(f)) /\ wd_fdc_set_intrq(f).intrq
  BY IntrqTyped DEF Good, Waits
<1>2. /\ Good([f EXCEPT !.intrq = FALSE])
      /\ [f EXCEPT !.intrq = FALSE].busy = f.busy
  BY DEF Good, Waits, Fdc
<1> QED BY <1>1, <1>2

LEMMA ForcedGood ==
  ASSUME NEW f, Good(f), NEW d \in Drive, NEW when, NEW o \in TypeIV(f, d, when)
  PROVE  Good(o.fdc) /\ Kept(d, o.drive)
<1> DEFINE s == Stopped(f)
           g == [s EXCEPT !.intrq = FALSE, !.fdc_event = FALSE]
           h == IF when = "at once" THEN wd_fdc_set_intrq(g) ELSE g
           e == IF when = "index" THEN [d EXCEPT !.fdc = TRUE] ELSE d
<1>1. s \in Fdc /\ s.state = "NONE" /\ s.busy = FALSE /\ s.datarq = FALSE
  BY StoppedTyped DEF Good
<1>2. o = Outcome(wd_fdc_spinup(h, e, FALSE, when = "index").fdc,
                  wd_fdc_spinup(h, e, FALSE, when = "index").drive)
  BY DEF TypeIV
<1> HIDE DEF s
<1>3. g \in Fdc /\ g.state = "NONE" /\ g.busy = FALSE /\ g.datarq = FALSE
  BY <1>1 DEF Fdc
<1> HIDE DEF g
<1>4. h \in Fdc /\ h.state = "NONE" /\ h.busy = FALSE /\ h.datarq = FALSE
  BY <1>3, IntrqTyped
<1>5. e \in Drive /\ Kept(d, e)
  BY DEF Kept, Settled, Held, Drive
<1> HIDE DEF h, e
<1>6. PICK delay \in BOOLEAN :
        delay = ((h.state # "SEEK" /\ when = "index") \/ (~h.motoron /\ ~FALSE))
  OBVIOUS
<1>7. PICK b \in BOOLEAN : b = (h.fdc_event \/ delay)
  OBVIOUS
<1> DEFINE k == [h EXCEPT !.motoron = TRUE, !.fdc_event = b]
           m == IF h.motoron THEN e ELSE fdd_motoron(e, TRUE)
<1>8. o = Outcome(k, m)
  BY <1>2, <1>6, <1>7 DEF wd_fdc_spinup
<1>9. Good(k)
  BY <1>4 DEF Good, Waits, Fdc
<1>10. Kept(d, m)
  <2>1. Kept(e, fdd_motoron(e, TRUE))
    BY <1>5, MotoronKeeps
  <2> QED BY <1>5, <2>1 DEF Kept
<1> HIDE DEF k, m
<1> QED BY <1>8, <1>9, <1>10 DEF Outcome

LEMMA NextByteGood ==
  ASSUME NEW f, Good(f), f.busy \/ f.intrq
  PROVE  Good(NextByte(f)) /\ (NextByte(f).busy \/ NextByte(f).intrq)
BY DEF NextByte, Good, Waits, Fdc

\* A byte within a sector.
LEMMA ByteGood ==
  ASSUME NEW f, Good(f), f.datarq, NEW a \in BOOLEAN
  PROVE  LET g == [f EXCEPT !.fdc_event = a]
             next == [g EXCEPT !.data_offset = @ + 1]
         IN /\ Good(g) /\ g.busy /\ g.datarq
            /\ next \in Fdc /\ next.busy /\ next.state = f.state /\ next.state # "NONE"
            /\ next.data_offset \in 0 .. SectorLength
            /\ next.data_offset # SectorLength => Good(next)
<1> DEFINE g == [f EXCEPT !.fdc_event = a]
           next == [g EXCEPT !.data_offset = @ + 1]
<1>1. f \in Fdc /\ f.busy /\ f.state # "NONE" /\ f.data_offset < SectorLength
  BY DEF Good, Waits, DataStates, SectorStates
<1>2. Good(g) /\ g.busy /\ g.datarq /\ g.state = f.state
      /\ g.data_offset = f.data_offset
  BY <1>1 DEF Good, Waits, Fdc
<1> HIDE DEF g
<1>3. f.data_offset + 1 \in 0 .. SectorLength
  BY <1>1, FdcAssumption DEF Fdc
<1>4. /\ next \in Fdc /\ next.busy /\ next.state = f.state
      /\ next.data_offset = f.data_offset + 1
      /\ next.datarq = g.datarq /\ next.timeout_event = g.timeout_event
      /\ next.read_id = g.read_id
  BY <1>1, <1>2, <1>3 DEF Good, Fdc
<1>5. next.data_offset # SectorLength => next.data_offset < SectorLength
  BY <1>3, <1>4, FdcAssumption
<1> HIDE DEF next
<1>6. next.data_offset # SectorLength => Good(next)
  BY <1>1, <1>2, <1>4, <1>5 DEF Good, Waits
<1> QED BY <1>1, <1>2, <1>3, <1>4, <1>6 DEF g, next

LEMMA EndOfSectorGood ==
  ASSUME NEW f \in Fdc, f.busy, f.state # "NONE", NEW more \in BOOLEAN
  PROVE  /\ Good(EndOfSector(f, more))
         /\ EndOfSector(f, more).busy \/ EndOfSector(f, more).intrq
<1>1. CASE more
  <2>1. PICK n \in 0 .. MaxSectors : n = IF f.sectors > 0 THEN f.sectors - 1 ELSE 0
    BY FdcAssumption DEF Fdc
  <2>2. EndOfSector(f, more) =
          [f EXCEPT !.sectors = n, !.rev = REV, !.datarq = FALSE,
                    !.timeout_event = TRUE, !.fdc_event = TRUE]
    BY <1>1, <2>1 DEF EndOfSector
  <2>3. REV \in -1 .. REV
    BY FdcAssumption
  <2> DEFINE g == [f EXCEPT !.sectors = n, !.rev = REV, !.datarq = FALSE,
                            !.timeout_event = TRUE, !.fdc_event = TRUE]
  <2>4. /\ g \in Fdc /\ g.busy /\ g.state = f.state /\ ~g.datarq /\ g.fdc_event
    BY <2>1, <2>3 DEF Fdc
  <2> HIDE DEF g
  <2>5. Good(g) /\ g.busy
    BY <2>4 DEF Good, Waits
  <2> QED BY <2>2, <2>5 DEF g
<1>2. CASE ~more
  <2>1. [f EXCEPT !.timeout_event = FALSE] \in Fdc
    BY DEF Fdc
  <2>2. EndOfSector(f, more) = Complete([f EXCEPT !.timeout_event = FALSE])
    BY <1>2 DEF EndOfSector
  <2> QED BY <2>1, <2>2, CompleteGood
<1> QED BY <1>1, <1>2

\* A byte before it is asked for: where each is asked for by an event of its
\* own, the event that was pending is replaced.
LEMMA EarlyByteGood ==
  ASSUME NEW f, Good(f), f.state # "NONE", NEW a \in BOOLEAN,
         f.drq_pulse \/ a = f.fdc_event
  PROVE  LET g == [f EXCEPT !.fdc_event = a]
         IN /\ g \in Fdc /\ g.busy /\ g.state = f.state /\ g.datarq = f.datarq
            /\ Good(NextByte(g)) /\ NextByte(g).busy
<1> DEFINE g == [f EXCEPT !.fdc_event = a]
<1>1. f \in Fdc /\ f.busy
  BY DEF Good, Waits
<1>2. /\ g \in Fdc /\ g.busy /\ g.state = f.state /\ g.datarq = f.datarq
      /\ g.drq_pulse = f.drq_pulse
  BY <1>1 DEF Fdc
<1>3. CASE f.drq_pulse
  <2>1. NextByte(g) = [f EXCEPT !.fdc_event = TRUE]
    BY <1>2, <1>3, <1>1 DEF NextByte, Fdc
  <2> QED BY <1>1, <1>2, <2>1 DEF Good, Waits, Fdc
<1>4. CASE ~f.drq_pulse
  <2>1. NextByte(g) = g /\ g = f
    BY <1>1, <1>2, <1>4 DEF NextByte, Fdc
  <2> QED BY <1>1, <1>2, <2>1
<1> QED BY <1>2, <1>3, <1>4

\* A byte leaves the command as it is, waiting for the next one, for the search
\* of the next sector, or at its end, whether it was asked for or not.
LEMMA ByteResult ==
  ASSUME NEW f, Good(f), f.state # "NONE", NEW d \in Drive, NEW a \in BOOLEAN,
         f.drq_pulse \/ a = f.fdc_event, NEW o,
         LET g == [f EXCEPT !.fdc_event = a]
             next == [g EXCEPT !.data_offset = @ + 1]
         IN \E f1 :
              /\ o = Outcome(NextByte(f1), d)
              /\ \/ f1 = g \/ f1 = Complete(g)
                 \/ \E more \in BOOLEAN : f1 = EndOfSector(g, more)
                 \/ f.datarq /\ next.data_offset < SectorLength /\ f1 = next
                 \/ f.datarq /\ \E more \in BOOLEAN : f1 = EndOfSector(next, more)
  PROVE  Result(f, o, d)
<1> DEFINE g == [f EXCEPT !.fdc_event = a]
           next == [g EXCEPT !.data_offset = @ + 1]
<1>1. /\ g \in Fdc /\ g.busy /\ g.state # "NONE"
      /\ Good(NextByte(g)) /\ NextByte(g).busy
  BY EarlyByteGood
<1>2. f.datarq => /\ next \in Fdc /\ next.busy /\ next.state # "NONE"
                  /\ next.data_offset \in 0 .. SectorLength
                  /\ next.data_offset # SectorLength => Good(next)
  BY ByteGood
<1> HIDE DEF next, g
<1>3. PICK f1 :
        /\ o = Outcome(NextByte(f1), d)
        /\ \/ f1 = g \/ f1 = Complete(g)
           \/ \E more \in BOOLEAN : f1 = EndOfSector(g, more)
           \/ f.datarq /\ next.data_offset < SectorLength /\ f1 = next
           \/ f.datarq /\ \E more \in BOOLEAN : f1 = EndOfSector(next, more)
  BY DEF g, next
<1>4. CASE f1 = g
  BY <1>1, <1>3, <1>4, KeptSame DEF Result, Outcome
<1>5. CASE f1 # g
  <2>1. f.datarq /\ next.data_offset < SectorLength => next.data_offset # SectorLength
    BY <1>2, FdcAssumption
  <2>2. Good(f1) /\ (f1.busy \/ f1.intrq)
    BY <1>1, <1>2, <1>3, <1>5, <2>1, EndOfSectorGood, CompleteGood
  <2> QED BY <1>3, <2>2, NextByteGood, KeptSame DEF Result, Outcome
<1> QED BY <1>4, <1>5

LEMMA ReadResult ==
  ASSUME NEW f, Good(f), f.state # "NONE", NEW d \in Drive,
         NEW o \in wd_fdc_dr_read(f, d)
  PROVE  Result(f, o, d)
<1>1. f \in Fdc /\ f.flag \in BOOLEAN
  BY DEF Good, Fdc
<1>2. PICK a \in BOOLEAN : a = IF f.drq_pulse THEN FALSE ELSE f.fdc_event
  BY <1>1 DEF Fdc
<1> DEFINE g == [f EXCEPT !.fdc_event = a]
           next == [g EXCEPT !.data_offset = @ + 1]
<1>3. g = IF f.drq_pulse THEN [f EXCEPT !.fdc_event = FALSE] ELSE f
  BY <1>1, <1>2 DEF Fdc
<1>4. g.datarq = f.datarq
  BY <1>1 DEF Fdc
<1>5. \E f1 : /\ o = Outcome(NextByte(f1), d)
              /\ \/ f1 \in Transferred(g, {FALSE, f.flag})
                 \/ f1 \in Transferred(g, {FALSE})
                 \/ f1 = Complete(g) \/ f1 = g
                 \/ f1 = EndOfSector(g, FALSE)
  BY <1>3 DEF wd_fdc_dr_read
<1>6. \E f1 :
        /\ o = Outcome(NextByte(f1), d)
        /\ \/ f1 = g \/ f1 = Complete(g)
           \/ \E more \in BOOLEAN : f1 = EndOfSector(g, more)
           \/ f.datarq /\ next.data_offset < SectorLength /\ f1 = next
           \/ f.datarq /\ \E more \in BOOLEAN : f1 = EndOfSector(next, more)
  <2> HIDE DEF g
  <2> QED BY <1>1, <1>4, <1>5 DEF Transferred
<1> QED BY <1>2, <1>6, ByteResult

LEMMA WriteResult ==
  ASSUME NEW f, Good(f), f.state # "NONE", NEW d \in Drive,
         NEW o \in wd_fdc_dr_write(f, d)
  PROVE  Result(f, o, d)
<1>1. f \in Fdc /\ f.flag \in BOOLEAN
  BY DEF Good, Fdc
<1>2. PICK a \in BOOLEAN : a = f.fdc_event
  BY <1>1 DEF Fdc
<1> DEFINE g == [f EXCEPT !.fdc_event = a]
           next == [g EXCEPT !.data_offset = @ + 1]
<1>3. g = f
  BY <1>1, <1>2 DEF Fdc
<1>4. \E f1 : /\ o = Outcome(NextByte(f1), d)
              /\ \/ f1 = f \/ f1 = EndOfSector(f, FALSE)
                 \/ f1 \in Transferred(f, {f.flag})
  BY DEF wd_fdc_dr_write
<1>5. \E f1 :
        /\ o = Outcome(NextByte(f1), d)
        /\ \/ f1 = g \/ f1 = Complete(g)
           \/ \E more \in BOOLEAN : f1 = EndOfSector(g, more)
           \/ f.datarq /\ next.data_offset < SectorLength /\ f1 = next
           \/ f.datarq /\ \E more \in BOOLEAN : f1 = EndOfSector(next, more)
  <2> HIDE DEF g
  <2> QED BY <1>1, <1>3, <1>4 DEF Transferred
<1> QED BY <1>2, <1>5, ByteResult

-----------------------------------------------------------------------------
(* The interface *)

\* The inductive invariant: what a command waits for decides whether it goes on,
\* and a drive whose motor is on has a disk, so that the motor can be turned off
\* when another drive is selected.
IInv ==
  /\ TypeOK
  /\ Waits(fdc)
  /\ \A d \in Drives : Settled(drives[d])
  /\ \A d \in Drives \ EjectSpinning :
       /\ Held(drives[d])
       /\ drives[d].motoron => d = current_drive

LEMMA InvInit == Init => IInv
<1> SUFFICES ASSUME Init PROVE IInv
  OBVIOUS
<1>1. PICK pulse \in Pulses :
          fdc = [drq_pulse |-> pulse, state |-> "NONE", busy |-> FALSE,
                 motoron |-> FALSE, intrq |-> FALSE, datarq |-> FALSE,
                 read_id |-> FALSE, id_mark |-> FALSE, rev |-> 0,
                 flag |-> FALSE, steps |-> 0, sectors |-> 0, data_offset |-> 0,
                 fdc_event |-> FALSE, motor_off_event |-> FALSE,
                 timeout_event |-> FALSE, never |-> FALSE]
  BY DEF Init, plusd_init
<1>2. pulse \in BOOLEAN /\ "NONE" \in States
      /\ 0 \in -1 .. REV /\ 0 \in 0 .. MaxSteps /\ 0 \in 0 .. MaxSectors
      /\ 0 \in 0 .. SectorLength
  BY FdcAssumption, PlusDAssumption DEF States
<1>3. fdc \in Fdc
  BY <1>1, <1>2 DEF Fdc
<1>4. Waits(fdc)
  BY <1>1 DEF Waits
<1>5. /\ drives \in [Drives -> {fdd_init(FALSE), fdd_init(TRUE)}]
      /\ current_drive \in Drives
  BY DEF Init, plusd_init
<1>6. ASSUME NEW d \in {fdd_init(FALSE), fdd_init(TRUE)}
      PROVE  d \in Drive /\ Settled(d) /\ Held(d) /\ ~d.motoron
  <2>1. PICK disk \in BOOLEAN : d = fdd_init(disk)
    OBVIOUS
  <2>2. /\ d \in Drive /\ d.motoron = FALSE /\ d.ready = FALSE
    BY <2>1 DEF fdd_init, Drive
  <2> QED BY <2>2 DEF Settled, Held
<1>7. \A d \in Drives : /\ drives[d] \in Drive /\ Settled(drives[d])
                        /\ Held(drives[d]) /\ ~drives[d].motoron
  BY <1>5, <1>6
<1>8. drives \in [Drives -> Drive]
  BY <1>5, <1>7
<1> QED BY <1>3, <1>4, <1>5, <1>7, <1>8 DEF IInv, TypeOK

\* A handler that keeps the controller and the drive selected keeps the invariant.
LEMMA HandleKeeps ==
  ASSUME IInv, NEW outcomes, Handle(outcomes),
         \A o \in outcomes : Good(o.fdc) /\ Kept(selected, o.drive)
  PROVE  IInv'
<1>1. PICK o \in outcomes :
        /\ fdc' = o.fdc
        /\ drives' = [drives EXCEPT ![current_drive] = o.drive]
        /\ current_drive' = current_drive
  BY DEF Handle
<1>2. Good(o.fdc) /\ Kept(drives[current_drive], o.drive)
  BY DEF selected
<1>3. TypeOK' /\ Waits(fdc)'
  BY <1>1, <1>2 DEF IInv, TypeOK, Good, Kept, Waits
<1>4. \A d \in Drives : Settled(drives'[d])
  BY <1>1, <1>2 DEF IInv, TypeOK, Kept
<1>5. \A d \in Drives \ EjectSpinning :
        /\ Held(drives'[d])
        /\ drives'[d].motoron => d = current_drive'
  BY <1>1, <1>2 DEF IInv, TypeOK, Kept
<1> QED BY <1>3, <1>4, <1>5 DEF IInv, Settled, Held

\* A step that changes one drive, for the user or by an event.
LEMMA DriveKeeps ==
  ASSUME IInv, NEW d \in Drives, NEW e \in Drive,
         drives' = [drives EXCEPT ![d] = e], current_drive' = current_drive,
         fdc' = fdc \/ fdc' = wd_fdc_set_intrq(fdc) \/ fdc' = [fdc EXCEPT !.intrq = FALSE],
         Settled(e),
         d \notin EjectSpinning => Held(e) /\ e.motoron = drives[d].motoron
  PROVE  IInv'
<1>1. Good(fdc)
  BY DEF IInv, TypeOK, Good
<1>2. Good(fdc')
  BY <1>1, IntrqGood
<1>3. TypeOK' /\ Waits(fdc)'
  BY <1>2 DEF IInv, TypeOK, Good, Waits
<1>4. \A c \in Drives : Settled(drives'[c])
  BY DEF IInv, TypeOK
<1>5. \A c \in Drives \ EjectSpinning :
        /\ Held(drives'[c])
        /\ drives'[c].motoron => c = current_drive'
  BY DEF IInv, TypeOK
<1> QED BY <1>3, <1>4, <1>5 DEF IInv, Settled, Held

LEMMA SelectKeeps ==
  ASSUME IInv, NEW drive \in Drives, plusd_cn_write(drive)
  PROVE  IInv'
<1> DEFINE c == current_drive
<1>1. /\ c \in Drives /\ drives \in [Drives -> Drive] /\ fdc \in Fdc
      /\ fdc' = fdc /\ current_drive' = drive /\ drive # c
  BY DEF IInv, TypeOK, plusd_cn_write
<1>2. CASE ~drives[c].motoron
  <2>1. drives' = drives
    BY <1>2 DEF plusd_cn_write, selected
  <2> QED BY <1>1, <1>2, <2>1 DEF IInv, TypeOK, Waits, Settled, Held
<1>3. CASE drives[c].motoron
  <2> DEFINE off == fdd_motoron(drives[c], FALSE)
             on == fdd_motoron(drives[drive], TRUE)
  <2>1. drives' = [drives EXCEPT ![c] = off, ![drive] = on]
    BY <1>3 DEF plusd_cn_write, selected
  <2>2. /\ Kept(drives[c], off) /\ Kept(drives[drive], on)
        /\ Held(drives[c]) => ~off.motoron
    BY <1>1, MotoronKeeps
  <2> HIDE DEF off, on
  <2>3. /\ drives'[c] = off /\ drives'[drive] = on
        /\ \A d \in Drives \ {c, drive} : drives'[d] = drives[d]
        /\ drives' \in [Drives -> Drive]
    BY <1>1, <2>1, <2>2 DEF Kept
  <2>4. TypeOK' /\ Waits(fdc)'
    BY <1>1, <2>3 DEF IInv, TypeOK, Waits
  <2>5. \A d \in Drives : Settled(drives'[d])
    BY <1>1, <2>2, <2>3 DEF IInv, Kept
  <2>6. \A d \in Drives \ EjectSpinning :
          /\ Held(drives'[d])
          /\ drives'[d].motoron => d = current_drive'
    <3> SUFFICES ASSUME NEW d \in Drives \ EjectSpinning
                 PROVE  Held(drives'[d]) /\ (drives'[d].motoron => d = drive)
      BY <1>1
    <3>1. Held(drives[d]) /\ (drives[d].motoron => d = c)
      BY DEF IInv
    <3> QED BY <1>1, <2>2, <2>3, <3>1 DEF Kept
  <2> QED BY <2>4, <2>5, <2>6 DEF IInv, Settled, Held
<1> QED BY <1>2, <1>3

\* What the command written may leave.
LEMMA CommandHandled ==
  ASSUME IInv, plusd_cr_write
  PROVE  \E outcomes : Handle(outcomes) /\ \A o \in outcomes : Fine(o, selected)
<1>1. Good(fdc) /\ ~fdc.busy /\ selected \in Drive
  BY DEF IInv, TypeOK, Good, plusd_cr_write, selected
<1>2. PICK h \in BOOLEAN :
          \/ \E verify \in BOOLEAN, steps \in 0 .. MaxSteps :
                Handle(TypeI(fdc, selected, h, verify, steps))
          \/ \E e, m \in BOOLEAN, state \in SectorStates,
                sectors \in 0 .. MaxSectors :
                Handle(TypeII(fdc, selected, h, e, state, m, sectors))
          \/ \E e \in BOOLEAN, state \in DataStates \ SectorStates :
                Handle(TypeIII(fdc, selected, h, e, state))
  BY DEF plusd_cr_write
<1>3. CASE \E verify \in BOOLEAN, steps \in 0 .. MaxSteps :
             Handle(TypeI(fdc, selected, h, verify, steps))
  BY <1>1, <1>3, CommandFine
<1>4. CASE \E e, m \in BOOLEAN, state \in SectorStates, sectors \in 0 .. MaxSectors :
             Handle(TypeII(fdc, selected, h, e, state, m, sectors))
  BY <1>1, <1>4, CommandFine
<1>5. CASE \E e \in BOOLEAN, state \in DataStates \ SectorStates :
             Handle(TypeIII(fdc, selected, h, e, state))
  BY <1>1, <1>5, CommandFine
<1> QED BY <1>2, <1>3, <1>4, <1>5


LEMMA OthersHandled ==
  ASSUME IInv,
         plusd_dr_read \/ plusd_dr_write \/ FdcEventDue \/ TimeoutDue \/ MotorOffDue
  PROVE  \E outcomes : Handle(outcomes) /\ \A o \in outcomes : Result(fdc, o, selected)
<1>1. Good(fdc) /\ selected \in Drive
  BY DEF IInv, TypeOK, Good, selected
<1>2. CASE plusd_dr_read
  <2>1. fdc.state # "NONE"
    BY <1>2 DEF plusd_dr_read
  <2> QED BY <1>1, <1>2, <2>1, ReadResult DEF plusd_dr_read
<1>3. CASE plusd_dr_write
  <2>1. fdc.state # "NONE"
    BY <1>3 DEF plusd_dr_write
  <2> QED BY <1>1, <1>3, <2>1, WriteResult DEF plusd_dr_write
<1>4. CASE FdcEventDue
  BY <1>1, <1>4, FdcEventResult DEF FdcEventDue
<1>5. CASE TimeoutDue
  BY <1>1, <1>5, TimeoutResult DEF TimeoutDue
<1>6. CASE MotorOffDue
  BY <1>1, <1>6, MotorOffResult DEF MotorOffDue
<1> QED BY <1>2, <1>3, <1>4, <1>5, <1>6

LEMMA InvNext == IInv /\ [Next]_vars => IInv'
<1> SUFFICES ASSUME IInv, [Next]_vars PROVE IInv'
  OBVIOUS
<1>1. Good(fdc) /\ selected \in Drive /\ current_drive \in Drives
  BY DEF IInv, TypeOK, Good, selected
<1>2. CASE plusd_cr_write
  BY <1>2, CommandHandled, HandleKeeps DEF Fine
<1>3. CASE plusd_dr_read \/ plusd_dr_write \/ FdcEventDue \/ TimeoutDue \/ MotorOffDue
  BY <1>3, OthersHandled, HandleKeeps DEF Result
<1>4. CASE ForceInterrupt
  <2>1. PICK when \in {"never", "index", "at once"} : Handle(TypeIV(fdc, selected, when))
    BY <1>4 DEF ForceInterrupt
  <2>2. \A o \in TypeIV(fdc, selected, when) : Good(o.fdc) /\ Kept(selected, o.drive)
    BY <1>1, ForcedGood
  <2> QED BY <2>1, <2>2, HandleKeeps
<1>5. CASE plusd_sr_read
  <2>1. Good(fdc')
    BY <1>1, <1>5, IntrqGood DEF plusd_sr_read
  <2>2. TypeOK' /\ Waits(fdc)'
    BY <1>5, <2>1 DEF plusd_sr_read, IInv, TypeOK, Good, Waits
  <2> QED BY <1>5, <2>2 DEF plusd_sr_read, IInv, Settled, Held
<1>6. ASSUME NEW d \in Drives, plusd_cn_write(d)
      PROVE  IInv'
  BY <1>6, SelectKeeps
<1>7. ASSUME NEW d \in Drives,
             ui_media_drive_insert(d) \/ ui_media_drive_eject(d)
             \/ DriveReadyDue(d) \/ IndexDue(d)
      PROVE  IInv'
  <2>1. /\ drives[d] \in Drive /\ Settled(drives[d])
        /\ d \notin EjectSpinning => Held(drives[d])
    BY DEF IInv, TypeOK
  <2>2. CASE ui_media_drive_insert(d)
    <3>1. /\ fdd_load(drives[d]) \in Drive /\ Settled(fdd_load(drives[d]))
          /\ Held(fdd_load(drives[d]))
          /\ fdd_load(drives[d]).motoron = drives[d].motoron
      BY <2>1 DEF fdd_load, Drive, Settled, Held
    <3> QED BY <2>2, <3>1, DriveKeeps DEF ui_media_drive_insert
  <2>3. CASE ui_media_drive_eject(d)
    <3>1. /\ fdd_unload(drives[d]) \in Drive /\ Settled(fdd_unload(drives[d]))
          /\ fdd_unload(drives[d]).motoron = drives[d].motoron
      BY <2>1 DEF fdd_unload, fdd_motoron, Drive, Settled
    <3>2. d \notin EjectSpinning => Held(fdd_unload(drives[d]))
      BY <2>3, <3>1 DEF ui_media_drive_eject, Held
    <3> QED BY <2>3, <3>1, <3>2, DriveKeeps DEF ui_media_drive_eject
  <2>4. CASE DriveReadyDue(d)
    <3>1. /\ MotorEvent(drives[d]) \in Drive /\ Settled(MotorEvent(drives[d]))
          /\ MotorEvent(drives[d]).motoron = drives[d].motoron
          /\ MotorEvent(drives[d]).loaded = drives[d].loaded
      <4>1. PICK b \in BOOLEAN : b = (drives[d].motoron /\ drives[d].loaded)
        OBVIOUS
      <4>2. MotorEvent(drives[d]) = [drives[d] EXCEPT !.motor_event = FALSE, !.ready = b]
        BY <4>1 DEF MotorEvent
      <4> QED BY <2>1, <4>1, <4>2 DEF Drive, Settled
    <3>2. d \notin EjectSpinning => Held(MotorEvent(drives[d]))
      BY <2>1, <3>1 DEF Held
    <3> QED BY <2>4, <3>1, <3>2, DriveKeeps DEF DriveReadyDue
  <2>5. CASE IndexDue(d)
    <3>1. /\ IndexEvent(drives[d]) \in Drive /\ Settled(IndexEvent(drives[d]))
          /\ Held(drives[d]) => Held(IndexEvent(drives[d]))
          /\ IndexEvent(drives[d]).motoron = drives[d].motoron
      BY <2>1 DEF IndexEvent, Drive, Settled, Held
    <3> QED BY <2>1, <2>5, <3>1, DriveKeeps DEF IndexDue
  <2> QED BY <1>7, <2>2, <2>3, <2>4, <2>5
<1>8. CASE UNCHANGED vars
  BY <1>8 DEF vars, IInv, TypeOK, Waits, Settled, Held
<1> QED BY <1>2, <1>3, <1>4, <1>5, <1>6, <1>7, <1>8 DEF Next

LEMMA InvSignals ==
  IInv /\ [Next]_vars => [fdc.busy /\ ~fdc'.busy /\ ~ForceInterrupt => fdc'.intrq]_vars
<1> SUFFICES ASSUME IInv, Next, fdc.busy, ~fdc'.busy, ~ForceInterrupt
             PROVE  fdc'.intrq
  OBVIOUS
<1>1. CASE plusd_cr_write
  BY <1>1 DEF plusd_cr_write
<1>2. CASE plusd_dr_read \/ plusd_dr_write \/ FdcEventDue \/ TimeoutDue \/ MotorOffDue
  BY <1>2, OthersHandled DEF Result, Handle
<1>3. CASE plusd_sr_read
  BY <1>3 DEF plusd_sr_read, IInv, TypeOK, Fdc
<1>4. ASSUME NEW d \in Drives,
             plusd_cn_write(d) \/ ui_media_drive_insert(d)
             \/ ui_media_drive_eject(d) \/ DriveReadyDue(d)
      PROVE  fdc'.intrq
  BY <1>4 DEF plusd_cn_write, ui_media_drive_insert, ui_media_drive_eject, DriveReadyDue
<1>5. ASSUME NEW d \in Drives, IndexDue(d)
      PROVE  fdc'.intrq
  BY <1>5, IntrqTyped DEF IndexDue, IInv, TypeOK
<1> QED BY <1>1, <1>2, <1>3, <1>4, <1>5 DEF Next

LEMMA InvAlways == Spec => []IInv
<1>1. Init => IInv
  BY InvInit
<1>2. IInv /\ [Next]_vars => IInv'
  BY InvNext
<1> QED BY <1>1, <1>2, PTL DEF Spec

-----------------------------------------------------------------------------

\* The controller, the drives and the selection have their types: no transfer
\* runs past its sector, and no search past its revolutions (wd_fdc.c).
THEOREM TypeCorrect == Spec => []TypeOK
<1>1. IInv => TypeOK
  BY DEF IInv
<1> QED BY <1>1, InvAlways, PTL

\* No command is left without an event, a transfer under a timeout or an endless
\* search, but after an interrupted search (wd_fdc.c).
THEOREM NeverStranded == Spec => []Executing
<1>1. IInv => Executing
  BY DEF IInv, Waits, Executing, Abandoned
<1> QED BY <1>1, InvAlways, PTL

\* No drive spins that is not the one selected (plusd_cn_write), however many
\* there are.
THEOREM OneSpins == Spec => []MotorFollows
<1>1. IInv => MotorFollows
  BY DEF IInv, MotorFollows
<1> QED BY <1>1, InvAlways, PTL

\* READY never differs from the motor for good (fdd_motoron, fdd_load).
THEOREM ReadyFollows == Spec => []ReadySettles
<1>1. IInv => ReadySettles
  BY DEF IInv, ReadySettles, Settled
<1> QED BY <1>1, InvAlways, PTL

\* No command ends by itself without INTRQ (wd_fdc_set_intrq).
THEOREM EndsSignalled == Spec => CompletionSignalled
<1>1. IInv /\ [Next]_vars => [fdc.busy /\ ~fdc'.busy /\ ~ForceInterrupt => fdc'.intrq]_vars
  BY InvSignals
<1> QED BY <1>1, InvAlways, PTL DEF Spec, CompletionSignalled

=============================================================================

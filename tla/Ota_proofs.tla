------------------------------ MODULE Ota_proofs ------------------------------
(***************************************************************************)
(* Proofs about Ota: an update that suffers no unreported mishap is one    *)
(* atomic step, wherever the power fails.                                  *)
(***************************************************************************)
EXTENDS Ota, TLAPS

Busy == {"boot_info", "request", "delete", "create", "body", "save"}

(* The file that is written is the one the boot info does not name.  The   *)
(* name of the file starts as that of image 2 and is only ever assigned    *)
(* that of image 1, which is right once in a boot.                         *)
WritesOther ==
  /\ (~updated /\ active = 1) => dst = 2
  /\ step \in Busy \ {"boot_info"} => dst = choice /\ choice # active

UpdateInv ==
  /\ rc = "busy" <=> step \in Busy
  /\ rc = "success" => updated
  /\ step \in Busy => want \in Versions
  /\ hidden \subseteq {"unwritten"} =>
       /\ step # "dead"
       /\ updated => step = "idle"
       /\ WritesOther
       /\ step = "save" => image[dst] = want
       /\ image[active] # NoImage
  /\ (hidden = {} /\ rc = "success") => image[active] = want

-----------------------------------------------------------------------------
LEMMA InitInv == Init => TypeOK /\ UpdateInv
BY OtaAssumption DEF Init, TypeOK, UpdateInv, WritesOther, Steps, Slots, Busy

(* Every value an action assigns has the type of its variable. *)
LEMMA StepTypeOK == TypeOK /\ [Next]_vars => TypeOK'
<1> SUFFICES ASSUME TypeOK, [Next]_vars PROVE TypeOK'
  OBVIOUS
<1> USE DEF TypeOK, files, Steps, Slots, Return, Suffer
<1>1. ASSUME NEW v \in Versions, BeginUpdate(v) PROVE TypeOK'
  BY <1>1 DEF BeginUpdate
<1>2. CASE NotStarted
  BY <1>2 DEF NotStarted
<1>3. CASE ReadBootInfo
  BY <1>3 DEF ReadBootInfo
<1>4. CASE Download
  BY <1>4 DEF Download, RequestFails, RequestUnanswered, RequestAnswered, DeleteOld, CreateNew,
              BodyReceived, BodyShort, BodyAborted
<1>5. CASE SaveBootInfo
  BY <1>5 DEF SaveBootInfo
<1>6. CASE Boot
  BY <1>6 DEF Boot
<1>7. CASE UNCHANGED vars
  BY <1>7 DEF vars
<1> QED
  BY <1>1, <1>2, <1>3, <1>4, <1>5, <1>6, <1>7 DEF Next

LEMMA StepInv == TypeOK /\ UpdateInv /\ [Next]_vars => UpdateInv'
<1> SUFFICES ASSUME TypeOK, UpdateInv, [Next]_vars PROVE UpdateInv'
  OBVIOUS
<1> USE OtaAssumption DEF TypeOK, UpdateInv, WritesOther, files, Slots, Busy, Return, Suffer
<1>1. ASSUME NEW v \in Versions, BeginUpdate(v) PROVE UpdateInv'
  BY <1>1 DEF BeginUpdate
<1>2. CASE NotStarted
  BY <1>2 DEF NotStarted
<1>3. CASE ReadBootInfo
  BY <1>3 DEF ReadBootInfo
<1>4. CASE RequestFails
  BY <1>4 DEF RequestFails
<1>5. CASE RequestUnanswered
  BY <1>5 DEF RequestUnanswered
<1>6. CASE RequestAnswered
  BY <1>6 DEF RequestAnswered
<1>7. CASE DeleteOld
  BY <1>7 DEF DeleteOld
<1>8. CASE CreateNew
  BY <1>8 DEF CreateNew
<1>9. CASE BodyReceived
  BY <1>9 DEF BodyReceived
<1>10. CASE BodyShort
  BY <1>10 DEF BodyShort
<1>11. CASE BodyAborted
  BY <1>11 DEF BodyAborted
<1>12. CASE SaveBootInfo
  BY <1>12 DEF SaveBootInfo
<1>13. CASE Boot
  BY <1>13 DEF Boot
<1>14. CASE UNCHANGED vars
  BY <1>14 DEF vars
<1> QED
  BY <1>1, <1>2, <1>3, <1>4, <1>5, <1>6, <1>7, <1>8, <1>9, <1>10, <1>11, <1>12, <1>13, <1>14
     DEF Next, Download

LEMMA Invariance == Spec => [](TypeOK /\ UpdateInv)
BY InitInv, StepTypeOK, StepInv, PTL DEF Spec

(* Every reachable state of an update is well-formed, wherever it fails or *)
(* power is lost.                                                          *)
THEOREM OtaTypeCorrect == Spec => []TypeOK
BY Invariance, PTL

(* Whatever step the power fails at, and however an update fails in a way  *)
(* the code reports, the image the boot info names is whole.               *)
THEOREM NodeAlwaysBoots == Spec => []AlwaysBoots
<1>1. UpdateInv => AlwaysBoots
  BY DEF UpdateInv, AlwaysBoots
<1> QED
  BY <1>1, Invariance, PTL

(* Without an unreported mishap, success means that the program asked for  *)
(* is the one that boots.                                                  *)
THEOREM SuccessIsInstalled == Spec => []SuccessInstalls
<1>1. UpdateInv => SuccessInstalls
  BY DEF UpdateInv, SuccessInstalls
<1> QED
  BY <1>1, Invariance, PTL

-----------------------------------------------------------------------------
(* Up to the first unreported mishap, each step of the update is a step of *)
(* the atomic update or a stutter.                                         *)
LEMMA StepAtomic ==
  TypeOK /\ UpdateInv /\ [Next]_vars => (hidden' = {} => [Atomic!Next]_(Atomic!vars))
<1> SUFFICES ASSUME TypeOK, UpdateInv, [Next]_vars, hidden' = {}
             PROVE  Atomic!Next \/ UNCHANGED <<image[active], want, rc>>
  BY DEF Atomic!vars
<1> USE OtaAssumption DEF TypeOK, UpdateInv, WritesOther, files, Slots, Busy, Return, Suffer
<1>0. hidden = {} \/ hidden' = hidden \/ \E m : hidden' = hidden \cup {m}
  BY DEF Next, vars, BeginUpdate, NotStarted, ReadBootInfo, Download, RequestFails,
         RequestUnanswered, RequestAnswered, DeleteOld, CreateNew, BodyReceived, BodyShort,
         BodyAborted, SaveBootInfo, Boot
<1>1. ASSUME NEW v \in Versions, BeginUpdate(v) PROVE Atomic!Ask(v)
  BY <1>1 DEF BeginUpdate, Atomic!Ask
<1>2. CASE NotStarted \/ RequestFails \/ BodyShort
  BY <1>2 DEF NotStarted, RequestFails, BodyShort, Atomic!Next, Atomic!Fail
<1>3. CASE ReadBootInfo \/ RequestAnswered
  BY <1>3 DEF ReadBootInfo, RequestAnswered
<1>4. CASE RequestUnanswered \/ BodyAborted
  BY <1>4 DEF RequestUnanswered, BodyAborted
<1>5. CASE DeleteOld
  BY <1>0, <1>5 DEF DeleteOld
<1>6. CASE CreateNew
  BY <1>6 DEF CreateNew, Atomic!Next, Atomic!Fail
<1>7. CASE BodyReceived
  BY <1>0, <1>7 DEF BodyReceived
<1>8. CASE SaveBootInfo
  BY <1>0, <1>8 DEF SaveBootInfo, Atomic!Next, Atomic!Install, Atomic!Fail
<1>9. CASE Boot
  BY <1>9 DEF Boot, Atomic!Next, Atomic!Restart
<1>10. CASE UNCHANGED vars
  BY <1>10 DEF vars
<1> QED
  BY <1>1, <1>2, <1>3, <1>4, <1>5, <1>6, <1>7, <1>8, <1>9, <1>10 DEF Next, Download, Atomic!Next

(* The update implements the atomic update until a mishap goes unreported. *)
THEOREM OtaIsAtomic == Spec => UpdateIsAtomic
<1>1. Init => Atomic!Init
  BY OtaAssumption DEF Init, Atomic!Init
<1>2. TypeOK /\ UpdateInv /\ [Next]_vars
        => [hidden' = {} => [Atomic!Next]_(Atomic!vars)]_vars
  BY StepAtomic
<1> QED
  BY <1>1, <1>2, Invariance, PTL DEF Spec, UpdateIsAtomic
=============================================================================

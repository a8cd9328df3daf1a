--------------------------------- MODULE Ota ---------------------------------
(***************************************************************************)
(* The update of the node's own program over the air: OTA_UpdateAppBin and *)
(* what it calls (server_if.c, HTTP_GETDownloadFile in internet_if.c), the *)
(* two program files, and the boot loader that starts one of them.  Every  *)
(* access to the file system is a step of its own, between any two of      *)
(* which the node may lose power.                                          *)
(***************************************************************************)
EXTENDS Integers

CONSTANTS
  Versions,    \* programs the server has
  NoImage,     \* a program file that is missing or incomplete
  Unreported   \* which of the mishaps that the code does not report may happen

ASSUME OtaAssumption ==
  /\ NoImage \notin Versions
  /\ Unreported \subseteq {"unread", "status", "closing", "aborted", "unwritten", "repeat"}

VARIABLES
  image,    \* /sys/mcuimg1.bin (IMG_ACT_FACTORY), /sys/mcuimg2.bin (IMG_ACT_USER1)
  active,   \* the image IMG_BOOT_INFO names
  dst,      \* g_ucOTABinFN
  step,     \* where OTA_UpdateAppBin is
  want,     \* the program firmware_binary names
  choice,   \* sBootInfo.ucActiveImg
  rc,       \* what the latest update has returned
  updated,  \* an update has succeeded since the node booted (history)
  hidden    \* the unreported mishaps so far (history)

files == <<image, active>>
vars == <<files, dst, step, want, choice, rc, updated, hidden>>

Slots == {1, 2}

Steps == {"idle", "boot_info", "request", "delete", "create", "body", "save", "dead"}

(* One program is installed; the other file may hold any or none. *)
Init ==
  /\ image \in [Slots -> Versions \cup {NoImage}]
  /\ active \in Slots
  /\ image[active] # NoImage
  /\ dst = 2
  /\ step = "idle"
  /\ want = image[active]
  /\ choice = active
  /\ rc = "none"
  /\ updated = FALSE
  /\ hidden = {}

Suffer(mishap) == mishap \in Unreported /\ hidden' = hidden \cup {mishap}

Return(r) == step' = "idle" /\ rc' = r

-----------------------------------------------------------------------------
(* An "ota" command: messageArrived sets the name and calls the update.    *)
(* The reboot after a successful update waits for the acknowledgement to   *)
(* be published, and another command may come first.                       *)
BeginUpdate(v) ==
  /\ step = "idle"
  /\ IF updated THEN Suffer("repeat") ELSE UNCHANGED hidden
  /\ want' = v
  /\ rc' = "busy"
  /\ step' = "boot_info"
  /\ UNCHANGED <<files, dst, choice, updated>>

(* No server (AIR_ConnectAIRUServer), or the boot info cannot be read.  *)
NotStarted ==
  /\ step = "boot_info"
  /\ Return("fail")
  /\ UNCHANGED <<files, dst, want, choice, updated, hidden>>

(* Fault: the name of the file is never changed. *)
ReadBootInfoOnly ==
  /\ step = "boot_info"
  /\ choice' = IF active = 1 THEN 2 ELSE 1
  /\ step' = "request"
  /\ UNCHANGED <<files, dst, want, rc, updated, hidden>>

(* If the boot info cannot even be opened, sBootInfo is what the stack     *)
(* holds.  The name of the file is assigned on one of the two paths only.  *)
ReadBootInfo ==
  /\ step = "boot_info"
  /\ \E info \in Slots :
       /\ \/ info = active /\ UNCHANGED hidden
          \/ Suffer("unread")
       /\ choice' = IF info = 1 THEN 2 ELSE 1
       /\ dst' = IF info = 1 THEN dst ELSE 1
  /\ step' = "request"
  /\ UNCHANGED <<files, want, rc, updated>>

(* The GET.  An error of the connection is negative and returned.  A       *)
(* status other than 200, and the 200 of an answer with the field          *)
(* "Connection: close", are returned as well, but they are not negative.   *)
RequestFails ==
  /\ step = "request"
  /\ Return("fail")
  /\ UNCHANGED <<files, dst, want, choice, updated, hidden>>

RequestUnanswered ==
  /\ step = "request"
  /\ Suffer("status") \/ Suffer("closing")
  /\ step' = "save"
  /\ UNCHANGED <<files, dst, want, choice, rc, updated>>

(* Fault: the boot info is written before the download. *)
RequestAnsweredSaved ==
  /\ step = "request"
  /\ step' = "delete"
  /\ active' = choice
  /\ UNCHANGED <<image, dst, want, choice, rc, updated, hidden>>

RequestAnswered ==
  /\ step = "request"
  /\ step' = "delete"
  /\ UNCHANGED <<files, dst, want, choice, rc, updated, hidden>>

DeleteOld ==
  /\ step = "delete"
  /\ image' = [image EXCEPT ![dst] = NoImage]
  /\ step' = "create"
  /\ UNCHANGED <<active, dst, want, choice, rc, updated, hidden>>

CreateNew ==
  /\ step = "create"
  /\ \/ step' = "body" /\ UNCHANGED rc
     \/ Return("fail")
  /\ UNCHANGED <<files, dst, want, choice, updated, hidden>>

(* The whole body arrives and the file is closed. *)
BodyReceived ==
  /\ step = "body"
  /\ image' = [image EXCEPT ![dst] = want]
  /\ step' = "save"
  /\ UNCHANGED <<active, dst, want, choice, rc, updated, hidden>>

(* Fault: the size of the file is not compared. *)
BodyShortAccepted ==
  /\ step = "body"
  /\ step' = "save"
  /\ UNCHANGED <<files, dst, want, choice, rc, updated, hidden>>

(* The size is not that of the header, as when a block of the body happens *)
(* to end in "\r\n" and the loop stops; or the file cannot be closed.      *)
BodyShort ==
  /\ step = "body"
  /\ Return("fail")
  /\ UNCHANGED <<files, dst, want, choice, updated, hidden>>

(* Reading or writing fails: the file is abandoned, and what is returned   *)
(* is the result of abandoning it, 0.                                      *)
BodyAborted ==
  /\ step = "body"
  /\ Suffer("aborted")
  /\ step' = "save"
  /\ UNCHANGED <<files, dst, want, choice, rc, updated>>

(* The boot info is opened, written and closed, here in one step: power is *)
(* not lost within it.  The result of the write itself is not looked at.   *)
SaveBootInfo ==
  /\ step = "save"
  /\ UNCHANGED <<image, dst, want, choice>>
  /\ \/ /\ Return("success")
        /\ active' = choice
        /\ updated' = TRUE
        /\ UNCHANGED hidden
     \/ /\ Suffer("unwritten")
        /\ Return("success")
        /\ updated' = TRUE
        /\ UNCHANGED active
     \/ /\ Return("fail")
        /\ UNCHANGED <<active, updated, hidden>>

(* RebootMCU, the watchdog or a loss of power: the boot loader starts the  *)
(* active image, if there is one.                                          *)
Boot ==
  /\ step # "dead"
  /\ step' = IF image[active] = NoImage THEN "dead" ELSE "idle"
  /\ dst' = 2
  /\ want' = image[active]
  /\ choice' = active
  /\ rc' = "none"
  /\ updated' = FALSE
  /\ UNCHANGED <<files, hidden>>

-----------------------------------------------------------------------------
Download == \/ RequestFails \/ RequestUnanswered \/ RequestAnswered
            \/ DeleteOld \/ CreateNew
            \/ BodyReceived \/ BodyShort \/ BodyAborted

Next == \/ \E v \in Versions : BeginUpdate(v)
        \/ NotStarted \/ ReadBootInfo
        \/ Download
        \/ SaveBootInfo
        \/ Boot

Spec == Init /\ [][Next]_vars

-----------------------------------------------------------------------------
(***************************************************************************)
(* Properties.                                                             *)
(***************************************************************************)

(* Every variable holds a value of the range the code gives it; ucActiveImg *)
(* always names one of the two images.                                      *)
TypeOK ==
  /\ image \in [Slots -> Versions \cup {NoImage}]
  /\ active \in Slots /\ dst \in Slots /\ choice \in Slots
  /\ step \in Steps
  /\ want \in Versions \cup {NoImage}
  /\ rc \in {"none", "busy", "success", "fail"}
  /\ updated \in BOOLEAN
  /\ hidden \subseteq Unreported

(* Power may be lost at any step of an update, and the update may fail in  *)
(* any way the code reports: there is always a program to boot.            *)
AlwaysBoots == hidden \subseteq {"unwritten"} => image[active] # NoImage

(* An update that reports success has installed what it was asked for.     *)
SuccessInstalls == (rc = "success" /\ hidden = {}) => image[active] = want

(* An update as the operator of the node sees it. *)
Atomic == INSTANCE AtomicUpdate WITH boots <- image[active], asked <- want

(* Seen from outside, an update is one atomic step, up to the first        *)
(* unreported mishap.                                                      *)
UpdateIsAtomic == Atomic!Init /\ [][hidden' = {} => [Atomic!Next]_(Atomic!vars)]_vars

(* server_if.c, OTA_UpdateAppBin: "Downloads and updates application       *)
(* binary", "Success [0] or Failure [<0]".                                 *)
ReportsHonestly == rc = "success" => image[active] = want
=============================================================================

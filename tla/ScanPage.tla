------------------------------ MODULE ScanPage ------------------------------
(***************************************************************************)
(* The list of networks on the configuration page (internet_if.c): the     *)
(* scan, the removal of duplicates, and the two tokens of 64 characters    *)
(* the page asks for it with.  One turn of a loop is one step; nothing     *)
(* comes between the turns but the checks of the properties.               *)
(***************************************************************************)
EXTENDS Integers, Sequences

CONSTANTS
  Scans,    \* what a scan may find: sequences of [ssid, rssi]
  Hidden,   \* the name of a network that does not tell its name
  SsidLen   \* the length of each name

(* The network processor reports signals above -128 dBm, and names of at   *)
(* most 32 characters.                                                     *)
ASSUME ScanAssumption ==
  /\ \A s \in Scans : s \in Seq([ssid : DOMAIN SsidLen, rssi : Int])
  /\ \A s \in Scans : \A i \in DOMAIN s : s[i].rssi > -128
  /\ \A ssid \in DOMAIN SsidLen : SsidLen[ssid] \in 0 .. 32 /\ (SsidLen[ssid] = 0 <=> ssid = Hidden)

VARIABLES
  netEntries, \* ScanResults, of num_entries entries; <<>> before the scan
  found,      \* what the scan found (history)
  page,       \* what is being done with them
  tmp1, tmp2, \* the counters of the loops, from 1
  ptr,        \* the length of the answer
  gets,       \* g_ulSSIDGETIndices
  token1,     \* the answer to token 1, until token 2 is asked for (history)
  token2,     \* the answer to token 2 (history)
  tokens      \* which of these have been asked for (history)

scanVars == <<netEntries, found>>
listVars == <<gets, token1, token2, tokens>>
pageVars == <<scanVars, page, tmp1, tmp2, ptr, listVars>>

MAX_TOKEN_VALUE_LEN == 64
Header == 9   \* {"SSID":[
Closing == 6  \* ,"<ssid>"]} and a terminating zero

-----------------------------------------------------------------------------
(* The scan. *)

EntryOf(f) == [ssid |-> f.ssid, rssi |-> f.rssi, len |-> SsidLen[f.ssid]]
Removed(e) == [ssid |-> e.ssid, rssi |-> -128, len |-> 0]

(* Once after a power cycle, before the node becomes an access point.      *)
Wlan_Scan ==
  /\ page = "off"
  /\ \E s \in Scans \ {<<>>} : found' = s /\ netEntries' = [i \in DOMAIN s |-> EntryOf(s[i])]
  /\ page' = "compare" /\ tmp1' = 1 /\ tmp2' = 1
  /\ UNCHANGED <<ptr, listVars>>

Same(e, i, j) == i # j /\ e[i].ssid # Hidden /\ e[i].ssid = e[j].ssid

(* Fault: of two entries with one name, the weaker is kept. *)
CompareWeaker(e, i, j) ==
  IF ~Same(e, i, j) THEN e
  ELSE IF e[j].rssi < e[i].rssi THEN [e EXCEPT ![i] = Removed(@)]
  ELSE [e EXCEPT ![j] = Removed(@)]

(* Two entries of one name: the weaker is removed, of equals the second.   *)
Compare(e, i, j) ==
  IF ~Same(e, i, j) THEN e
  ELSE IF e[j].rssi > e[i].rssi THEN [e EXCEPT ![i] = Removed(@)]
  ELSE [e EXCEPT ![j] = Removed(@)]

_removeDuplicates ==
  /\ page = "compare"
  /\ netEntries' = Compare(netEntries, tmp1, tmp2)
  /\ IF tmp2 < Len(netEntries)
       THEN page' = page /\ tmp1' = tmp1 /\ tmp2' = tmp2 + 1
       ELSE /\ page' = IF tmp1 < Len(netEntries) THEN page ELSE "sort"
            /\ tmp1' = tmp1 + 1 /\ tmp2' = 1
  /\ UNCHANGED <<found, ptr, listVars>>

Onto(p, n) == \A i \in 1 .. n : \E k \in 1 .. n : p[k] = i

(* qsort: strongest first, and equals in any order. *)
_sortByRSSI ==
  /\ page = "sort"
  /\ LET n == Len(netEntries) IN
       \E p \in [1 .. n -> 1 .. n] :
         /\ \A i, k \in 1 .. n : i # k => p[i] # p[k]
         /\ Onto(p, n)
         /\ \A i, k \in 1 .. n : i < k => netEntries[p[i]].rssi >= netEntries[p[k]].rssi
         /\ netEntries' = [i \in 1 .. n |-> netEntries[p[i]]]
  /\ page' = "idle"
  /\ UNCHANGED <<found, tmp1, tmp2, ptr, listVars>>

-----------------------------------------------------------------------------
(* The tokens.  A list is what has been written of it: the indices, which  *)
(* of them follow a comma, and where each ends.  An entry that would       *)
(* exceed the limit is passed over for the next.                           *)

Fits(end, e) == Closing + end + e.len <= MAX_TOKEN_VALUE_LEN

Item(comma) ==
  [index |-> tmp1, comma |-> comma, end |-> ptr + netEntries[tmp1].len + IF comma THEN 3 ELSE 2]

Indices(list) == {list[k].index : k \in DOMAIN list}

Begins(token) == page = "idle" /\ page' = token /\ tmp1' = 1 /\ ptr' = Header

GetToken1 ==
  /\ Begins("list1")
  /\ gets' = {} /\ token1' = <<>> /\ token2' = <<>> /\ tokens' = {1}
  /\ UNCHANGED <<scanVars, tmp2>>

(* Token 2 lists what token 1 did not, and forgets what that was: asked    *)
(* for without it, it starts from the first.                               *)
GetToken2 ==
  /\ Begins("list2")
  /\ token2' = <<>>
  /\ IF gets = {} THEN token1' = <<>> /\ tokens' = {2} ELSE token1' = token1 /\ tokens' = {1, 2}
  /\ UNCHANGED <<scanVars, tmp2, gets>>

Turn(token) == page = token /\ tmp1 <= Len(netEntries) /\ page' = page /\ tmp1' = tmp1 + 1

Listed == netEntries[tmp1].len # 0 /\ Fits(ptr, netEntries[tmp1])

PassOver ==
  /\ Turn("list1") \/ Turn("list2")
  /\ Listed => page = "list2" /\ tmp1 \in gets
  /\ UNCHANGED <<scanVars, tmp2, ptr, listVars>>

(* Token 1 leaves out the comma before the first entry of the table.       *)
List1 ==
  /\ Turn("list1") /\ Listed
  /\ token1' = Append(token1, Item(tmp1 # 1))
  /\ ptr' = Item(tmp1 # 1).end
  /\ gets' = gets \cup {tmp1}
  /\ UNCHANGED <<scanVars, tmp2, token2, tokens>>

(* Token 2 leaves out the one before its first.                            *)
List2 ==
  /\ Turn("list2") /\ Listed /\ tmp1 \notin gets
  /\ token2' = Append(token2, Item(token2 # <<>>))
  /\ ptr' = Item(token2 # <<>>).end
  /\ UNCHANGED <<scanVars, tmp2, gets, token1, tokens>>

SendToken ==
  /\ page \in {"list1", "list2"} /\ tmp1 > Len(netEntries)
  /\ page' = "idle"
  /\ gets' = IF page = "list2" THEN {} ELSE gets
  /\ UNCHANGED <<scanVars, tmp1, tmp2, ptr, token1, token2, tokens>>

SimpleLinkHttpServerCallback == GetToken1 \/ GetToken2 \/ PassOver \/ List1 \/ List2 \/ SendToken

-----------------------------------------------------------------------------
PageInit ==
  /\ netEntries = <<>> /\ found = <<>> /\ page = "off"
  /\ tmp1 = 1 /\ tmp2 = 1 /\ ptr = 0
  /\ gets = {} /\ token1 = <<>> /\ token2 = <<>> /\ tokens = {}

PageNext == Wlan_Scan \/ _removeDuplicates \/ _sortByRSSI \/ SimpleLinkHttpServerCallback

PageSpec == PageInit /\ [][PageNext]_pageVars

-----------------------------------------------------------------------------
(***************************************************************************)
(* Properties.                                                             *)
(***************************************************************************)
Name(item) == netEntries[item.index].ssid

End(list) == IF list = <<>> THEN Header ELSE list[Len(list)].end

(* A network that tells its name is received better than all that do not.  *)
StrongestTells ==
  \E i \in DOMAIN found :
    /\ found[i].ssid # Hidden
    /\ \A j \in DOMAIN found : found[j].ssid = Hidden => found[j].rssi < found[i].rssi

(* A list of JSON strings: a comma before each but the first.              *)
WellFormed(list) == \A k \in DOMAIN list : list[k].comma = (k > 1)

(* No signal of a network is stronger than the best of one before it.      *)
StrongestFirst(list) ==
  \A k, l \in DOMAIN list : k < l =>
    \A i \in DOMAIN found : found[i].ssid = Name(list[l]) =>
      \E j \in DOMAIN found : found[j].ssid = Name(list[k]) /\ found[j].rssi >= found[i].rssi

NoRoom(list, ssid) == End(list) + 3 + SsidLen[ssid] + 3 > MAX_TOKEN_VALUE_LEN

Names(list) == {Name(list[k]) : k \in DOMAIN list}

(* "Remove duplicates (keep best RSSI)": whatever the scan finds, the two  *)
(* lists the page asks for name networks, the strongest first; none is in  *)
(* them twice, and one that is in neither had no room; with its end and a  *)
(* zero, a list is no longer than a token.  It is well formed, if the      *)
(* strongest network is not one that hides its name.                       *)
NetworksListedOnce ==
  /\ \A list \in {token1, token2} :
       /\ End(list) + 3 <= MAX_TOKEN_VALUE_LEN
       /\ Hidden \notin Names(list)
       /\ StrongestFirst(list)
       /\ \A k, l \in DOMAIN list : k # l => Name(list[k]) # Name(list[l])
       /\ StrongestTells => WellFormed(list)
  /\ Names(token1) \cap Names(token2) = {}
  /\ page = "idle" =>
       \A i \in DOMAIN found : found[i].ssid # Hidden =>
         /\ 1 \in tokens => found[i].ssid \in Names(token1) \/ NoRoom(token1, found[i].ssid)
         /\ 2 \in tokens => found[i].ssid \in Names(token1) \cup Names(token2) \/ NoRoom(token2, found[i].ssid)
=============================================================================

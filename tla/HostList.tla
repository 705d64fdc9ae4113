------------------------------ MODULE HostList ------------------------------
(***************************************************************************)
(* The list of controlled machines: the dialog of rcontrol_client/src/     *)
(* dlg.rs, its file hosts.txt, and the loop of main.rs that shows it again *)
(* after each connection.                                                  *)
(*                                                                         *)
(* Each client process reads the file when its dialog opens, keeps the     *)
(* list in memory beside the rows it shows, and writes the whole list back *)
(* after each change.  An entry stands for its name, address and password; *)
(* the address has its port already.  Several rows may be selected, by     *)
(* Ctrl, Shift or a drag: the list view is not of the single-selection     *)
(* kind.                                                                   *)
(***************************************************************************)
EXTENDS Naturals, Sequences, FiniteSets, SequencesExt

CONSTANTS
  Clients,    (* client processes that share the file                  *)
  Hosts,      (* entries that a person fills in                        *)
  Hashed,     (* those of them whose name begins with '#'              *)
  Prefilled,  (* the entry made of the last address; has no password   *)
  Blank,      (* the empty form                                        *)
  MaxHosts,   (* bound: entries in a list                              *)
  MaxEdits,   (* bound: changes of the list                            *)
  MaxFaults   (* bound: failing reads and writes of the file           *)

ASSUME HostListAssumption ==
  /\ Hashed \subseteq Hosts
  /\ Prefilled \notin Hosts /\ Blank \notin Hosts \cup {Prefilled}
  /\ MaxHosts \in Nat \ {0} /\ MaxEdits \in Nat /\ MaxFaults \in Nat

VARIABLES
  file,       (* hosts.txt                                             *)
  last_addr,  (* the client's configuration holds a last address       *)
  dialog,     (* of each client: its dialog is on the screen           *)
  hosts,      (* DlgState.hosts                                        *)
  rows,       (* what the list view shows                              *)
  selected,   (* the selected rows                                     *)
  form,       (* what the fields of the form hold                      *)
  result,     (* RESULT: the machine to connect to, Blank if none      *)
  pointed,    (* history: what the row showed whose double click led   *)
              (* to this result, Blank if none did, or if a row above  *)
              (* it was selected too                                   *)
  failed,     (* history: its last attempt to save failed              *)
  stale,      (* history: the file is not what it loaded or saved last *)
  edits, faults

memory == <<hosts, rows, selected, form>>
connection == <<result, pointed>>
outcome == <<failed, stale, edits, faults>>
DialogVars == <<file, last_addr, dialog, memory, connection, outcome>>

Entries == Hosts \cup {Prefilled}
Lists == BoundedSeq(Entries, MaxHosts)

DialogTypeOK ==
  /\ file \in Lists
  /\ last_addr \in BOOLEAN
  /\ dialog \in [Clients -> BOOLEAN]
  /\ hosts \in [Clients -> Lists] /\ rows \in [Clients -> Lists]
  /\ selected \in [Clients -> SUBSET (1 .. MaxHosts)]
  /\ form \in [Clients -> Entries \cup {Blank}]
  /\ result \in [Clients -> Hosts \cup {Blank}] /\ pointed \in [Clients -> Entries \cup {Blank}]
  /\ failed \in [Clients -> BOOLEAN] /\ stale \in [Clients -> BOOLEAN]
  /\ edits \in 0 .. MaxEdits /\ faults \in 0 .. MaxFaults

DialogInit ==
  /\ file = <<>> /\ last_addr = FALSE
  /\ dialog = [c \in Clients |-> FALSE]
  /\ hosts = [c \in Clients |-> <<>>] /\ rows = [c \in Clients |-> <<>>]
  /\ selected = [c \in Clients |-> {}]
  /\ form = [c \in Clients |-> Blank]
  /\ result = [c \in Clients |-> Blank] /\ pointed = [c \in Clients |-> Blank]
  /\ failed = [c \in Clients |-> FALSE] /\ stale = [c \in Clients |-> FALSE]
  /\ edits = 0 /\ faults = 0

Fault == faults < MaxFaults /\ faults' = faults + 1

-----------------------------------------------------------------------------
(* The dialog opens and ends                                               *)

MutantLoadMissesLastLine(text) ==
  LET lines == IF text = <<>> THEN text ELSE Front(text)
      read == SelectSeq(lines, LAMBDA h : h \notin Hashed)
  IN IF read = <<>> /\ last_addr THEN <<Prefilled>> ELSE read

\* Line by line; one that begins with '#' is a comment. An empty list is filled from the
\* last address.
load_hosts(text) ==
  LET read == FlattenSeq([n \in DOMAIN text |-> IF text[n] \in Hashed THEN <<>> ELSE <<text[n]>>])
  IN IF read = <<>> /\ last_addr THEN <<Prefilled>> ELSE read

\* The process starts, or comes back from a connection that failed or was left. A file
\* that cannot be read counts as empty.
Open(c) ==
  /\ ~dialog[c]
  /\ dialog' = [dialog EXCEPT ![c] = TRUE]
  /\ \/ /\ hosts' = [hosts EXCEPT ![c] = load_hosts(file)]
        /\ stale' = [stale EXCEPT ![c] = FALSE]
        /\ UNCHANGED faults
     \/ /\ Fault
        /\ hosts' = [hosts EXCEPT ![c] = load_hosts(<<>>)]
        /\ stale' = [stale EXCEPT ![c] = TRUE]
  /\ rows' = [rows EXCEPT ![c] = hosts'[c]]
  /\ selected' = [selected EXCEPT ![c] = {}]
  /\ form' = [form EXCEPT ![c] = Blank]
  /\ result' = [result EXCEPT ![c] = Blank] /\ pointed' = [pointed EXCEPT ![c] = Blank]
  /\ failed' = [failed EXCEPT ![c] = FALSE]
  /\ UNCHANGED <<file, last_addr, edits>>

\* The window is destroyed, and its state with it.
Destroy(c) ==
  /\ dialog' = [dialog EXCEPT ![c] = FALSE]
  /\ hosts' = [hosts EXCEPT ![c] = <<>>] /\ rows' = [rows EXCEPT ![c] = <<>>]
  /\ selected' = [selected EXCEPT ![c] = {}]
  /\ form' = [form EXCEPT ![c] = Blank]

Quit(c) ==
  /\ dialog[c]
  /\ Destroy(c)
  /\ UNCHANGED <<file, last_addr, connection, outcome>>

\* on_connect with these fields: address and password must be there. Whether the address
\* could be kept for the next start is not looked at.
ConnectWith(c, fields) ==
  /\ fields \in Hosts
  /\ last_addr' \in {TRUE, last_addr}
  /\ result' = [result EXCEPT ![c] = fields]
  /\ Destroy(c)

on_connect(c) ==
  /\ dialog[c] /\ ConnectWith(c, form[c])
  /\ UNCHANGED <<file, pointed, outcome>>

-----------------------------------------------------------------------------
(* Selecting and filling in                                                *)

\* What the list view selects when row r is pointed at: that row alone; with Ctrl, it
\* comes to the others or leaves them; with Shift, all from another row to it. The place
\* below the rows, here row 0, takes the selection away; with Ctrl, it leaves it.
Selections(c, r) ==
  IF r = 0 THEN {{}, selected[c]}
  ELSE {{r}, SymDiff(selected[c], {r})}
         \cup {{q \in DOMAIN rows[c] : (a <= q /\ q <= r) \/ (r <= q /\ q <= a)} : a \in DOMAIN rows[c]}

\* The lowest of the rows in s, 0 if there is none.
lv_selected(s) == IF s = {} THEN 0 ELSE Min(s)

\* What sel_to_form leaves in the form when the rows in s are selected.
FormOf(c, s) ==
  IF lv_selected(s) \in DOMAIN hosts[c] THEN hosts[c][lv_selected(s)] ELSE form[c]

Click(c, s) ==
  /\ dialog[c] /\ s \in UNION {Selections(c, r) : r \in DOMAIN rows[c] \cup {0}}
  /\ selected' = [selected EXCEPT ![c] = s]
  /\ form' = [form EXCEPT ![c] = FormOf(c, s)]
  /\ UNCHANGED <<file, last_addr, dialog, hosts, rows, connection, outcome>>

\* A double click also connects; where it cannot, it is no more than a click. With Ctrl
\* its second half may undo the first.
DoubleClick(c, r, s) ==
  /\ dialog[c] /\ r \in DOMAIN rows[c] \cup {0}
  /\ s \in Selections(c, r) \cup {selected[c]} /\ (r # 0 => s # {})
  /\ ConnectWith(c, FormOf(c, s))
  /\ pointed' = [pointed EXCEPT ![c] = IF r # 0 /\ r = lv_selected(s) THEN rows[c][r] ELSE Blank]
  /\ UNCHANGED <<file, outcome>>

\* The keys move and extend the selection; nothing fills the form.
ArrowKey(c, s) ==
  /\ dialog[c] /\ s \in UNION {Selections(c, r) : r \in DOMAIN rows[c]}
  /\ selected' = [selected EXCEPT ![c] = s]
  /\ UNCHANGED <<file, last_addr, dialog, hosts, rows, form, connection, outcome>>

Type(c, h) ==
  /\ dialog[c]
  /\ form' = [form EXCEPT ![c] = h]
  /\ UNCHANGED <<file, last_addr, dialog, hosts, rows, selected, connection, outcome>>

-----------------------------------------------------------------------------
(* Changing the list                                                       *)

MutantFillListNever(c) == UNCHANGED <<rows, selected>>

\* fill_list: of the selection the lowest row stays, at its index, if that is still a row.
fill_list(c) ==
  /\ rows' = [rows EXCEPT ![c] = hosts'[c]]
  /\ selected' = [selected EXCEPT ![c] = {lv_selected(@)} \cap DOMAIN hosts'[c]]

\* A write that fails leaves the file alone, or cut off.
save_hosts(c) ==
  /\ edits < MaxEdits /\ edits' = edits + 1
  /\ \/ /\ file' = hosts'[c]
        /\ fill_list(c)
        /\ failed' = [failed EXCEPT ![c] = FALSE]
        /\ stale' = [d \in Clients |-> d # c]
        /\ UNCHANGED faults
     \/ /\ Fault
        /\ \/ UNCHANGED file
           \/ \E n \in 0 .. Len(hosts'[c]) : file' = SubSeq(hosts'[c], 1, n)
        /\ failed' = [failed EXCEPT ![c] = TRUE]
        /\ stale' = [d \in Clients |-> TRUE]
        /\ UNCHANGED <<rows, selected>>
  /\ UNCHANGED <<last_addr, dialog, form, connection>>

on_add(c) ==
  /\ dialog[c] /\ form[c] # Blank
  /\ Len(hosts[c]) < MaxHosts
  /\ hosts' = [hosts EXCEPT ![c] = Append(@, form[c])]
  /\ save_hosts(c)

on_update(c) ==
  /\ dialog[c] /\ lv_selected(selected[c]) \in DOMAIN hosts[c] /\ form[c] # Blank
  /\ hosts' = [hosts EXCEPT ![c][lv_selected(selected[c])] = form[c]]
  /\ save_hosts(c)

\* The person is asked, with the name in hosts, and agrees.
on_delete(c) ==
  /\ dialog[c] /\ lv_selected(selected[c]) \in DOMAIN hosts[c]
  /\ hosts' = [hosts EXCEPT ![c] = RemoveAt(@, lv_selected(selected[c]))]
  /\ save_hosts(c)

-----------------------------------------------------------------------------

DialogNext == \E c \in Clients :
  \/ Open(c) \/ Quit(c) \/ on_connect(c)
  \/ \E s \in SUBSET (1 .. MaxHosts) :
       Click(c, s) \/ ArrowKey(c, s) \/ \E r \in 0 .. MaxHosts : DoubleClick(c, r, s)
  \/ \E h \in Hosts : Type(c, h)
  \/ on_add(c) \/ on_update(c) \/ on_delete(c)

DialogSpec == DialogInit /\ [][DialogNext]_DialogVars

-----------------------------------------------------------------------------
(* Properties                                                              *)

\* A double click on a machine connects to it (dlg.rs:513), whatever was added, replaced,
\* deleted, saved or selected before: the machine is found in memory by the number of its
\* row, while only a successful save renews the rows. Two exceptions: the last change was announced as not
\* saved; and a row above it is selected too, by Ctrl, Shift or a drag, since the code then
\* connects to the first of the selected rows (dlg.rs:266), which is another machine.
DoubleClickConnects ==
  \A c \in Clients : pointed[c] # Blank /\ ~failed[c] => result[c] = pointed[c]

\* The person replaces or deletes this entry.
TakesOut(c, h) ==
  /\ hosts[c] # <<>> /\ hosts'[c] # hosts[c]
  /\ lv_selected(selected[c]) \in DOMAIN hosts[c] /\ hosts[c][lv_selected(selected[c])] = h
  /\ Len(hosts'[c]) <= Len(hosts[c])

\* An entry in the file stays there until a person replaces or deletes it: a client
\* that writes back its whole list has read every entry. The exceptions are a client
\* whose list is older than the file (another client saved, its own save failed, it
\* could not read the file), a write cut off, and a name that is read as a comment.
SavedStays ==
  [][\A h \in ToSet(file) \ ToSet(file') :
       \/ h \in Hashed \/ faults' # faults
       \/ \E c \in Clients : \/ TakesOut(c, h)
                             \/ stale[c] /\ dialog[c] /\ ~stale'[c]]_DialogVars
=============================================================================

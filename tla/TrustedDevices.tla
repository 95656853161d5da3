--------------------------- MODULE TrustedDevices ---------------------------
(***************************************************************************)
(* The list of trusted devices (TrustedDeviceStore, load_trusted_devices   *)
(* and save_trusted_devices in src/src/mvp.rs). No program of the          *)
(* repository uses it yet; the model has programs that use it in the only  *)
(* way its functions allow: load the list, change it, save it. The file    *)
(* ~/.tailsfer/trusted_devices.json is written in place.                   *)
(***************************************************************************)
EXTENDS FiniteSets, Integers

CONSTANTS
  Editors,      \* the runs of programs that change the list
  Trustable     \* the devices it can name

\* There may be no file, it may be empty or its JSON cut short, or it is whole.
NoFile         == [kind |-> "none", devices |-> {}]
Torn           == [kind |-> "torn", devices |-> {}]
Whole(devices) == [kind |-> "whole", devices |-> devices]

Lists == {NoFile, Torn} \union [kind : {"whole"}, devices : SUBSET Trustable]

Changes  == [op : {"add", "remove"}, device : Trustable]
NoChange == [op |-> "none"]

VARIABLES
  listFile,     \* the content of the file
  epc,          \* epc[e]: how far e is
  store,        \* store[e]: its TrustedDeviceStore, by device_id
  change,       \* change[e]: the change it made
  \* History:
  decided,      \* the devices whose last saved change was add
  crossed       \* two editors were between their load and the end of their save

trustVars == <<listFile, epc, store, change, decided, crossed>>

EditorStates == {"off", "testing", "editing", "saving", "writing", "ended"}

TrustTypeOK == /\ listFile \in Lists
               /\ epc \in [Editors -> EditorStates]
               /\ store \in [Editors -> SUBSET Trustable]
               /\ change \in [Editors -> Changes \union {NoChange}]
               /\ decided \subseteq Trustable
               /\ crossed \in BOOLEAN

TrustInit == /\ listFile = NoFile
             /\ epc = [e \in Editors |-> "off"]
             /\ store = [e \in Editors |-> {}]
             /\ change = [e \in Editors |-> NoChange]
             /\ decided = {}
             /\ crossed = FALSE

EditorGoes(e, state) == epc' = [epc EXCEPT ![e] = state]

Editing == {e \in Editors : epc[e] \in {"testing", "editing", "saving", "writing"}}

\* TrustedDeviceStore::add and remove
Changed(devices, edit) == IF edit.op = "add" THEN devices \union {edit.device}
                          ELSE devices \ {edit.device}

---------------------------------------------------------------------------
\* load_trusted_devices: no file is an empty store.
EditorStarts(e) == /\ epc[e] = "off"
                   /\ EditorGoes(e, IF listFile = NoFile THEN "editing" ELSE "testing")
                   /\ crossed' = (crossed \/ Editing # {})
                   /\ UNCHANGED <<listFile, store, change, decided>>

\* As AfterTornList, had a list that cannot be read been taken for an empty one.
AfterTornListEmpty == "editing"

\* A list that does not parse is an error, not an empty store.
AfterTornList == "ended"

EditorLoads(e) == /\ epc[e] = "testing"
                  /\ \/ /\ listFile # Torn
                        /\ store' = [store EXCEPT ![e] = listFile.devices]
                        /\ EditorGoes(e, "editing")
                     \/ /\ listFile = Torn
                        /\ EditorGoes(e, AfterTornList)
                        /\ UNCHANGED store
                  /\ UNCHANGED <<listFile, change, decided, crossed>>

EditorChanges(e) == /\ epc[e] = "editing"
                    /\ \E edit \in Changes :
                         /\ store' = [store EXCEPT ![e] = Changed(@, edit)]
                         /\ change' = [change EXCEPT ![e] = edit]
                    /\ EditorGoes(e, "saving")
                    /\ UNCHANGED <<listFile, decided, crossed>>

\* save_trusted_devices: fs::write truncates the file and writes all of it.
EditorTruncates(e) == /\ epc[e] = "saving"
                      /\ listFile' = Torn
                      /\ EditorGoes(e, "writing")
                      /\ UNCHANGED <<store, change, decided, crossed>>

EditorWrites(e) == /\ epc[e] = "writing"
                   /\ listFile' = Whole(store[e])
                   /\ decided' = Changed(decided, change[e])
                   /\ EditorGoes(e, "ended")
                   /\ UNCHANGED <<store, change, crossed>>

\* It is killed, or an operation on the file fails.
EditorEnds(e) == /\ e \in Editing
                 /\ EditorGoes(e, "ended")
                 /\ UNCHANGED <<listFile, store, change, decided, crossed>>

TrustNext == \E e \in Editors : \/ EditorStarts(e)
                                \/ EditorLoads(e)
                                \/ EditorChanges(e)
                                \/ EditorTruncates(e)
                                \/ EditorWrites(e)
                                \/ EditorEnds(e)

TrustSpec == TrustInit /\ [][TrustNext]_trustVars

---------------------------------------------------------------------------
\* A list that can be read names exactly the devices whose last saved change
\* was add: none is forgotten and none comes back, whoever was killed while
\* saving. Two programs that edit the list at once can break it: the second
\* save drops what the first one did (load_trusted_devices,
\* save_trusted_devices).
TrustAsDecided == listFile.kind = "whole" /\ ~crossed => listFile.devices = decided
=============================================================================

------------------------------ MODULE Plugins -------------------------------
(***************************************************************************)
(* Python plugins (src/python): files in a directory, each approved by its *)
(* content before it is imported (TrustStore), the drivers an imported     *)
(* file registers (PluginRegistry), the dialog that approves and revokes   *)
(* (PluginManagerDialog), and the choice of a driver for an instrument     *)
(* that MainWindow::onConnectRequested() makes from the registry.          *)
(*                                                                         *)
(* Outside the program files are edited and deleted, and the trust store's *)
(* own file is lost or damaged.  A scan hashes a file and imports it in    *)
(* one step: the file is not edited in between.                            *)
(***************************************************************************)
EXTENDS DriverRegistry

CONSTANTS
  Files,       \* the plugin files: numbers, in the order a scan meets them
  Contents,    \* what a file can contain
  Code,        \* content -> [registers: manifests in order, raises: BOOLEAN]
  Identities,  \* what instruments answer to *IDN?
  MaxChanges,  \* bound: changes from outside and starts of the program
  MaxScans     \* bound: scans between a start and the next

NoFile == Empty

\* A file has a place in the listing and contents that are not the empty string; what a
\* script registers, and what is built in, are lists; an expression that matches a model as
\* a whole finds something in it.
ASSUME PluginAssumption ==
  /\ IsFiniteSet(Files) /\ Files \subseteq Int /\ Empty \notin Files /\ Empty \notin Contents
  /\ BuiltIn \in Seq(Range(BuiltIn)) /\ \A driver \in Range(BuiltIn) : driver.origin = Empty
  /\ \A c \in Contents : LET manifests == Code[c].registers IN
       /\ manifests \in Seq(Range(manifests))
       /\ \A m \in Range(manifests) : \A e \in Range(m.models) : e.whole \subseteq e.found

States == {"absent", "awaiting", "rejected", "failed", "loaded"}

VARIABLES
  disk,          \* file -> what it contains
  stored,        \* plugin-trust.json: [state, entries]
  python,        \* the embedded interpreter: "idle", "running", "broken"
  running,       \* the program runs
  entries,       \* TrustStore::m_entries: file -> the content that was approved
  plugins,       \* PluginRegistry::m_plugins: file -> [state, content]
  registrations, \* Impl::registrations: [id, origin, content, manifest], never removed
  registry,      \* DriverRegistry::m_entries
  chosen,        \* the driver chosen since the last scan: [driver, identity, asked]
  approved,      \* what the operator has approved and not revoked: file -> contents
  changes, scans

program == <<running, entries, plugins, registrations, registry, chosen>>
vars == <<disk, stored, python, program, approved, changes, scans>>

NoEntries == [f \in Files |-> NoFile]
NoPlugins == [f \in Files |-> [state |-> "absent", content |-> NoFile]]
NoChoice == [driver |-> NoDriver, identity |-> NoIdentity, asked |-> FALSE]

Init ==
  /\ disk \in [Files -> Contents \cup {NoFile}]
  /\ stored = [state |-> "missing", entries |-> NoEntries]
  /\ python \in {"idle", "broken"}
  /\ running = FALSE /\ entries = NoEntries /\ plugins = NoPlugins
  /\ registrations = <<>> /\ registry = BuiltIn /\ chosen = NoChoice
  /\ approved = [f \in Files |-> {}] /\ changes = 0 /\ scans = 0

-----------------------------------------------------------------------------
(* The trust store.                                                        *)

\* load(): what cannot be read leaves the entries as they are.
Reloaded(old) == IF stored'.state = "valid" THEN stored'.entries ELSE old

\* save(): the file is replaced, or stays as it is.
Save(new, ok) == stored' = IF ok THEN [state |-> "valid", entries |-> new] ELSE stored

\* Mutant: a file with an entry is trusted whatever it contains now.
TrustListed(trusted, f) == trusted[f] # NoFile /\ disk[f] # NoFile

\* state() = Trusted.
IsTrusted(trusted, f) == trusted[f] # NoFile /\ trusted[f] = disk[f]

-----------------------------------------------------------------------------
(* Scanning and publishing.                                                *)

\* validateManifest().
ValidManifest(m) == m.name # Empty /\ m.compatible /\ m.models # <<>>

\* loadPlugin(): what comes of a trusted file.  One bad manifest rejects it whole.
Loaded(f) ==
  LET code == Code[disk[f]] IN
  CASE python = "broken" \/ code.raises -> "failed"
    [] code.registers = <<>> \/ \E m \in Range(code.registers) : ~ValidManifest(m) -> "rejected"
    [] OTHER -> "loaded"

Found(trusted, f) ==
  [state |-> CASE disk[f] = NoFile -> "absent"
               [] IsTrusted(trusted, f) -> Loaded(f)
               [] OTHER -> "awaiting",
   content |-> disk[f]]

\* The registrations of one imported file.
RegistrationsOf(f) ==
  LET manifests == Code[disk[f]].registers IN
  [n \in DOMAIN manifests |-> [id |-> manifests[n].name, origin |-> f,
                               content |-> disk[f], manifest |-> manifests[n]]]

\* Each loaded file is imported in turn, and what it registers comes after what is there.
Imported(found, before) ==
  FoldLeft(LAMBDA all, f : IF found[f].state = "loaded" THEN all \o RegistrationsOf(f) ELSE all,
           before, Ascending(Files))

\* rescan(): the plugins are listed anew, what they register is added.
Rescan(trusted, before) ==
  LET found == [f \in Files |-> Found(trusted, f)] IN
  /\ entries' = trusted
  /\ plugins' = found
  /\ registrations' = Imported(found, before)
  /\ python' = IF python = "idle" /\ \E f \in Files : IsTrusted(trusted, f) THEN "running" ELSE python

\* Mutant: a driver that is registered already is not registered again.
PublishNew(list, all) ==
  FoldLeft(LAMBDA l, e : IF Named(l, e.id) = NoDriver THEN Append(l, e) ELSE l, list, all)

\* publishToDriverRegistry(): in the order of registration, so the latest stands.
Publish(list, all) == FoldLeft(Registered, list, all)

\* The program starts: built-in drivers, then the approved plugins.
Launch ==
  /\ ~running /\ changes < MaxChanges
  /\ running' = TRUE /\ changes' = changes + 1 /\ scans' = 1
  /\ UNCHANGED <<disk, stored, approved>>
  /\ Rescan(Reloaded(NoEntries), <<>>)
  /\ registry' = Publish(BuiltIn, registrations')
  /\ chosen' = NoChoice

\* The dialog opens, or its Rescan button is pressed.
ScanAgain ==
  /\ running /\ scans < MaxScans
  /\ scans' = scans + 1
  /\ UNCHANGED <<disk, stored, running, approved, changes>> /\ chosen' = NoChoice
  /\ Rescan(Reloaded(entries), registrations)
  /\ registry' = Publish(registry, registrations')

-----------------------------------------------------------------------------
(* The dialog.                                                             *)

\* approveSelected(): hashes the file as it is now, saves, and scans.  The dialog scans
\* also when the approval failed, and so reads the store again; when it succeeded that
\* second scan finds the same, and the registrations it repeats are left out.
Approve(f, ok) ==
  /\ running /\ scans < MaxScans /\ plugins[f].state \notin {"absent", "loaded"}
  /\ scans' = scans + 1
  /\ IF disk[f] = NoFile
     THEN /\ UNCHANGED <<stored, approved>> /\ Rescan(Reloaded(entries), registrations)
     ELSE LET new == [entries EXCEPT ![f] = disk[f]] IN
          /\ Save(new, ok)
          /\ approved' = [approved EXCEPT ![f] = {disk[f]} \cup IF ok THEN {} ELSE approved[f]]
          /\ Rescan(Reloaded(new), registrations)
  /\ registry' = Publish(registry, registrations')
  /\ UNCHANGED <<disk, running, changes>> /\ chosen' = NoChoice

\* Mutant: only the running program forgets the file.
ForgetEntry(f, ok) == UNCHANGED stored

\* revoke(): without the entry the file is not imported again.
DropEntry(f, ok) == Save([entries EXCEPT ![f] = NoFile], ok)

\* revokeSelected(): what is loaded stays loaded.  When the store cannot be saved the
\* operator is told, and the dialog does not scan.
Revoke(f, ok) ==
  /\ running /\ scans < MaxScans /\ entries[f] # NoFile /\ disk[f] # NoFile
  /\ scans' = scans + 1
  /\ DropEntry(f, ok)
  /\ IF ok
     THEN /\ approved' = [approved EXCEPT ![f] = {}]
          /\ Rescan(Reloaded([entries EXCEPT ![f] = NoFile]), registrations)
          /\ registry' = Publish(registry, registrations')
     ELSE /\ entries' = [entries EXCEPT ![f] = NoFile]
          /\ UNCHANGED <<approved, plugins, registrations, registry, python>>
  /\ UNCHANGED <<disk, running, changes>> /\ chosen' = NoChoice

-----------------------------------------------------------------------------
(* Connecting.                                                             *)

\* A driver named by the operator.
ChooseNamed(id) ==
  /\ running /\ chosen = NoChoice
  /\ chosen' = [driver |-> Named(registry, id), identity |-> NoIdentity, asked |-> FALSE]
  /\ UNCHANGED <<disk, stored, python, running, entries, plugins, registrations, registry,
                 approved, changes, scans>>

\* The automatic choice: a driver that claims an instrument nothing is known of takes
\* it; otherwise the instrument is asked, which only TCP and serial endpoints are.
ChooseFor(identity, answers) ==
  /\ running /\ chosen = NoChoice
  /\ LET blind == BestMatch(registry, NoIdentity) IN
     chosen' = CASE blind # NoDriver -> [driver |-> blind, identity |-> identity, asked |-> FALSE]
                 [] answers -> [driver |-> BestMatch(registry, identity),
                                identity |-> identity, asked |-> TRUE]
                 [] OTHER -> NoChoice
  /\ chosen' # chosen
  /\ UNCHANGED <<disk, stored, python, running, entries, plugins, registrations, registry,
                 approved, changes, scans>>

-----------------------------------------------------------------------------
(* From outside.                                                           *)

Edit(f, content) ==
  /\ changes < MaxChanges /\ disk[f] # content
  /\ disk' = [disk EXCEPT ![f] = content] /\ changes' = changes + 1
  /\ UNCHANGED <<stored, python, program, approved, scans>>

LoseStore(state) ==
  /\ changes < MaxChanges /\ stored.state = "valid"
  /\ stored' = [state |-> state, entries |-> NoEntries] /\ changes' = changes + 1
  /\ UNCHANGED <<disk, python, program, approved, scans>>

Quit ==
  /\ running /\ running' = FALSE
  /\ entries' = NoEntries /\ plugins' = NoPlugins /\ registrations' = <<>>
  /\ registry' = BuiltIn /\ chosen' = NoChoice /\ scans' = 0
  /\ python' = IF python = "running" THEN "idle" ELSE python
  /\ UNCHANGED <<disk, stored, approved, changes>>

Next ==
  \/ Launch \/ ScanAgain \/ Quit
  \/ \E f \in Files, ok \in BOOLEAN : Approve(f, ok) \/ Revoke(f, ok)
  \/ \E id \in {registry[i].id : i \in DOMAIN registry} : ChooseNamed(id)
  \/ \E identity \in Identities, answers \in BOOLEAN : ChooseFor(identity, answers)
  \/ \E f \in Files, content \in Contents \cup {NoFile} : Edit(f, content)
  \/ \E state \in {"missing", "damaged"} : LoseStore(state)

Spec == Init /\ [][Next]_vars

-----------------------------------------------------------------------------
(* Properties.                                                             *)

\* Whatever is edited, damaged, approved or revoked between two scans, and whichever
\* saves fail, what a scan imports is what the operator approved and has not revoked.
ImportsAreApproved ==
  [][\A n \in DOMAIN registrations' :
       n > Len(registrations) => registrations'[n].content \in approved'[registrations'[n].origin]]_vars

\* Although registrations are only ever added, the drivers of the plugins that are listed
\* as loaded are offered as these files are now: neither an earlier version of the
\* file nor a plugin that is no longer loaded stands before them.
LoadedIsOffered ==
  \A f \in Files : running /\ plugins[f].state = "loaded" =>
    \A m \in Range(Code[plugins[f].content].registers) :
      LET offered == Named(registry, m.name) IN
      /\ offered.origin \in Files
      /\ plugins[offered.origin] = [state |-> "loaded", content |-> offered.content]

\* An instrument that was asked gets the driver whose claim is the strongest, and none
\* when two claims are equal; a driver that names its model is not outbid by a family.
ChoiceIsDefinite ==
  chosen.asked =>
    LET claims == {Score(registry[i], chosen.identity) : i \in DOMAIN registry}
        best == {i \in DOMAIN registry : Score(registry[i], chosen.identity) = Max(claims)}
        namers == {i \in DOMAIN registry :
                     \/ /\ registry[i].origin = Empty
                        /\ registry[i].vendor = chosen.identity.manufacturer
                        /\ \E p \in Range(registry[i].patterns) :
                             ~p.family /\ chosen.identity.model \in p.models
                     \/ /\ registry[i].origin # Empty
                        /\ registry[i].manifest.vendor \in {Empty, chosen.identity.manufacturer}
                        /\ \E e \in Range(registry[i].manifest.models) :
                             e.literal /\ chosen.identity.model \in e.whole} IN
    chosen.driver = CASE Cardinality(namers) = 1 -> registry[CHOOSE i \in namers : TRUE]
                      [] Cardinality(best) = 1 /\ Max(claims) > 0 -> registry[CHOOSE i \in best : TRUE]
                      [] OTHER -> NoDriver

=============================================================================

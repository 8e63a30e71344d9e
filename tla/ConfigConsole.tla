---------------------------- MODULE ConfigConsole ----------------------------
(***************************************************************************)
(* The two configuration pages of the admin console, AdminSystemPage over  *)
(* useAdminSystemConfig and AdminProductsPage over useAdminProductsConfig, *)
(* open on one section: its table with row buttons and a selection, the    *)
(* editor drawer (SystemEditorDrawer) and the detail drawer.  A remote     *)
(* page sends its writes to the server and reads the whole configuration   *)
(* again; a local one edits a draft kept in the browser.                   *)
(*                                                                         *)
(* A handler runs to its first await and again from each answer.  A batch  *)
(* is a Promise.all: its writes are in flight together, the first failure  *)
(* ends the handler and the rest may still arrive ("late").  An open       *)
(* drawer masks the page, a loading table takes no click.                  *)
(*                                                                         *)
(* A row is its key, the identifier routes name it by, its product (price  *)
(* templates), its switch, and for every other field of its section where  *)
(* the value comes from, so that a field lost on the way is seen.  Left    *)
(* out: search and paging, texts, the audit list read after a product is   *)
(* written (its failure is swallowed).  Bounds: Ids, MaxKeys, MaxCalls.    *)
(***************************************************************************)
EXTENDS Naturals, FiniteSets, Sequences, SystemSections, ProductSections

CONSTANTS
    Explored,   \* the sections opened
    Ids,        \* identifiers: channel keys, bot keys, SKUs, template names
    SeedIds,    \* those of the rows there at first, in order
    None,       \* no row, no call, no product
    Waiting,    \* a call without an answer yet
    Failed,     \* a call refused, or whose answer is lost
    Done,       \* a write the server took
    MaxKeys,    \* numbers the server gives to products and templates
    MaxCalls,   \* handlers in progress at a time
    MaxClicks   \* buttons pressed that write or read, see Acts

Sections == {"paymentChannels", "providers", "actions", "fulfillmentStrategies",
             "deliveryStrategies", "telegramConfigs", "internalClientKeys", "runtimeSettings",
             "auditLogs", "products", "priceTemplates"}
Keys == Ids \cup 1..MaxKeys

ASSUME ConsoleAssumption ==
    /\ Explored \subseteq Sections /\ SeedIds \in Seq(Ids) /\ Len(SeedIds) <= MaxKeys
    /\ None \notin Keys
    /\ Waiting # Failed /\ Waiting # Done /\ Failed # Done
    /\ {MaxKeys, MaxCalls, MaxClicks} \subseteq Nat

VARIABLES
    remote,    \* isRemoteApiEnabled
    section,   \* activeSection
    store,     \* server: the rows of the section
    made,      \* server: numbers given so far
    rows,      \* page: the section in draft
    priced,    \* local draft: the SKUs that price templates name
    loading,   \* page: the table waits for a reading
    source,    \* page: "local", "remote" or "remote-error"
    picked,    \* page: selectedRowKeys
    editor,    \* page: editorState and the form of the drawer
    drawer,    \* page: the test, audit or webhook drawer
    clicks,    \* how many buttons were pressed
    calls,     \* handlers waiting for an answer
    told,      \* ghost: what the last message said, None when it was an error
    hasty      \* ghost: the operator acted while an answer was awaited

vars == <<remote, section, store, made, rows, priced, loading, source, picked, editor,
          drawer, clicks, calls, told, hasty>>
server == <<store, made>>
ghosts == <<clicks, told, hasty>>
page == <<rows, priced, loading, source, picked>>
fixed == <<remote, section>>

Config(s) == CASE s = "paymentChannels" -> PaymentChannels
               [] s = "providers" -> Providers
               [] s = "actions" -> Actions
               [] s = "fulfillmentStrategies" -> FulfillmentStrategies
               [] s = "deliveryStrategies" -> DeliveryStrategies
               [] s = "telegramConfigs" -> TelegramConfigs
               [] s = "internalClientKeys" -> InternalClientKeys
               [] s = "runtimeSettings" -> RuntimeSettings
               [] s = "auditLogs" -> AuditLogs
               [] s = "products" -> Products
               [] s = "priceTemplates" -> PriceTemplates

sectionConfig == Config(section)
Can(button) == button \in sectionConfig.can
Numbered == section \in {"products", "priceTemplates"}
Data == sectionConfig.row \ {"key", "enabled", "productSku", sectionConfig.ident}
All(origin) == [f \in Data |-> origin]
Written(fields, new, old) == [f \in Data |-> IF f \in fields THEN new[f] ELSE old[f]]

\* Price templates hang on the products numbered 1 and 2; their id stands for the name, the
\* payment method and the currency.
Owners == IF section = "priceTemplates" THEN {1, 2} ELSE {None}
Row(key, id, owner, on, data) == [key |-> key, id |-> id, owner |-> owner, on |-> on, data |-> data]
NoRow == Row(None, None, None, TRUE, <<>>)

---------------------------------------------------------------------------
(* The server: POST, PUT and DELETE of one record, and the list            *)

Named(w) == {r \in store : IF section = "products" THEN r.key = w.key ELSE r.id = w.id}
FreshKey(w) == IF Numbered THEN made + 1 ELSE w.id
Stored(w, old) ==
    Row(IF old = NoRow THEN FreshKey(w) ELSE old.key, w.id, w.owner,
        IF "enabled" \in sectionConfig.sent THEN w.on ELSE old.on,
        Written(sectionConfig.sent, w.data, IF old = NoRow THEN All("blank") ELSE old.data))
Insert(w) == /\ made < MaxKeys
             /\ store' = store \cup {Stored(w, NoRow)} /\ made' = made + 1
Replace(old, w) == store' = (store \ {old}) \cup {Stored(w, old)} /\ UNCHANGED made

\* saveAdminProductSectionRecord addresses the product of a template by the first of
\* key, productId, sku and productSku that is there: the template's own number, once it has one.
\* The server looks the template up under that product, and no other may have its identity.
PriceRoute(w) == IF w.key # None THEN w.key ELSE w.owner
PutPrice(w) ==
    LET p == [w EXCEPT !.owner = PriceRoute(w)]
        same == {r \in store : r.owner = p.owner /\ r.id = p.id}
        named == {r \in store : r.owner = p.owner /\ r.key = p.key}
    IN /\ p.owner \in Owners
       /\ \/ w.key = None /\ same = {} /\ Insert(p)
          \/ w.key = None /\ \E old \in same : Replace(old, p)
          \/ w.key # None /\ \E old \in named : same \subseteq {old} /\ Replace(old, p)

Post(w) == (\A r \in store : r.id # w.id) /\ Insert(w)
Put(w) ==
    \/ /\ \E old \in Named(w) : Replace(old, w)
       /\ \A r \in store \ Named(w) : r.id # w.id
    \/ /\ Named(w) = {} /\ section \in {"telegramConfigs", "internalClientKeys"}
       /\ Insert(w)
Delete(w) ==
    /\ \E r \in store : r.key = w.key /\ r.owner = w.owner
    /\ store' = {r \in store : r.key # w.key} /\ UNCHANGED made

Take(how, w) == CASE how = "delete" -> Delete(w)
                  [] how # "delete" /\ section = "priceTemplates" -> PutPrice(w)
                  [] how = "create" /\ section # "priceTemplates" -> Post(w)
                  [] how = "edit" /\ section # "priceTemplates" -> Put(w)

\* The rows a reading maps (map...Dto).
Mapped(r) == [r EXCEPT !.data = Written(sectionConfig.read, r.data, All("lost"))]

Script(op) == CASE op \in {"load", "reset"} -> <<"list">>
                [] op \in {"save", "toggle", "batch", "delete", "deletes"} -> <<"write", "list">>
                [] op = "test" -> <<"probe", "list">>
                [] op \in {"detail", "webhook"} -> <<"probe">>
                [] op = "sync" -> <<"sync", "probe", "list">>
                [] op = "late" -> <<"write">>

Call(op, how, left, claims, key) ==
    [op |-> op, how |-> how, at |-> 1, left |-> left, claims |-> claims, key |-> key,
     ans |-> Waiting]
Busy == {i \in DOMAIN calls : calls[i] # None}
Ask(cs, call) == {[cs EXCEPT ![i] = call] :
                     i \in {j \in DOMAIN cs : cs[j] = None /\ \A k \in 1..(j - 1) : cs[k] # None}}
Acts == clicks < MaxClicks /\ clicks' = clicks + 1
Acting == hasty' = (hasty \/ Busy # {})
Start(op, how, left, claims, key) ==
    /\ calls' \in Ask(calls, Call(op, how, left, claims, key))
    /\ told' = None /\ Acts /\ Acting

Serve(i) ==
    LET c == calls[i]
        Heard(ans) == calls' \in {[calls EXCEPT ![i].ans = ans], [calls EXCEPT ![i].ans = Failed]}
    IN /\ c # None /\ c.ans = Waiting /\ c.op # "late"
       /\ CASE Script(c.op)[c.at] = "list" ->
                 Heard({Mapped(r) : r \in store}) /\ UNCHANGED server
            [] Script(c.op)[c.at] = "probe" -> Heard(c.key) /\ UNCHANGED server
            [] Script(c.op)[c.at] = "sync" -> Heard(Done) /\ UNCHANGED server
            [] Script(c.op)[c.at] = "write" ->
                 \E w \in c.left :
                    LET heard == [calls EXCEPT ![i].left = @ \ {w},
                                  ![i].ans = IF c.left = {w} THEN Done ELSE Waiting]
                    IN \/ Take(c.how, w) /\ calls' \in {heard, [heard EXCEPT ![i].ans = Failed]}
                       \/ calls' = [heard EXCEPT ![i].ans = Failed] /\ UNCHANGED server
       /\ UNCHANGED <<fixed, page, editor, drawer, ghosts>>

\* A write of a batch already reported as failed reaches the server, or does not.
ServeLate(i) ==
    LET c == calls[i]
    IN /\ c # None /\ c.op = "late"
       /\ \E w \in c.left :
            /\ \/ Take(c.how, w)
               \/ UNCHANGED server
            /\ calls' = [calls EXCEPT ![i] = IF c.left = {w} THEN None
                                             ELSE [c EXCEPT !.left = @ \ {w}]]
       /\ UNCHANGED <<fixed, page, editor, drawer, ghosts>>

---------------------------------------------------------------------------
(* The local draft (draft.ts)                                              *)

\* The draft has a template for each product, the server both of them for the first.
SeedOwner(k) == IF section # "priceTemplates" THEN None ELSE IF remote THEN 1 ELSE k
Seeds == {Row(IF Numbered THEN k ELSE SeedIds[k], SeedIds[k], SeedOwner(k), TRUE, All("seed")) :
            k \in DOMAIN SeedIds}
SeedPriced == IF section = "products" THEN {r.id : r \in Seeds} ELSE {}

Kept(w, key) == Row(key, w.id, w.owner, w.on, Written(sectionConfig.kept, w.data, All("seed")))
Existing(w) ==
    LET byKey == {r \in rows : r.key = w.key}
    IN IF byKey # {} THEN byKey ELSE {r \in rows : Numbered /\ r.id = w.id /\ r.owner = w.owner}

\* Mutant of Repriced: the prices of a renamed product stay where they are.
RepricedNot(how, w, old) == IF how = "create" THEN priced \cup {w.id} ELSE priced

\* upsertAdminProduct moves the prices of a renamed product, and gives a new one a default price.
Repriced(how, w, old) ==
    LET moved == IF old # NoRow /\ old.id \in priced THEN (priced \ {old.id}) \cup {w.id} ELSE priced
    IN IF how = "create" THEN moved \cup {w.id} ELSE moved

\* Mutant of Upsert: a new record of the draft is given no key.
UpsertKeyless(how, w) ==
    /\ rows' = {r \in rows : r.key # w.key} \cup {Kept(w, w.key)}
    /\ UNCHANGED <<priced, made>>

\* saveSectionRecord, upsertAdminProduct, upsertAdminProductPriceTemplate
Upsert(how, w) ==
    \/ \E old \in Existing(w) :
         /\ rows' = (rows \ {old}) \cup {Kept(w, old.key)}
         /\ priced' = IF section = "products" THEN Repriced(how, w, old) ELSE priced
         /\ UNCHANGED made
    \/ /\ Existing(w) = {} /\ made < MaxKeys /\ made' = made + 1
       /\ LET key == IF Numbered THEN made + 1 ELSE w.id
              new == Kept(w, IF w.key # None THEN w.key ELSE key)
          IN rows' = {r \in rows : r.key # new.key} \cup {new}
       /\ priced' = IF section = "products" THEN Repriced(how, w, NoRow) ELSE priced

Gone(ws) == IF Numbered THEN {r \in rows : \E w \in ws : w.key = r.key}
            ELSE {r \in rows : \E w \in ws : w.id = r.id}

\* deleteSectionRecords, deleteAdminProducts
Discard(ws) ==
    /\ rows' = rows \ Gone(ws)
    /\ priced' = IF section = "products" THEN priced \ {r.id : r \in Gone(ws)} ELSE priced
    /\ UNCHANGED made

\* updateSectionEnabled, updateAdminProductsEnabled
Switch(ws, on) ==
    /\ rows' = {IF r \in Gone(ws) THEN [r EXCEPT !.on = on] ELSE r : r \in rows}
    /\ UNCHANGED <<priced, made>>

---------------------------------------------------------------------------
(* The operator on the page                                                *)

Closed == [mode |-> "closed", base |-> NoRow, form |-> NoRow, busy |-> FALSE]
NoDrawer == [on |-> None, data |-> None, loading |-> FALSE, busy |-> FALSE]
More == clicks < MaxClicks    \* an editor is opened and typed in to be submitted
Unmasked == editor.mode = "closed" /\ drawer.on = None

Saved(w) == [gone |-> FALSE, row |-> w]
Removed(w) == [gone |-> TRUE, row |-> w]

CreateRecord ==
    /\ Can("create") /\ Unmasked /\ More
    /\ \E o \in Owners :
         LET first == Row(None, None, o, TRUE, All("blank"))
         IN editor' = [mode |-> "create", base |-> first, form |-> first, busy |-> FALSE]
    /\ UNCHANGED <<fixed, server, page, drawer, calls, ghosts>>

EditRecord ==
    /\ Can("edit") /\ Unmasked /\ ~loading /\ More
    /\ \E r \in rows : editor' = [mode |-> "edit", base |-> r, form |-> r, busy |-> FALSE]
    /\ UNCHANGED <<fixed, server, page, drawer, calls, ghosts>>

\* Every field of the form is typed over (not while it is being submitted: the reading that
\* follows puts the form back).
TypeForm ==
    /\ editor.mode # "closed" /\ ~editor.busy /\ More
    /\ \E id \in Ids, o \in Owners :
         editor' = [editor EXCEPT !.form =
            Row(editor.base.key, id,
                IF "productSku" \in sectionConfig.form THEN o ELSE editor.base.owner,
                IF "enabled" \in sectionConfig.form THEN ~editor.base.on ELSE editor.base.on,
                Written(sectionConfig.form, All("typed"), editor.form.data))]
    /\ UNCHANGED <<fixed, server, page, drawer, calls, ghosts>>

\* handlePaymentChannelEditorValuesChange
ChooseChannelType ==
    /\ section = "paymentChannels" /\ editor.mode # "closed" /\ ~editor.busy /\ More
    /\ \E id \in Ids :
         editor' = [editor EXCEPT !.form.id = id,
                                  !.form.data = Written(PresetFields, All("preset"), @)]
    /\ UNCHANGED <<fixed, server, page, drawer, calls, ghosts>>

CloseEditor ==
    /\ editor.mode # "closed" /\ editor' = Closed
    /\ UNCHANGED <<fixed, server, page, drawer, calls, ghosts>>

SubmitEditor ==
    /\ editor.mode # "closed" /\ ~editor.busy /\ editor.form.id # None
    /\ IF remote
       THEN /\ Start("save", editor.mode, {editor.form}, {Saved(editor.form)}, None)
            /\ editor' = [editor EXCEPT !.busy = TRUE]
            /\ UNCHANGED <<server, page>>
       ELSE /\ Upsert(editor.mode, editor.form)
            /\ editor' = Closed /\ told' = {Saved(editor.form)} /\ Acts
            /\ UNCHANGED <<store, loading, source, picked, calls, hasty>>
    /\ UNCHANGED <<fixed, drawer>>

Switched(r, on) == [r EXCEPT !.on = on]

\* handleToggleRecord
ToggleRecord ==
    /\ Can("toggle") /\ Unmasked /\ ~loading
    /\ \E r \in rows :
         LET w == Switched(r, ~r.on)
         IN IF remote
            THEN /\ Start("toggle", "edit", {w}, {Saved(w)}, r.key)
                 /\ UNCHANGED <<server, page>>
            ELSE /\ Switch({r}, ~r.on)
                 /\ picked' = picked \ {r.key} /\ told' = {Saved(w)} /\ Acts
                 /\ UNCHANGED <<store, loading, source, calls, hasty>>
    /\ UNCHANGED <<fixed, editor, drawer>>

\* handleToggleSelected, handleBatchEnabledChange, for the rows ticked by then
ToggleSelected ==
    /\ "enabled" \in sectionConfig.row /\ Unmasked /\ ~loading
    /\ \E chosen \in SUBSET rows \ {{}}, on \in BOOLEAN :
         LET ws == {Switched(r, on) : r \in chosen}
             claims == {Saved(w) : w \in ws}
         IN IF remote
            THEN /\ Start("batch", "edit", ws, claims, None)
                 /\ picked' = {r.key : r \in chosen}
                 /\ UNCHANGED <<server, rows, priced, loading, source>>
            ELSE /\ Switch(chosen, on)
                 /\ picked' = {} /\ told' = claims /\ Acts
                 /\ UNCHANGED <<store, loading, source, calls, hasty>>
    /\ UNCHANGED <<fixed, editor, drawer>>

DeleteRecord ==
    /\ Can("delete") /\ Unmasked /\ ~loading
    /\ \E r \in rows :
         IF remote
         THEN /\ Start("delete", "delete", {r}, {Removed(r)}, None)
              /\ UNCHANGED <<server, page>>
         ELSE /\ Discard({r}) /\ told' = {Removed(r)} /\ Acts
              /\ UNCHANGED <<store, loading, source, picked, calls, hasty>>
    /\ UNCHANGED <<fixed, editor, drawer>>

\* handleDeleteSelected and its twin on the products page
DeleteSelected ==
    /\ Can("delete") /\ Unmasked /\ ~loading
    /\ \E chosen \in SUBSET rows \ {{}} :
         LET claims == {Removed(r) : r \in chosen}
         IN IF remote
            THEN /\ Start("deletes", "delete", chosen, claims, None)
                 /\ picked' = {r.key : r \in chosen}
                 /\ UNCHANGED <<server, rows, priced, loading, source>>
            ELSE /\ Discard(chosen)
                 /\ picked' = {} /\ told' = claims /\ Acts
                 /\ UNCHANGED <<store, loading, source, calls, hasty>>
    /\ UNCHANGED <<fixed, editor, drawer>>

\* hydrateRemoteDraft, from the reset button or after a write
BeginReading == loading' = TRUE /\ source' = "remote" /\ UNCHANGED <<rows, priced, picked>>

Reset ==
    /\ Unmasked
    /\ IF remote
       THEN /\ Start("reset", "none", {}, {}, None)
            /\ BeginReading /\ UNCHANGED <<server, editor>>
       ELSE /\ rows' = Seeds /\ priced' = SeedPriced
            /\ picked' = {} /\ editor' = Closed /\ told' = {} /\ Acts
            /\ UNCHANGED <<server, loading, source, calls, hasty>>
    /\ UNCHANGED <<fixed, drawer>>

SwitchTabs ==
    /\ Unmasked /\ picked # {} /\ picked' = {}
    /\ UNCHANGED <<fixed, server, rows, priced, loading, source, editor, drawer, calls, ghosts>>

\* runSystemSectionTest; a local one only writes an audit line.
TestRecord ==
    /\ Can("test") /\ Unmasked /\ ~loading /\ remote
    /\ \E r \in rows :
         /\ Start("test", "none", {}, {}, r.key)
         /\ drawer' = [on |-> r.key, data |-> None, loading |-> TRUE, busy |-> FALSE]
    /\ UNCHANGED <<fixed, server, page, editor>>

\* openAuditDetail: a log of the server is asked for, a local one shown as it is.
ViewLog ==
    /\ Can("view") /\ Unmasked /\ ~loading
    /\ \E r \in rows :
         IF source = "remote"
         THEN /\ Start("detail", "none", {}, {}, r.key)
              /\ drawer' = [on |-> r.key, data |-> None, loading |-> TRUE, busy |-> FALSE]
         ELSE /\ drawer' = [on |-> r.key, data |-> r.key, loading |-> FALSE, busy |-> FALSE]
              /\ UNCHANGED <<calls, ghosts>>
    /\ UNCHANGED <<fixed, server, page, editor>>

\* openTelegramWebhookDetail; the second question, whose failure is caught, goes with the first.
OpenWebhook ==
    /\ Can("webhook") /\ Unmasked /\ ~loading /\ remote
    /\ \E r \in rows :
         /\ Start("webhook", "none", {}, {}, r.key)
         /\ drawer' = [on |-> r.key, data |-> None, loading |-> TRUE, busy |-> FALSE]
    /\ UNCHANGED <<fixed, server, page, editor>>

RefreshWebhook ==
    /\ Can("webhook") /\ drawer.on # None
    /\ Start("webhook", "none", {}, {}, drawer.on)
    /\ drawer' = [drawer EXCEPT !.loading = TRUE]
    /\ UNCHANGED <<fixed, server, page, editor>>

\* handleSyncTelegramWebhook, confirmDeleteTelegramWebhook
SyncWebhook ==
    /\ Can("webhook") /\ drawer.on # None /\ ~drawer.busy
    /\ Start("sync", "none", {}, {}, drawer.on)
    /\ drawer' = [drawer EXCEPT !.busy = TRUE]
    /\ UNCHANGED <<fixed, server, page, editor>>

CloseDrawer ==
    /\ drawer.on # None /\ drawer' = NoDrawer
    /\ UNCHANGED <<fixed, server, page, editor, calls, ghosts>>

---------------------------------------------------------------------------
(* Answers landing in the page                                             *)

\* An open drawer puts its form back to the record it was opened on at each render of the page.
Rendered(e) == IF e.mode = "closed" THEN e ELSE [e EXCEPT !.form = e.base]
Unsubmitted(op, e) == IF op = "save" THEN [e EXCEPT !.busy = FALSE] ELSE e

GoesOn(i) == calls' = [calls EXCEPT ![i].at = @ + 1, ![i].ans = Waiting]
Ends(i) == calls' = [calls EXCEPT ![i] = IF @.left = {} THEN None ELSE [@ EXCEPT !.op = "late"]]
Asked(i, what) == /\ calls[i] # None /\ calls[i].op # "late" /\ calls[i].ans # Waiting
                  /\ Script(calls[i].op)[calls[i].at] = what

WriteLanded(i) ==
    /\ Asked(i, "write")
    /\ \/ /\ calls[i].ans = Done
          /\ GoesOn(i) /\ BeginReading /\ editor' = Rendered(editor)
          /\ UNCHANGED told
       \/ /\ calls[i].ans = Failed
          /\ Ends(i) /\ editor' = Unsubmitted(calls[i].op, editor)
          /\ told' = None /\ UNCHANGED page
    /\ UNCHANGED <<fixed, server, drawer, clicks, hasty>>

SyncLanded(i) ==
    /\ Asked(i, "sync")
    /\ \/ /\ calls[i].ans = Done
          /\ GoesOn(i) /\ drawer' = [drawer EXCEPT !.on = calls[i].key, !.loading = TRUE]
          /\ UNCHANGED told
       \/ /\ calls[i].ans = Failed
          /\ Ends(i) /\ drawer' = [drawer EXCEPT !.busy = FALSE]
          /\ told' = None
    /\ UNCHANGED <<fixed, server, page, editor, clicks, hasty>>

TestFailed(c) == [drawer EXCEPT !.on = IF @ # None \/ section = "actions" THEN c.key ELSE None,
                                !.loading = FALSE]
Detailed(c, busy) == [on |-> c.key, data |-> IF c.ans = Failed THEN None ELSE c.ans,
                      loading |-> FALSE, busy |-> busy]

ProbeLanded(i) ==
    LET c == calls[i]
    IN /\ Asked(i, "probe")
       /\ \/ /\ c.op = "test" /\ c.ans # Failed
             /\ GoesOn(i) /\ BeginReading /\ UNCHANGED <<drawer, told>>
          \/ /\ c.op = "test" /\ c.ans = Failed
             /\ Ends(i) /\ drawer' = TestFailed(c) /\ told' = None /\ UNCHANGED page
          \/ /\ c.op \in {"detail", "webhook"}
             /\ Ends(i) /\ drawer' = Detailed(c, c.op = "webhook" /\ drawer.busy)
             /\ UNCHANGED <<page, told>>
          \/ /\ c.op = "sync"
             /\ GoesOn(i) /\ drawer' = Detailed(c, drawer.busy) /\ BeginReading
             /\ UNCHANGED told
       /\ UNCHANGED <<fixed, server, editor, clicks, hasty>>

\* Mutant of Merged: what the page has goes over what was read.
MergedOver(draft, read) == IF draft = {} THEN read ELSE draft

\* mergeRemoteSystemDraft: the sections read replace those of the draft.
Merged(draft, read) == read

ListLanded(i) ==
    LET c == calls[i]
        read == c.ans # Failed
    IN /\ Asked(i, "list")
       /\ rows' = IF read THEN Merged(rows, c.ans) ELSE IF c.op = "reset" THEN {} ELSE rows
       /\ loading' = FALSE
       /\ source' = IF read THEN "remote" ELSE "remote-error"
       /\ picked' = CASE read /\ c.op = "toggle" -> picked \ {c.key}
                      [] read /\ c.op \in {"batch", "deletes", "reset"} -> {}
                      [] OTHER -> picked
       /\ editor' = IF read /\ c.op \in {"save", "reset"} THEN Closed
                    ELSE Unsubmitted(c.op, Rendered(editor))
       /\ drawer' = CASE c.op = "test" -> IF read THEN [Detailed(c, FALSE) EXCEPT !.data = c.key]
                                          ELSE TestFailed(c)
                      [] c.op = "sync" -> [drawer EXCEPT !.busy = FALSE]
                      [] OTHER -> drawer
       /\ told' = IF read \/ c.op = "sync" THEN c.claims ELSE None
       /\ Ends(i)
       /\ UNCHANGED <<fixed, server, priced, clicks, hasty>>

---------------------------------------------------------------------------

Init ==
    /\ remote \in BOOLEAN /\ section \in Explored
    /\ store = (IF remote THEN Seeds ELSE {}) /\ made = Cardinality(Seeds)
    /\ rows = (IF remote THEN {} ELSE Seeds)
    /\ priced = (IF remote THEN {} ELSE SeedPriced)
    /\ loading = remote /\ source = (IF remote THEN "remote" ELSE "local")
    /\ picked = {} /\ editor = Closed /\ drawer = NoDrawer
    /\ calls = [i \in 1..MaxCalls |->
                  IF remote /\ i = 1 THEN Call("load", "none", {}, {}, None) ELSE None]
    /\ clicks = 0 /\ told = None /\ hasty = FALSE

Answers(i) == \/ Serve(i) \/ ServeLate(i)
              \/ WriteLanded(i) \/ SyncLanded(i) \/ ProbeLanded(i) \/ ListLanded(i)
Editing == CreateRecord \/ EditRecord \/ TypeForm \/ ChooseChannelType \/ CloseEditor \/ SubmitEditor
Table == ToggleRecord \/ ToggleSelected \/ DeleteRecord \/ DeleteSelected
         \/ Reset \/ SwitchTabs
Drawers == TestRecord \/ ViewLog \/ OpenWebhook \/ RefreshWebhook \/ SyncWebhook \/ CloseDrawer

Next == Editing \/ Table \/ Drawers \/ \E i \in 1..MaxCalls : Answers(i)
Spec == Init /\ [][Next]_vars

---------------------------------------------------------------------------
(* Properties                                                              *)

TypeOK ==
    /\ \A r \in store \cup rows : /\ r.key \in Keys /\ r.id \in Ids
                                  /\ r.on \in BOOLEAN /\ DOMAIN r.data = Data
    /\ picked \subseteq Keys /\ priced \subseteq Ids
    /\ source \in {"local", "remote", "remote-error"} /\ loading \in BOOLEAN
    /\ editor.mode \in {"closed", "create", "edit"}
    /\ drawer.on \in Keys \cup {None}
    /\ \A i \in Busy : calls[i].at \in DOMAIN Script(calls[i].op)

Truth == IF remote THEN store ELSE rows
Typed == (sectionConfig.form \cap Data) \ {"status"}
\* The record a claim is about: a template the server has, by its number.
Is(r, w) == IF remote /\ section = "priceTemplates" /\ w.key # None THEN r.key = w.key
            ELSE r.owner = w.owner
Holds(claim) ==
    IF claim.gone THEN \A r \in Truth : r.key # claim.row.key
    ELSE \E r \in Truth : /\ Is(r, claim.row)
                          /\ r.id = claim.row.id /\ r.on = claim.row.on
                          /\ \A f \in Typed : r.data[f] = claim.row.data[f]

\* A success message is true: every field typed in the form, every switch and every deletion it
\* speaks of is what the server, or the local draft, has.  Only of an operator who waits for
\* answers (a batch reported as failed goes on in the background); and neither of the status of
\* an internal client nor of the product chosen for an existing template, see SavedPriceIsMoved.
ToldIsStored == (~hasty /\ told # None) => \A claim \in told : Holds(claim)

\* A price template the page says is saved is a template of the product chosen for it in the form.
SavedPriceIsMoved ==
    (~hasty /\ told # None /\ section = "priceTemplates") =>
        \A claim \in told : claim.gone \/ \E r \in Truth : /\ r.id = claim.row.id
                                                          /\ r.owner = claim.row.owner

\* After a success message the table of a page that says it is remote shows what the server has, in every field
\* it shows or would edit.
ShownIsStored ==
    LET seen == (sectionConfig.shown \cup sectionConfig.form) \cap Data
        View(r) == [r EXCEPT !.data = [f \in seen |-> r.data[f]]]
    IN (source = "remote" /\ ~hasty /\ told # None) => {View(r) : r \in rows} = {View(r) : r \in store}

\* In the local draft no price template is left behind by its product, whatever is renamed,
\* created again or deleted.
PricesHaveProducts == (~remote /\ section = "products") => priced \subseteq {r.id : r \in rows}
=============================================================================

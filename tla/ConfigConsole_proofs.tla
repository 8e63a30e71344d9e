------------------------ MODULE ConfigConsole_proofs ------------------------
(***************************************************************************)
(* The invariants of ConfigConsole, for any identifiers, any rows there at *)
(* first, any number of keys, of handlers in progress and of clicks.       *)
(* TypeOK is not inductive: a call carries the rows it writes, the record  *)
(* the editor was opened on is submitted later, an answer on its way is    *)
(* the table to be.  ToldIsStored and ShownIsStored are about an operator  *)
(* who waits for answers: then one handler is in progress at most, and     *)
(* each of its promises is either still to be written or kept.             *)
(***************************************************************************)
EXTENDS ConfigConsole, FiniteSetTheorems, TLAPS

\* A record on its way to the server or the draft, and one that is there.
IsForm(w) ==
    /\ w = Row(w.key, w.id, w.owner, w.on, w.data)
    /\ w.key \in Keys \cup {None} /\ w.id \in Ids \cup {None}
    /\ Numbered /\ w.key # None => w.key \in 1..made
    /\ w.on \in BOOLEAN /\ ("enabled" \notin sectionConfig.row => w.on = TRUE)
    /\ w.data = [f \in Data |-> w.data[f]]
IsRow(r) == IsForm(r) /\ r.key # None /\ r.id # None

\* A table has one row for each key; the server's keys are numbers it gave, or identifiers.
IsTable(rs) == /\ \A r \in rs : IsRow(r)
               /\ \A r, s \in rs : r.key = s.key => r = s
IsServed(rs) == IsTable(rs) /\ (~Numbered => \A r \in rs : r.key = r.id)

\* Records of which no two are the same one to the server.
Distinct(ws) == \A v, w \in ws : v.key = w.key \/ (~Numbered /\ v.id = w.id) => v = w
Writers == {"save", "toggle", "batch", "delete", "deletes", "late"}
Lists(c) == c.op # "late" /\ Script(c.op)[c.at] = "list"
IsCall(c) ==
    /\ c = [op |-> c.op, how |-> c.how, at |-> c.at, left |-> c.left, claims |-> c.claims,
            key |-> c.key, ans |-> c.ans]
    /\ c.op \in Writers \cup {"load", "reset", "test", "detail", "webhook", "sync"}
    /\ c.at \in DOMAIN Script(c.op)
    /\ c.at # 1 \/ c.ans = Done => c.left = {}
    /\ c.op \in Writers => c.how \in {"create", "edit", "delete"}
    /\ c.op \notin Writers => c.left = {} /\ c.claims = {}
    /\ \A w \in c.left : /\ IsForm(w) /\ w.id # None
                         /\ IF c.how = "create" THEN w.key = None ELSE w.key # None
    /\ c.op \in {"test", "detail", "webhook", "sync"} => c.key \in Keys
    /\ Lists(c) /\ c.ans \notin {Waiting, Failed} => IsServed(c.ans)

ServerTyped == /\ IsServed(store) /\ made \in Nat
               /\ Numbered => Len(SeedIds) <= made /\ made <= MaxKeys
PageTyped ==
    /\ remote \in BOOLEAN /\ section \in Sections /\ loading \in BOOLEAN /\ hasty \in BOOLEAN
    /\ source \in {"local", "remote", "remote-error"} /\ (remote <=> source # "local")
    /\ IsTable(rows) /\ (remote => IsServed(rows))
    /\ picked \subseteq Keys /\ priced \subseteq Ids
IsEditor(e) ==
    /\ e = [mode |-> e.mode, base |-> e.base, form |-> e.form, busy |-> e.busy]
    /\ e.mode \in {"closed", "create", "edit"}
    /\ e.mode # "closed" =>
         /\ IsForm(e.base) /\ IsForm(e.form) /\ e.form.key = e.base.key
         /\ IF e.mode = "create" THEN e.base.key = None ELSE e.base.key # None
IsDrawer(d) == /\ d = [on |-> d.on, data |-> d.data, loading |-> d.loading, busy |-> d.busy]
               /\ d.on \in Keys \cup {None}
EditorTyped == IsEditor(editor)
DrawerTyped == IsDrawer(drawer)
CallsTyped == /\ calls = [i \in 1..MaxCalls |-> calls[i]]
              /\ \A i \in Busy : IsCall(calls[i]) /\ remote
WellTyped == ServerTyped /\ PageTyped /\ EditorTyped /\ DrawerTyped /\ CallsTyped

\* A page that edits the local draft has no webhook to ask about.
HooksAreRemote == ~remote /\ Can("webhook") => drawer.on = None

OneAtATime == ~hasty => \A i, j \in Busy : i = j

\* What a handler promises of a record it writes, and when the server has it so.
Promise(how, w) == IF how = "delete" THEN Removed(w) ELSE Saved(w)
Stands(how, w) ==
    IF how = "delete" THEN \A r \in store : r.key # w.key
    ELSE \E r \in store : /\ r.id = w.id /\ r.on = w.on
                          /\ \A f \in Typed : r.data[f] = w.data[f]
                          /\ Numbered /\ w.key # None => r.key = w.key
                          /\ section # "priceTemplates" \/ w.key = None => r.owner = w.owner
HasKey(how, w) == (how = "create" => w.key = None) /\ (how = "edit" => w.key # None)
Snapshot == {Mapped(r) : r \in store}

\* The handler in progress: what it will say is of records still to be written or as they should
\* be, and the answer it has is the server as it is.
Rows(claims) == {claim.row : claim \in claims}
Keeps(c) ==
    /\ told = None
    /\ c.op # "late" /\ c.ans # Failed =>
         /\ c.left \subseteq Rows(c.claims) /\ Distinct(Rows(c.claims))
         /\ c.claims = {Promise(c.how, w) : w \in Rows(c.claims)}
         /\ \A w \in Rows(c.claims) : HasKey(c.how, w)
         /\ \A w \in Rows(c.claims) \ c.left : Stands(c.how, w)
    /\ Lists(c) /\ c.ans \notin {Waiting, Failed} => c.ans = Snapshot
PromisesAreKept == (remote /\ ~hasty) => \A i \in Busy : Keeps(calls[i])
ToldIsRead == (source = "remote" /\ ~hasty /\ told # None) => rows = Snapshot

IInv == /\ WellTyped /\ HooksAreRemote /\ OneAtATime /\ PromisesAreKept /\ ToldIsRead
        /\ ToldIsStored /\ PricesHaveProducts

---------------------------------------------------------------------------
(* The sections *)

\* Every field typed in a form is sent and kept, every field shown or edited is read; the switch
\* is sent where a row has one, and pressed and typed nowhere else.
Fields(s) == s.row \ {"key", "enabled", "productSku", s.ident}
IsSection(s) ==
    /\ "enabled" \in s.row <=> "enabled" \in s.sent
    /\ "toggle" \in s.can \/ "enabled" \in s.form => "enabled" \in s.row
    /\ (s.form \cap Fields(s)) \ {"status"} \subseteq s.sent \cap s.kept
    /\ (s.shown \cup s.form) \cap Fields(s) \subseteq s.read

LEMMA FieldsAreCarried ==
    ASSUME section \in Sections
    PROVE  /\ "enabled" \in sectionConfig.row <=> "enabled" \in sectionConfig.sent
           /\ Can("toggle") \/ "enabled" \in sectionConfig.form => "enabled" \in sectionConfig.row
           /\ Typed \subseteq sectionConfig.sent /\ Typed \subseteq sectionConfig.kept
           /\ Typed \subseteq Data
           /\ (sectionConfig.shown \cup sectionConfig.form) \cap Data \subseteq sectionConfig.read
<1>1. IsSection(PaymentChannels)
  BY DEF IsSection, Fields, PaymentChannels, PaymentChannelRow, PaymentChannelShown,
         PaymentChannelForm, PaymentChannelBasics, CallbackFields, RefundFields,
         PaymentChannelSent, PaymentChannelRead, PaymentChannelKept
<1>2. IsSection(Providers)
  BY DEF IsSection, Fields, Providers, ProviderRow, ProviderShown, ProviderForm, ProviderSent,
         ProviderRead, ProviderKept
<1>3. IsSection(Actions)
  BY DEF IsSection, Fields, Actions, ActionRow, ActionShown, ActionForm, ActionSent,
         ActionRead, ActionKept
<1>4. IsSection(FulfillmentStrategies)
  BY DEF IsSection, Fields, FulfillmentStrategies, FulfillmentRow, FulfillmentShown,
         FulfillmentForm, FulfillmentSent, FulfillmentRead, FulfillmentKept
<1>5. IsSection(DeliveryStrategies)
  BY DEF IsSection, Fields, DeliveryStrategies, DeliveryRow, DeliveryShown, DeliveryForm,
         DeliverySent, DeliveryRead, DeliveryKept
<1>6. IsSection(TelegramConfigs)
  BY DEF IsSection, Fields, TelegramConfigs, TelegramRow, TelegramShown, TelegramForm,
         TelegramSent, TelegramRead, TelegramKept
<1>7. IsSection(InternalClientKeys)
  BY DEF IsSection, Fields, InternalClientKeys, ClientKeyRow, ClientKeyShown, ClientKeyForm,
         ClientKeySent, ClientKeyRead, ClientKeyKept
<1>8. IsSection(RuntimeSettings) /\ IsSection(AuditLogs)
  BY DEF IsSection, Fields, RuntimeSettings, RuntimeRow, RuntimeShown, RuntimeForm,
         RuntimeSent, RuntimeRead, RuntimeKept, AuditLogs, AuditLogRow, AuditLogShown,
         AuditLogRead
<1>9. IsSection(Products)
  BY DEF IsSection, Fields, Products, ProductRow, ProductShown, ProductForm, ProductSent,
         ProductRead, ProductKept
<1>10. IsSection(PriceTemplates)
  BY DEF IsSection, Fields, PriceTemplates, PriceTemplateRow, PriceTemplateShown,
         PriceTemplateForm, PriceTemplateSent, PriceTemplateRead, PriceTemplateKept
<1>11. IsSection(sectionConfig)
  BY <1>1, <1>2, <1>3, <1>4, <1>5, <1>6, <1>7, <1>8, <1>9, <1>10 DEF Sections, sectionConfig, Config
<1> QED BY <1>11 DEF IsSection, Fields, Can, Typed, Data

\* The section on show stays, and a number once given stays given.
LEMMA Stays ==
    ASSUME UNCHANGED fixed
    PROVE  /\ remote' = remote /\ section' = section /\ sectionConfig' = sectionConfig
           /\ (Numbered' <=> Numbered) /\ Data' = Data /\ Typed' = Typed
<1>1. remote' = remote /\ section' = section
  BY DEF fixed
<1>2. sectionConfig' = sectionConfig
  BY <1>1 DEF sectionConfig, Config
<1> QED BY <1>1, <1>2 DEF Numbered, Data, Typed

Grows == UNCHANGED fixed /\ made \in Nat /\ made' \in {made, made + 1}

LEMMA RowsStay ==
    ASSUME Grows
    PROVE  /\ \A w : IsForm(w) => IsForm(w)'
           /\ \A r : IsRow(r) => IsRow(r)'
           /\ \A rs : IsTable(rs) => IsTable(rs)'
           /\ \A rs : IsServed(rs) => IsServed(rs)'
<1>1. Data' = Data /\ (Numbered' <=> Numbered) /\ sectionConfig' = sectionConfig
  BY Stays DEF Grows
<1>2. 1..made \subseteq 1..made'
  BY DEF Grows
<1>3. \A w : IsForm(w) => IsForm(w)'
  BY <1>1, <1>2 DEF IsForm
<1>4. \A r : IsRow(r) => IsRow(r)'
  BY <1>3 DEF IsRow
<1>5. \A rs : IsTable(rs) => IsTable(rs)'
  BY <1>4 DEF IsTable
<1>6. \A rs : IsServed(rs) => IsServed(rs)'
  BY <1>1, <1>5 DEF IsServed
<1> QED BY <1>3, <1>4, <1>5, <1>6

LEMMA CallStays ==
    ASSUME Grows, NEW c, IsCall(c)
    PROVE  IsCall(c)'
BY RowsStay DEF IsCall, Lists

---------------------------------------------------------------------------
(* Rows and tables *)

LEMMA RowIsForm ==
    ASSUME NEW w, IsForm(w)
    PROVE  /\ w = [key |-> w.key, id |-> w.id, owner |-> w.owner, on |-> w.on, data |-> w.data]
           /\ DOMAIN w.data = Data
BY DEF IsForm, Row

\* What the server stores of a record, and what the draft keeps of it.
LEMMA StoredFields ==
    ASSUME NEW w, NEW old
    PROVE  /\ Stored(w, old).key = (IF old = NoRow THEN FreshKey(w) ELSE old.key)
           /\ Stored(w, old).id = w.id /\ Stored(w, old).owner = w.owner
           /\ Stored(w, old).on = (IF "enabled" \in sectionConfig.sent THEN w.on ELSE old.on)
           /\ \A f \in Data : f \in sectionConfig.sent => Stored(w, old).data[f] = w.data[f]
           /\ Stored(w, old).data = [f \in Data |-> Stored(w, old).data[f]]
           /\ Stored(w, old) = Row(Stored(w, old).key, Stored(w, old).id, Stored(w, old).owner,
                                   Stored(w, old).on, Stored(w, old).data)
BY DEF Stored, Row, Written

LEMMA KeptFields ==
    ASSUME NEW w, NEW key
    PROVE  /\ Kept(w, key).key = key /\ Kept(w, key).id = w.id /\ Kept(w, key).owner = w.owner
           /\ Kept(w, key).on = w.on
           /\ \A f \in Data : f \in sectionConfig.kept => Kept(w, key).data[f] = w.data[f]
           /\ Kept(w, key).data = [f \in Data |-> Kept(w, key).data[f]]
           /\ Kept(w, key) = Row(Kept(w, key).key, Kept(w, key).id, Kept(w, key).owner,
                                 Kept(w, key).on, Kept(w, key).data)
BY DEF Kept, Row, Written

LEMMA KeptIsRow ==
    ASSUME NEW w, IsForm(w), w.id # None, NEW key \in Keys, Numbered => key \in 1..made
    PROVE  IsRow(Kept(w, key))
BY KeptFields, ConsoleAssumption DEF IsRow, IsForm, Keys

LEMMA SwitchedFields ==
    ASSUME NEW r, IsForm(r), NEW on
    PROVE  [r EXCEPT !.on = on] = Row(r.key, r.id, r.owner, on, r.data)
BY DEF IsForm, Row

LEMMA SwitchedIsRow ==
    ASSUME NEW r, IsRow(r), NEW on \in BOOLEAN, "enabled" \in sectionConfig.row
    PROVE  /\ IsRow([r EXCEPT !.on = on])
           /\ [r EXCEPT !.on = on].key = r.key /\ [r EXCEPT !.on = on].id = r.id
           /\ [r EXCEPT !.on = on].owner = r.owner /\ [r EXCEPT !.on = on].data = r.data
           /\ [r EXCEPT !.on = on].on = on
<1>1. [r EXCEPT !.on = on] = [key |-> r.key, id |-> r.id, owner |-> r.owner, on |-> on, data |-> r.data]
  BY SwitchedFields DEF IsRow, Row
<1> QED BY <1>1 DEF IsRow, IsForm, Row

LEMMA MappedFields ==
    ASSUME NEW r, IsForm(r)
    PROVE  /\ Mapped(r) = Row(r.key, r.id, r.owner, r.on, Mapped(r).data)
           /\ Mapped(r).key = r.key /\ Mapped(r).id = r.id /\ Mapped(r).owner = r.owner
           /\ Mapped(r).on = r.on
           /\ Mapped(r).data = [f \in Data |-> Mapped(r).data[f]]
           /\ \A f \in Data : f \in sectionConfig.read => Mapped(r).data[f] = r.data[f]
<1>1. Mapped(r) = [key |-> r.key, id |-> r.id, owner |-> r.owner, on |-> r.on, data |-> Mapped(r).data]
  BY RowIsForm DEF Mapped
<1>2. Mapped(r).data = Written(sectionConfig.read, r.data, All("lost"))
  BY RowIsForm DEF Mapped
<1> QED BY <1>1, <1>2 DEF Row, Written

LEMMA SnapshotServed ==
    ASSUME IsServed(store)
    PROVE  IsServed(Snapshot)
<1>1. \A r \in store : IsRow(Mapped(r)) /\ Mapped(r).key = r.key /\ Mapped(r).id = r.id
  <2> TAKE r \in store
  <2>1. IsRow(r)
    BY DEF IsServed, IsTable
  <2> QED BY <2>1, MappedFields DEF IsRow, IsForm
<1> QED BY <1>1 DEF IsServed, IsTable, Snapshot

\* The rows there at first.
LEMMA SeedsServed ==
    ASSUME section \in Sections, made \in Nat, Numbered => Len(SeedIds) <= made
    PROVE  IsServed(Seeds) /\ SeedPriced \subseteq Ids
<1> DEFINE S(k) == Row(IF Numbered THEN k ELSE SeedIds[k], SeedIds[k], SeedOwner(k), TRUE, All("seed"))
<1>1. DOMAIN SeedIds = 1..Len(SeedIds) /\ Len(SeedIds) \in Nat /\ MaxKeys \in Nat
      /\ \A k \in DOMAIN SeedIds : SeedIds[k] \in Ids
  BY ConsoleAssumption
<1>2. \A k \in DOMAIN SeedIds :
         /\ S(k).key = (IF Numbered THEN k ELSE SeedIds[k]) /\ S(k).id = SeedIds[k] /\ S(k).on = TRUE
         /\ S(k) = Row(S(k).key, S(k).id, S(k).owner, S(k).on, S(k).data)
         /\ S(k).data = [f \in Data |-> S(k).data[f]]
  BY DEF Row, All
<1>3. Seeds = {S(k) : k \in DOMAIN SeedIds}
  BY DEF Seeds
<1>4. \A j, k \in DOMAIN SeedIds : S(j).key = S(k).key => S(j) = S(k)
  <2>1. CASE Numbered
    <3>1. \A k \in DOMAIN SeedIds : S(k).key = k
      BY <2>1 DEF Row
    <3> HIDE DEF S
    <3> QED BY <3>1
  <2>2. CASE ~Numbered
    <3>1. \A j, k \in DOMAIN SeedIds : SeedIds[j] = SeedIds[k] => S(j) = S(k)
      BY <2>2 DEF Row, Numbered, SeedOwner
    <3> HIDE DEF S
    <3> QED BY <1>2, <2>2, <3>1
  <2> HIDE DEF S
  <2> QED BY <2>1, <2>2
<1>5. \A k \in DOMAIN SeedIds : IsRow(S(k)) /\ S(k).id \in Ids /\ (~Numbered => S(k).key = S(k).id)
  <2> TAKE k \in DOMAIN SeedIds
  <2>1. SeedIds[k] # None /\ SeedIds[k] \in Ids /\ k \in 1..MaxKeys /\ k # None
        /\ (Numbered => k \in 1..made)
    BY <1>1, ConsoleAssumption DEF Keys
  <2> HIDE DEF S
  <2> QED BY <1>2, <2>1 DEF IsRow, IsForm, Keys
<1> HIDE DEF S
<1>6. \A r \in Seeds : IsRow(r) /\ r.id \in Ids /\ (~Numbered => r.key = r.id)
  BY <1>3, <1>5
<1>7. \A r, s \in Seeds : r.key = s.key => r = s
  BY <1>3, <1>4
<1> QED BY <1>6, <1>7 DEF IsServed, IsTable, SeedPriced

---------------------------------------------------------------------------
(* The server's steps on its rows *)

\* A record a handler sends, and a row of the server that is as it says.
IsSent(how, w) == /\ IsForm(w) /\ w.id # None
                  /\ IF how = "create" THEN w.key = None ELSE w.key # None
Matches(r, w) == /\ r.id = w.id /\ r.owner = w.owner /\ r.on = w.on
                 /\ \A f \in Typed : r.data[f] = w.data[f]

LEMMA InsertTyped ==
    ASSUME section \in Sections, ServerTyped, UNCHANGED fixed, NEW w, IsForm(w), w.id # None,
           ~Numbered => \A r \in store : r.id # w.id, Insert(w)
    PROVE  /\ ServerTyped' /\ Grows
           /\ store' = store \cup {Stored(w, NoRow)} /\ Matches(Stored(w, NoRow), w)
<1> PICK new : new = Stored(w, NoRow)
  OBVIOUS
<1>1. /\ made < MaxKeys /\ made' = made + 1 /\ made \in Nat /\ MaxKeys \in Nat
      /\ store' = store \cup {new}
  BY ConsoleAssumption DEF Insert, ServerTyped
<1>2. Grows
  BY <1>1 DEF Grows
<1>3. /\ new.id = w.id /\ new.owner = w.owner /\ new.data = [f \in Data |-> new.data[f]]
      /\ new = Row(new.key, new.id, new.owner, new.on, new.data)
      /\ \A f \in Typed : new.data[f] = w.data[f]
  BY StoredFields, FieldsAreCarried
<1>4. new.on = w.on
  BY StoredFields, FieldsAreCarried DEF NoRow, Row, IsForm
<1>5. new.key = IF Numbered THEN made + 1 ELSE w.id
  BY StoredFields DEF FreshKey
<1>6. w.id \in Ids /\ w.id \in Keys /\ made + 1 \in Keys /\ made + 1 \in 1..made' /\ None \notin Keys
  BY <1>1, ConsoleAssumption DEF IsForm, Keys
<1>7. Data' = Data /\ (Numbered' <=> Numbered) /\ sectionConfig' = sectionConfig
  BY Stays
<1>8. IsRow(new)' /\ (~Numbered => new.key = new.id)
  BY <1>3, <1>4, <1>5, <1>6, <1>7 DEF IsRow, IsForm
<1>9. \A r \in store : IsRow(r)' /\ r.key # new.key
  <2> TAKE r \in store
  <2>1. IsRow(r) /\ (~Numbered => r.key = r.id)
    BY DEF ServerTyped, IsServed, IsTable
  <2>2. IsRow(r)'
    BY <1>2, <2>1, RowsStay
  <2>3. Numbered => r.key \in 1..made
    BY <2>1 DEF IsRow, IsForm
  <2> QED BY <1>1, <1>5, <2>1, <2>2, <2>3
<1>10. IsServed(store)'
  BY <1>1, <1>7, <1>8, <1>9 DEF ServerTyped, IsServed, IsTable
<1>11. ServerTyped'
  BY <1>1, <1>7, <1>10, ConsoleAssumption DEF ServerTyped
<1> QED BY <1>1, <1>2, <1>3, <1>4, <1>11 DEF Matches

LEMMA ReplaceTyped ==
    ASSUME section \in Sections, ServerTyped, UNCHANGED fixed, NEW w, IsForm(w), w.id # None,
           NEW old \in store, ~Numbered => old.id = w.id, Replace(old, w)
    PROVE  /\ ServerTyped' /\ Grows
           /\ store' = (store \ {old}) \cup {Stored(w, old)} /\ Matches(Stored(w, old), w)
           /\ Stored(w, old).key = old.key
<1> PICK new : new = Stored(w, old)
  OBVIOUS
<1>1. made' = made /\ made \in Nat /\ store' = (store \ {old}) \cup {new}
  BY DEF Replace, ServerTyped
<1>2. Grows
  BY <1>1 DEF Grows
<1>3. IsRow(old) /\ old # NoRow
  BY DEF ServerTyped, IsServed, IsTable, IsRow, NoRow, Row
<1>4. /\ new.id = w.id /\ new.owner = w.owner /\ new.data = [f \in Data |-> new.data[f]]
      /\ new = Row(new.key, new.id, new.owner, new.on, new.data)
      /\ \A f \in Typed : new.data[f] = w.data[f]
      /\ new.key = old.key
  BY <1>3, StoredFields, FieldsAreCarried
<1>5. new.on = w.on
  <2>1. CASE "enabled" \in sectionConfig.sent
    BY <2>1, StoredFields
  <2>2. CASE "enabled" \notin sectionConfig.sent
    <3>1. w.on = TRUE /\ old.on = TRUE
      BY <1>3, <2>2, FieldsAreCarried DEF IsRow, IsForm
    <3> QED BY <2>2, <3>1, StoredFields
  <2> QED BY <2>1, <2>2
<1>6. IsRow(new) /\ (~Numbered => new.key = new.id)
  BY <1>3, <1>4, <1>5 DEF ServerTyped, IsServed, IsRow, IsForm
<1>7. IsServed(store')
  BY <1>1, <1>4, <1>6 DEF ServerTyped, IsServed, IsTable
<1>8. IsServed(store)'
  <2> PICK rs : rs = store'
    OBVIOUS
  <2>1. IsServed(rs)'
    BY <1>2, <1>7, RowsStay
  <2> QED BY <2>1 DEF IsServed, IsTable
<1>9. ServerTyped'
  BY <1>1, <1>8, Stays DEF ServerTyped
<1> QED BY <1>1, <1>2, <1>4, <1>5, <1>9 DEF Matches

\* A price template the server takes stands as it was sent, but for the product chosen when it
\* was there before, and leaves the others standing.
LEMMA PriceStands ==
    ASSUME section \in Sections, ServerTyped, UNCHANGED fixed, NEW how \in {"create", "edit"},
           NEW w, IsSent(how, w), section = "priceTemplates", PutPrice(w)
    PROVE  /\ ServerTyped' /\ Grows /\ Stands(how, w)'
           /\ \A v : /\ v.key = w.key => v = w
                     /\ HasKey(how, v)
                     /\ Stands(how, v)
                     => Stands(how, v)'
<1> PICK p : p = [w EXCEPT !.owner = PriceRoute(w)]
  OBVIOUS
<1>1. /\ p = [key |-> w.key, id |-> w.id, owner |-> PriceRoute(w), on |-> w.on, data |-> w.data]
      /\ IsForm(w) /\ w.id # None
  BY RowIsForm DEF IsSent
<1>2. IsForm(p) /\ p.id # None /\ Numbered
  BY <1>1 DEF IsForm, Row, Numbered
<1>3. /\ p.key = w.key /\ p.id = w.id /\ p.on = w.on /\ p.data = w.data
      /\ w.key = None => p.owner = w.owner
  BY <1>1 DEF PriceRoute
<1>4. Typed' = Typed /\ section' = section /\ (Numbered' <=> Numbered)
  BY Stays
<1>5. how = "create" <=> w.key = None
  BY DEF IsSent
<1>6. CASE Insert(p) /\ w.key = None
  <2>1. /\ ServerTyped' /\ Grows
        /\ store' = store \cup {Stored(p, NoRow)} /\ Matches(Stored(p, NoRow), p)
    BY <1>2, <1>6, InsertTyped
  <2>2. Stands(how, w)'
    BY <1>3, <1>4, <1>6, <2>1 DEF Stands, Matches
  <2>3. \A v : Stands(how, v) => Stands(how, v)'
    BY <1>4, <2>1 DEF Stands
  <2> QED BY <2>1, <2>2, <2>3
<1>7. ASSUME NEW old \in store, Replace(old, p), w.key # None => old.key = w.key
      PROVE  /\ ServerTyped' /\ Grows /\ Stands(how, w)'
             /\ \A v : /\ v.key = w.key => v = w
                       /\ HasKey(how, v)
                       /\ Stands(how, v)
                       => Stands(how, v)'
  <2> PICK new : new = Stored(p, old)
    OBVIOUS
  <2>1. /\ ServerTyped' /\ Grows
        /\ store' = (store \ {old}) \cup {new} /\ Matches(new, p) /\ new.key = old.key
    BY <1>2, <1>7, ReplaceTyped
  <2>2. Stands(how, w)'
    BY <1>3, <1>4, <1>5, <1>7, <2>1 DEF Stands, Matches
  <2>3. ASSUME NEW v, v.key = w.key => v = w, HasKey(how, v), Stands(how, v)
        PROVE  Stands(how, v)'
    <3>1. CASE v = w
      BY <2>2, <3>1
    <3>2. CASE v # w
      <4>1. v.key # None /\ w.key # None
        BY <1>5, <2>3, <3>2 DEF HasKey
      <4>2. PICK r \in store : /\ r.id = v.id /\ r.on = v.on
                               /\ \A f \in Typed : r.data[f] = v.data[f]
                               /\ r.key = v.key
        BY <1>2, <2>3, <4>1 DEF Stands
      <4>3. r # old
        BY <1>7, <2>3, <3>2, <4>1, <4>2
      <4> QED BY <1>4, <1>5, <2>1, <4>1, <4>2, <4>3 DEF Stands
    <3> QED BY <3>1, <3>2
  <2> QED BY <2>1, <2>2, <2>3
<1>8. \/ w.key = None /\ Insert(p)
      \/ \E old \in store : Replace(old, p) /\ (w.key # None => old.key = w.key)
  BY <1>3 DEF PutPrice
<1> QED BY <1>6, <1>7, <1>8

\* Two records of one handler, of which the server takes w: what stands of v goes on standing.
LEMMA TakeStands ==
    ASSUME section \in Sections, ServerTyped, UNCHANGED fixed, NEW how \in {"create", "edit", "delete"},
           NEW w, IsSent(how, w), Take(how, w)
    PROVE  /\ ServerTyped' /\ Grows /\ Stands(how, w)'
           /\ \A v : /\ v.key = w.key \/ (~Numbered /\ v.id = w.id) => v = w
                     /\ HasKey(how, v)
                     /\ Stands(how, v)
                     => Stands(how, v)'
<1>1. Typed' = Typed /\ section' = section /\ (Numbered' <=> Numbered)
  BY Stays
<1>2. CASE how = "delete"
  <2>1. store' = {r \in store : r.key # w.key} /\ made' = made
    BY <1>2 DEF Take, Delete
  <2>2. Grows
    BY <2>1 DEF Grows, ServerTyped
  <2>3. IsServed(store)'
    <3> PICK rs : rs = store'
      OBVIOUS
    <3>1. IsServed(rs)
      BY <2>1 DEF ServerTyped, IsServed, IsTable
    <3>2. IsServed(rs)'
      BY <2>2, <3>1, RowsStay
    <3> QED BY <3>2 DEF IsServed, IsTable
  <2>4. ServerTyped'
    BY <2>1, <2>3, Stays DEF ServerTyped
  <2> QED BY <1>2, <2>1, <2>2, <2>4 DEF Stands
<1>3. CASE how # "delete" /\ section = "priceTemplates"
  <2>1. PutPrice(w)
    BY <1>3 DEF Take
  <2>2. /\ ServerTyped' /\ Grows /\ Stands(how, w)'
        /\ \A v : /\ v.key = w.key => v = w
                  /\ HasKey(how, v)
                  /\ Stands(how, v)
                  => Stands(how, v)'
    BY <1>3, <2>1, PriceStands
  <2> QED BY <2>2
<1>4. CASE how # "delete" /\ section # "priceTemplates" /\ Insert(w)
           /\ (~Numbered => \A r \in store : r.id # w.id) /\ (section = "products" => w.key = None)
  <2>1. /\ ServerTyped' /\ Grows
        /\ store' = store \cup {Stored(w, NoRow)} /\ Matches(Stored(w, NoRow), w)
    BY <1>4, InsertTyped DEF IsSent
  <2>2. Stands(how, w)'
    BY <1>1, <1>4, <2>1 DEF Stands, Matches, Numbered
  <2>3. \A v : Stands(how, v) => Stands(how, v)'
    BY <1>1, <1>4, <2>1 DEF Stands
  <2> QED BY <2>1, <2>2, <2>3
<1>5. ASSUME how = "edit", section # "priceTemplates", NEW old \in Named(w), Replace(old, w)
      PROVE  /\ ServerTyped' /\ Grows /\ Stands(how, w)'
             /\ \A v : /\ v.key = w.key \/ (~Numbered /\ v.id = w.id) => v = w
                       /\ HasKey(how, v)
                       /\ Stands(how, v)
                       => Stands(how, v)'
  <2>1. old \in store /\ (IF section = "products" THEN old.key = w.key ELSE old.id = w.id)
    BY <1>5 DEF Named
  <2>2. section # "products" <=> ~Numbered
    BY <1>5 DEF Numbered
  <2>3. /\ ServerTyped' /\ Grows
        /\ store' = (store \ {old}) \cup {Stored(w, old)} /\ Matches(Stored(w, old), w)
        /\ Stored(w, old).key = old.key
    BY <1>5, <2>1, <2>2, ReplaceTyped DEF IsSent
  <2>4. Stands(how, w)'
    BY <1>1, <1>5, <2>1, <2>3 DEF Stands, Matches, Numbered
  <2>5. ASSUME NEW v, v.key = w.key \/ (~Numbered /\ v.id = w.id) => v = w,
               HasKey(how, v), Stands(how, v)
        PROVE  Stands(how, v)'
    <3>1. CASE v = w
      BY <2>4, <3>1
    <3>2. CASE v # w
      <4>1. PICK r \in store : /\ Matches(r, v)
                               /\ section = "products" => r.key = v.key
        BY <1>5, <2>2, <2>5 DEF Stands, Matches, HasKey
      <4>2. r # old
        BY <2>1, <2>2, <2>5, <3>2, <4>1 DEF Matches
      <4> QED BY <1>1, <1>5, <2>3, <4>1, <4>2 DEF Stands, Matches, Numbered
    <3> QED BY <3>1, <3>2
  <2> QED BY <1>5, <2>3, <2>4, <2>5
<1>6. CASE how = "create" /\ section # "priceTemplates"
  <2>1. Post(w) /\ w.key = None
    BY <1>6 DEF Take, IsSent
  <2> QED BY <1>4, <1>6, <2>1 DEF Post
<1>7. CASE how = "edit" /\ section # "priceTemplates"
  <2>1. Put(w)
    BY <1>7 DEF Take
  <2>2. CASE \E old \in Named(w) : Replace(old, w)
    BY <1>5, <1>7, <2>2
  <2>3. CASE Named(w) = {} /\ section \in {"telegramConfigs", "internalClientKeys"} /\ Insert(w)
    <3>1. \A r \in store : r.id # w.id
      BY <2>3 DEF Named
    <3> QED BY <1>4, <1>7, <2>3, <3>1
  <2> QED BY <2>1, <2>2, <2>3 DEF Put
<1> QED BY <1>2, <1>3, <1>6, <1>7

---------------------------------------------------------------------------
(* Calls *)

\* What a call waits for, at each place of its script.
LEMMA ScriptOf ==
    ASSUME NEW op \in Writers \cup {"load", "reset", "test", "detail", "webhook", "sync"},
           NEW at \in DOMAIN Script(op)
    PROVE  /\ at \in {1, 2, 3} /\ (op \in {"late", "load", "reset", "detail", "webhook"} => at = 1)
           /\ Script(op)[at] = "write" <=> op \in Writers /\ at = 1
           /\ Script(op)[at] = "list" <=> \/ op \in {"load", "reset"}
                                          \/ op \in Writers \cup {"test"} /\ at = 2
                                          \/ op = "sync" /\ at = 3
           /\ Script(op)[at] = "probe" <=> \/ op \in {"test", "detail", "webhook"} /\ at = 1
                                           \/ op = "sync" /\ at = 2
           /\ Script(op)[at] = "sync" <=> op = "sync" /\ at = 1
           /\ Script(op)[at] \in {"list", "probe", "sync", "write"}
<1>1. CASE op \in {"load", "reset"}
  BY <1>1 DEF Script, Writers
<1>2. CASE op \in Writers \ {"late"}
  BY <1>2 DEF Script, Writers
<1>3. CASE op = "test"
  BY <1>3 DEF Script, Writers
<1>4. CASE op \in {"detail", "webhook"}
  BY <1>4 DEF Script, Writers
<1>5. CASE op = "sync"
  BY <1>5 DEF Script, Writers
<1>6. CASE op = "late"
  BY <1>6 DEF Script, Writers
<1> QED BY <1>1, <1>2, <1>3, <1>4, <1>5, <1>6

\* How the script goes on.
LEMMA ScriptGoesOn ==
    ASSUME NEW op \in Writers \cup {"load", "reset", "test", "detail", "webhook", "sync"},
           NEW at \in DOMAIN Script(op),
           \/ Script(op)[at] \in {"write", "sync"} /\ op # "late"
           \/ Script(op)[at] = "probe" /\ op \in {"test", "sync"}
    PROVE  at + 1 \in DOMAIN Script(op)
<1>1. CASE op \in Writers \ {"late"}
  BY <1>1 DEF Script, Writers
<1>2. CASE op \in {"test", "sync"}
  BY <1>2 DEF Script, Writers
<1>3. CASE op \in {"load", "reset", "detail", "webhook"}
  BY <1>3 DEF Script, Writers
<1> QED BY <1>1, <1>2, <1>3, ScriptOf

\* The call c at another place of its script, with other writes to come, or with an answer.
With(c, at, left, ans) == [op |-> c.op, how |-> c.how, at |-> at, left |-> left,
                           claims |-> c.claims, key |-> c.key, ans |-> ans]

LEMMA CallFields ==
    ASSUME NEW c, IsCall(c)
    PROVE  /\ c = With(c, c.at, c.left, c.ans)
           /\ \A at, left, ans, x :
                /\ [With(c, at, left, ans) EXCEPT !.ans = x] = With(c, at, left, x)
                /\ [With(c, at, left, ans) EXCEPT !.left = x] = With(c, at, x, ans)
                /\ [With(c, at, left, ans) EXCEPT !.at = x] = With(c, x, left, ans)
<1>1. c = With(c, c.at, c.left, c.ans)
  BY DEF IsCall, With
<1> QED BY <1>1 DEF With

\* The answers a call may get where it stands.
LEMMA AnswerTyped ==
    ASSUME NEW c, IsCall(c), c.op # "late", NEW ans,
           Script(c.op)[c.at] = "list" => ans = Failed \/ IsServed(ans),
           ans = Done => c.left = {}
    PROVE  IsCall(With(c, c.at, c.left, ans))
<1> PICK d : d = With(c, c.at, c.left, ans)
  OBVIOUS
<1>1. /\ d = [op |-> d.op, how |-> d.how, at |-> d.at, left |-> d.left, claims |-> d.claims,
              key |-> d.key, ans |-> d.ans]
      /\ d.op = c.op /\ d.how = c.how /\ d.at = c.at /\ d.left = c.left /\ d.claims = c.claims
      /\ d.key = c.key /\ d.ans = ans
  BY DEF With
<1> QED BY <1>1 DEF IsCall, Lists

LEMMA WrittenTyped ==
    ASSUME NEW c, IsCall(c), c.op # "late", Script(c.op)[c.at] = "write", NEW w \in c.left,
           NEW ans \in {Failed, IF c.left = {w} THEN Done ELSE Waiting}
    PROVE  IsCall(With(c, c.at, c.left \ {w}, ans))
<1> PICK d : d = With(c, c.at, c.left \ {w}, ans)
  OBVIOUS
<1>1. /\ d = [op |-> d.op, how |-> d.how, at |-> d.at, left |-> d.left, claims |-> d.claims,
              key |-> d.key, ans |-> d.ans]
      /\ d.op = c.op /\ d.how = c.how /\ d.at = c.at /\ d.left = c.left \ {w} /\ d.claims = c.claims
      /\ d.key = c.key /\ d.ans = ans
  BY DEF With
<1>2. ans = Done => c.left \ {w} = {}
  BY ConsoleAssumption
<1>3. ~Lists(d)
  BY <1>1 DEF Lists
<1> QED BY <1>1, <1>2, <1>3 DEF IsCall

LEMMA OnwardTyped ==
    ASSUME NEW c, IsCall(c), c.op # "late", c.left = {},
           Script(c.op)[c.at] \in {"write", "sync"} \/ (Script(c.op)[c.at] = "probe" /\ c.op \in {"test", "sync"})
    PROVE  IsCall(With(c, c.at + 1, c.left, Waiting))
<1> PICK d : d = With(c, c.at + 1, c.left, Waiting)
  OBVIOUS
<1>1. /\ d = [op |-> d.op, how |-> d.how, at |-> d.at, left |-> d.left, claims |-> d.claims,
              key |-> d.key, ans |-> d.ans]
      /\ d.op = c.op /\ d.how = c.how /\ d.at = c.at + 1 /\ d.left = {} /\ d.claims = c.claims
      /\ d.key = c.key /\ d.ans = Waiting
  BY DEF With
<1>2. c.at + 1 \in DOMAIN Script(c.op)
  BY ScriptGoesOn DEF IsCall
<1> QED BY <1>1, <1>2 DEF IsCall

LEMMA LateTyped ==
    ASSUME NEW c, IsCall(c), c.left # {}
    PROVE  /\ [c EXCEPT !.op = "late"] = [op |-> "late", how |-> c.how, at |-> c.at, left |-> c.left,
                                          claims |-> c.claims, key |-> c.key, ans |-> c.ans]
           /\ IsCall([c EXCEPT !.op = "late"])
<1> PICK d : d = [c EXCEPT !.op = "late"]
  OBVIOUS
<1>1. d = [op |-> "late", how |-> c.how, at |-> c.at, left |-> c.left, claims |-> c.claims,
           key |-> c.key, ans |-> c.ans]
  BY DEF IsCall
<1>2. c.at = 1 /\ c.op \in Writers /\ c.ans # Done
  BY DEF IsCall
<1>3. 1 \in DOMAIN Script("late")
  BY DEF Script
<1> QED BY <1>1, <1>2, <1>3 DEF IsCall, Lists, Writers

LEMMA LessTyped ==
    ASSUME NEW c, IsCall(c), c.op = "late", NEW w \in c.left
    PROVE  IsCall([c EXCEPT !.left = @ \ {w}])
<1> PICK d : d = [c EXCEPT !.left = @ \ {w}]
  OBVIOUS
<1>1. d = [op |-> c.op, how |-> c.how, at |-> c.at, left |-> c.left \ {w}, claims |-> c.claims,
           key |-> c.key, ans |-> c.ans]
  BY DEF IsCall
<1> QED BY <1>1 DEF IsCall, Lists

\* What is in a place of the calls becomes d.
Becomes(i, d) == calls' = [calls EXCEPT ![i] = d]

LEMMA OnwardEdit ==
    ASSUME CallsTyped, NEW i \in 1..MaxCalls, NEW c, c = calls[i], IsCall(c), GoesOn(i)
    PROVE  Becomes(i, With(c, c.at + 1, c.left, Waiting))
<1>1. PICK d : d = With(c, c.at + 1, c.left, c.ans)
  OBVIOUS
<1>2. [c EXCEPT !.at = @ + 1] = d
  BY <1>1 DEF IsCall, With
<1>3. PICK es : es = [calls EXCEPT ![i] = d]
  OBVIOUS
<1>4. [calls EXCEPT ![i].at = @ + 1] = es
  BY <1>2, <1>3
<1>5. [d EXCEPT !.ans = Waiting] = With(c, c.at + 1, c.left, Waiting)
  BY <1>1 DEF With
<1>6. [es EXCEPT ![i].ans = Waiting] = [calls EXCEPT ![i] = With(c, c.at + 1, c.left, Waiting)]
  BY <1>3, <1>5 DEF CallsTyped
<1>7. calls' = [es EXCEPT ![i].ans = Waiting]
  BY <1>4 DEF GoesOn
<1> QED BY <1>6, <1>7 DEF Becomes

---------------------------------------------------------------------------
(* What a step leaves alone stays typed *)

LEMMA ServerStays ==
    ASSUME ServerTyped, UNCHANGED <<fixed, server>>
    PROVE  ServerTyped' /\ Grows
<1>1. Grows
  BY DEF Grows, ServerTyped, server
<1>2. IsServed(store)'
  BY <1>1, RowsStay DEF ServerTyped, server
<1> QED BY <1>1, <1>2, Stays DEF ServerTyped, server

LEMMA PageStays ==
    ASSUME PageTyped, Grows, UNCHANGED <<page, hasty>>
    PROVE  PageTyped'
<1>1. remote' = remote /\ section' = section
  BY Stays DEF Grows
<1>2. IsTable(rows)' /\ (remote => IsServed(rows)')
  BY RowsStay DEF PageTyped, page
<1> QED BY <1>1, <1>2 DEF PageTyped, page

LEMMA EditorStays ==
    ASSUME Grows, NEW e, IsEditor(e), editor' = e
    PROVE  EditorTyped'
<1>1. e.mode # "closed" => IsForm(e.base)' /\ IsForm(e.form)'
  BY RowsStay DEF IsEditor
<1> QED BY <1>1 DEF EditorTyped, IsEditor

LEMMA CallReplaced ==
    ASSUME CallsTyped, Grows, NEW i \in 1..MaxCalls, remote, NEW d, d # None => IsCall(d),
           Becomes(i, d)
    PROVE  CallsTyped'
<1>1. calls' = [j \in 1..MaxCalls |-> IF j = i THEN d ELSE calls[j]]
  BY DEF CallsTyped, Becomes
<1>2. ASSUME NEW j \in 1..MaxCalls, calls'[j] # None
      PROVE  IsCall(calls[j])'
  <2>1. PICK e : e = calls'[j]
    OBVIOUS
  <2>2. IsCall(e)
    BY <1>1, <1>2, <2>1 DEF CallsTyped, Busy
  <2>3. IsCall(e)'
    BY <2>2, CallStays
  <2> QED BY <2>1, <2>3 DEF IsCall, Lists
<1>3. remote'
  BY Stays DEF Grows
<1> QED BY <1>1, <1>2, <1>3 DEF CallsTyped, Busy

LEMMA CallsStay ==
    ASSUME CallsTyped, Grows, UNCHANGED calls
    PROVE  CallsTyped'
<1>1. \A i \in Busy : IsCall(calls[i])' /\ remote'
  <2> TAKE i \in Busy
  <2>1. PICK e : e = calls[i]
    OBVIOUS
  <2>2. IsCall(e)'
    BY <2>1, CallStays DEF CallsTyped
  <2>3. e = calls'[i]
    BY <2>1
  <2>4. IsCall(calls[i])'
    BY <2>2, <2>3 DEF IsCall, Lists
  <2> QED BY <2>4, Stays DEF CallsTyped, Grows
<1> QED BY <1>1 DEF CallsTyped, Busy

LEMMA BusyCall ==
    ASSUME CallsTyped, NEW i \in 1..MaxCalls, calls[i] # None
    PROVE  IsCall(calls[i]) /\ remote
BY DEF CallsTyped, Busy

---------------------------------------------------------------------------
(* The server answers *)

\* The answer ans to what is not a write of c; to its write of w.
Answered(c, ans) ==
    /\ UNCHANGED server /\ c.left = {} /\ Script(c.op)[c.at] # "write"
    /\ Script(c.op)[c.at] = "list" => ans \in {Snapshot, Failed}
Wrote(c, w, ans) ==
    /\ w \in c.left /\ Script(c.op)[c.at] = "write"
    /\ \/ Take(c.how, w) /\ ans \in {Failed, IF c.left = {w} THEN Done ELSE Waiting}
       \/ ans = Failed /\ UNCHANGED server

LEMMA ServeSteps ==
    ASSUME CallsTyped, NEW i \in 1..MaxCalls, Serve(i), NEW c, c = calls[i]
    PROVE  /\ IsCall(c) /\ remote /\ c.op # "late" /\ c.ans = Waiting
           /\ \/ \E ans : /\ Answered(c, ans)
                          /\ Becomes(i, With(c, c.at, c.left, ans))
              \/ \E w, ans : /\ Wrote(c, w, ans)
                             /\ Becomes(i, With(c, c.at, c.left \ {w}, ans))
<1>1. IsCall(c) /\ remote /\ c.op # "late" /\ c.ans = Waiting
  BY BusyCall DEF Serve
<1>2. calls = [j \in 1..MaxCalls |-> calls[j]]
  BY DEF CallsTyped
<1>3. PICK what : what = Script(c.op)[c.at]
  OBVIOUS
<1>4. what \in {"list", "probe", "sync", "write"} /\ (what # "write" => c.left = {})
  <2>1. /\ c.op \in Writers \cup {"load", "reset", "test", "detail", "webhook", "sync"}
        /\ c.at \in DOMAIN Script(c.op)
        /\ c.at # 1 => c.left = {}
        /\ c.op \notin Writers => c.left = {}
    BY <1>1 DEF IsCall
  <2>2. what \in {"list", "probe", "sync", "write"}
    BY <1>3, <2>1, ScriptOf DEF Writers
  <2>3. what # "write" => c.at # 1 \/ c.op \notin Writers
    BY <1>3, <2>1, ScriptOf
  <2> QED BY <2>1, <2>2, <2>3
<1>5. ASSUME what # "write"
      PROVE  \E ans : /\ Answered(c, ans)
                      /\ Becomes(i, With(c, c.at, c.left, ans))
  <2>1. PICK ans : /\ calls' = [calls EXCEPT ![i].ans = ans] /\ UNCHANGED server
                   /\ what = "list" => ans \in {Snapshot, Failed}
    <3>1. CASE what = "list"
      <4>1. calls' \in {[calls EXCEPT ![i].ans = Snapshot], [calls EXCEPT ![i].ans = Failed]}
            /\ UNCHANGED server
        BY <1>3, <3>1 DEF Serve, Snapshot
      <4> QED BY <4>1
    <3>2. CASE what = "probe"
      <4>1. calls' \in {[calls EXCEPT ![i].ans = c.key], [calls EXCEPT ![i].ans = Failed]}
            /\ UNCHANGED server
        BY <1>3, <3>2 DEF Serve
      <4> QED BY <3>2, <4>1
    <3>3. CASE what = "sync"
      <4>1. calls' \in {[calls EXCEPT ![i].ans = Done], [calls EXCEPT ![i].ans = Failed]}
            /\ UNCHANGED server
        BY <1>3, <3>3 DEF Serve
      <4> QED BY <3>3, <4>1
    <3> QED BY <1>4, <1>5, <3>1, <3>2, <3>3
  <2>2. calls' = [calls EXCEPT ![i] = With(c, c.at, c.left, ans)]
    <3>1. [c EXCEPT !.ans = ans] = With(c, c.at, c.left, ans)
      BY <1>1 DEF IsCall, With
    <3> QED BY <1>2, <2>1, <3>1
  <2> QED BY <1>3, <1>4, <1>5, <2>1, <2>2 DEF Answered, Becomes
<1>6. ASSUME what = "write"
      PROVE  \E w, ans : /\ Wrote(c, w, ans)
                         /\ Becomes(i, With(c, c.at, c.left \ {w}, ans))
  <2>1. PICK w \in c.left :
          LET heard == [calls EXCEPT ![i].left = @ \ {w},
                        ![i].ans = IF c.left = {w} THEN Done ELSE Waiting]
          IN \/ Take(c.how, w) /\ calls' \in {heard, [heard EXCEPT ![i].ans = Failed]}
             \/ calls' = [heard EXCEPT ![i].ans = Failed] /\ UNCHANGED server
    BY <1>3, <1>6 DEF Serve
  <2>2. PICK first : first = IF c.left = {w} THEN Done ELSE Waiting
    OBVIOUS
  <2>3. PICK left : left = c.left \ {w}
    OBVIOUS
  <2>4. PICK heard : heard = [calls EXCEPT ![i].left = left, ![i].ans = first]
    OBVIOUS
  <2>5. \/ Take(c.how, w) /\ (calls' = heard \/ calls' = [heard EXCEPT ![i].ans = Failed])
        \/ calls' = [heard EXCEPT ![i].ans = Failed] /\ UNCHANGED server
    BY <2>1, <2>2, <2>3, <2>4
  <2>6. heard = [calls EXCEPT ![i] = With(c, c.at, left, first)]
    <3>1. PICK d : d = With(c, c.at, left, c.ans)
      OBVIOUS
    <3>2. [c EXCEPT !.left = left] = d
      BY <1>1, <3>1 DEF IsCall, With
    <3>3. PICK es : es = [calls EXCEPT ![i] = d]
      OBVIOUS
    <3>4. [calls EXCEPT ![i].left = left] = es
      BY <3>2, <3>3
    <3>5. [d EXCEPT !.ans = first] = With(c, c.at, left, first)
      BY <3>1 DEF With
    <3>6. [es EXCEPT ![i].ans = first] = [calls EXCEPT ![i] = With(c, c.at, left, first)]
      BY <1>2, <3>3, <3>5
    <3> QED BY <2>4, <3>4, <3>6
  <2>7. [heard EXCEPT ![i].ans = Failed] = [calls EXCEPT ![i] = With(c, c.at, left, Failed)]
    <3>1. PICK d : d = With(c, c.at, left, first)
      OBVIOUS
    <3>2. [d EXCEPT !.ans = Failed] = With(c, c.at, left, Failed)
      BY <3>1 DEF With
    <3> QED BY <1>2, <2>6, <3>1, <3>2
  <2>8. PICK ans : /\ calls' = [calls EXCEPT ![i] = With(c, c.at, left, ans)]
                   /\ \/ Take(c.how, w) /\ ans \in {Failed, first}
                      \/ ans = Failed /\ UNCHANGED server
    BY <2>5, <2>6, <2>7
  <2>9. Wrote(c, w, ans)
    BY <1>3, <1>6, <2>2, <2>8 DEF Wrote
  <2> QED BY <2>3, <2>8, <2>9 DEF Becomes
<1> QED BY <1>1, <1>4, <1>5, <1>6

LEMMA SentIsSent ==
    ASSUME NEW c, IsCall(c), NEW w \in c.left
    PROVE  c.how \in {"create", "edit", "delete"} /\ IsSent(c.how, w)
BY DEF IsCall, IsSent

\* A step that changes the server and the calls only.
LEMMA RestTyped ==
    ASSUME WellTyped, ServerTyped', CallsTyped', Grows,
           UNCHANGED <<fixed, page, editor, drawer, ghosts>>
    PROVE  WellTyped'
<1>1. PageTyped'
  BY PageStays DEF WellTyped, ghosts
<1>2. EditorTyped'
  BY EditorStays DEF WellTyped, EditorTyped
<1>3. DrawerTyped'
  BY DEF WellTyped, DrawerTyped, IsDrawer
<1> QED BY <1>1, <1>2, <1>3 DEF WellTyped

LEMMA ServeTyped == ASSUME WellTyped, NEW i \in 1..MaxCalls, Serve(i) PROVE WellTyped'
<1> PICK c : c = calls[i]
  OBVIOUS
<1>1. /\ IsCall(c) /\ remote /\ c.op # "late"
      /\ \/ \E ans : /\ Answered(c, ans)
                     /\ Becomes(i, With(c, c.at, c.left, ans))
         \/ \E w, ans : /\ Wrote(c, w, ans)
                        /\ Becomes(i, With(c, c.at, c.left \ {w}, ans))
  BY ServeSteps DEF WellTyped
<1>2. UNCHANGED <<fixed, page, editor, drawer, ghosts>> /\ section \in Sections
  BY DEF Serve, WellTyped, PageTyped
<1>3. ASSUME NEW ans, Answered(c, ans), Becomes(i, With(c, c.at, c.left, ans))
      PROVE  WellTyped'
  <2>1. ServerTyped' /\ Grows
    BY <1>2, <1>3, ServerStays DEF WellTyped, Answered
  <2>2. Script(c.op)[c.at] = "list" => ans = Failed \/ IsServed(ans)
    BY <1>3, SnapshotServed DEF Answered, WellTyped, ServerTyped
  <2>3. c.left = {}
    BY <1>3 DEF Answered
  <2>4. IsCall(With(c, c.at, c.left, ans))
    BY <1>1, <2>2, <2>3, AnswerTyped
  <2>5. CallsTyped'
    BY <1>1, <1>3, <2>1, <2>4, CallReplaced DEF WellTyped
  <2> QED BY <1>2, <2>1, <2>5, RestTyped
<1>4. ASSUME NEW w, NEW ans, Wrote(c, w, ans),
             Becomes(i, With(c, c.at, c.left \ {w}, ans))
      PROVE  WellTyped'
  <2>1. w \in c.left /\ Script(c.op)[c.at] = "write"
        /\ ans \in {Failed, IF c.left = {w} THEN Done ELSE Waiting}
        /\ (Take(c.how, w) \/ UNCHANGED server)
    BY <1>4 DEF Wrote
  <2>2. ServerTyped' /\ Grows
    <3>1. CASE UNCHANGED server
      BY <1>2, <3>1, ServerStays DEF WellTyped
    <3>2. CASE Take(c.how, w)
      <4>1. c.how \in {"create", "edit", "delete"} /\ IsSent(c.how, w)
        BY <1>1, <2>1, SentIsSent
      <4> QED BY <1>2, <3>2, <4>1, TakeStands DEF WellTyped
    <3> QED BY <2>1, <3>1, <3>2
  <2>3. IsCall(With(c, c.at, c.left \ {w}, ans))
    BY <1>1, <2>1, WrittenTyped
  <2>4. CallsTyped'
    BY <1>1, <1>4, <2>2, <2>3, CallReplaced DEF WellTyped
  <2> QED BY <1>2, <2>2, <2>4, RestTyped
<1> QED BY <1>1, <1>3, <1>4

LEMMA ServeLateTyped == ASSUME WellTyped, NEW i \in 1..MaxCalls, ServeLate(i) PROVE WellTyped'
<1> PICK c : c = calls[i]
  OBVIOUS
<1>1. IsCall(c) /\ remote /\ c.op = "late"
  BY BusyCall DEF ServeLate, WellTyped
<1>2. UNCHANGED <<fixed, page, editor, drawer, ghosts>> /\ section \in Sections
  BY DEF ServeLate, WellTyped, PageTyped
<1>3. PICK w \in c.left :
        /\ Take(c.how, w) \/ UNCHANGED server
        /\ calls' = [calls EXCEPT ![i] = IF c.left = {w} THEN None ELSE [c EXCEPT !.left = @ \ {w}]]
  BY DEF ServeLate
<1>4. ServerTyped' /\ Grows
  <2>1. CASE UNCHANGED server
    BY <1>2, <2>1, ServerStays DEF WellTyped
  <2>2. CASE Take(c.how, w)
    <3>1. c.how \in {"create", "edit", "delete"} /\ IsSent(c.how, w)
      BY <1>1, SentIsSent
    <3> QED BY <1>2, <2>2, <3>1, TakeStands DEF WellTyped
  <2> QED BY <1>3, <2>1, <2>2
<1>5. PICK d : /\ Becomes(i, d)
               /\ d = None \/ d = [c EXCEPT !.left = @ \ {w}]
  BY <1>3 DEF Becomes
<1>6. d # None => IsCall(d)
  BY <1>1, <1>5, LessTyped
<1>7. CallsTyped'
  BY <1>1, <1>4, <1>5, <1>6, CallReplaced DEF WellTyped
<1> QED BY <1>2, <1>4, <1>7, RestTyped

---------------------------------------------------------------------------
(* The page hears the answers *)

LEMMA EndsTyped ==
    ASSUME CallsTyped, Grows, NEW i \in 1..MaxCalls, calls[i] # None, Ends(i)
    PROVE  CallsTyped' /\ (calls[i].left = {} => Becomes(i, None))
<1> PICK c : c = calls[i]
  OBVIOUS
<1>1. IsCall(c) /\ remote
  BY BusyCall
<1>2. CASE c.left = {}
  <2>1. Becomes(i, None)
    BY <1>2 DEF Ends, Becomes
  <2> QED BY <1>1, <2>1, CallReplaced
<1>3. CASE c.left # {}
  <2>1. PICK d : d = [c EXCEPT !.op = "late"]
    OBVIOUS
  <2>2. Becomes(i, d)
    BY <1>3, <2>1 DEF Ends, Becomes
  <2>3. IsCall(d)
    BY <1>1, <1>3, <2>1, LateTyped
  <2>4. CallsTyped'
    BY <1>1, <2>2, <2>3, CallReplaced
  <2> QED BY <1>3, <2>4
<1> QED BY <1>2, <1>3

LEMMA AskedCall ==
    ASSUME CallsTyped, NEW i \in 1..MaxCalls, NEW what, Asked(i, what), NEW c, c = calls[i]
    PROVE  /\ IsCall(c) /\ remote /\ c # None /\ c.op # "late" /\ c.ans # Waiting
           /\ Script(c.op)[c.at] = what
           /\ c.op \in Writers \cup {"load", "reset", "test", "detail", "webhook", "sync"}
           /\ what # "write" => c.left = {}
<1>1. IsCall(c) /\ remote /\ c # None /\ c.op # "late" /\ c.ans # Waiting /\ Script(c.op)[c.at] = what
  BY BusyCall DEF Asked
<1>2. what # "write" => c.at # 1 \/ c.op \notin Writers
  BY <1>1, ScriptOf DEF IsCall
<1> QED BY <1>1, <1>2 DEF IsCall

LEMMA GoesOnTyped ==
    ASSUME CallsTyped, Grows, NEW i \in 1..MaxCalls, GoesOn(i), NEW c, c = calls[i], IsCall(c), remote,
           c.op # "late", c.left = {},
           \/ Script(c.op)[c.at] \in {"write", "sync"}
           \/ Script(c.op)[c.at] = "probe" /\ c.op \in {"test", "sync"}
    PROVE  CallsTyped' /\ Becomes(i, With(c, c.at + 1, c.left, Waiting))
<1>1. Becomes(i, With(c, c.at + 1, c.left, Waiting))
  BY OnwardEdit
<1>2. IsCall(With(c, c.at + 1, c.left, Waiting))
  BY OnwardTyped
<1> QED BY <1>1, <1>2, CallReplaced

LEMMA EditorForms ==
    ASSUME NEW e, IsEditor(e), NEW op
    PROVE  IsEditor(Rendered(e)) /\ IsEditor(Unsubmitted(op, e)) /\ IsEditor(Closed)
<1>1. IsEditor(Rendered(e))
  <2>1. CASE e.mode = "closed"
    BY <2>1 DEF Rendered
  <2>2. CASE e.mode # "closed"
    <3>1. Rendered(e) = [mode |-> e.mode, base |-> e.base, form |-> e.base, busy |-> e.busy]
      BY <2>2 DEF Rendered, IsEditor
    <3> QED BY <2>2, <3>1 DEF IsEditor
  <2> QED BY <2>1, <2>2
<1>2. IsEditor(Unsubmitted(op, e))
  <2>1. CASE op # "save"
    BY <2>1 DEF Unsubmitted
  <2>2. CASE op = "save"
    <3>1. Unsubmitted(op, e) = [mode |-> e.mode, base |-> e.base, form |-> e.form, busy |-> FALSE]
      BY <2>2 DEF Unsubmitted, IsEditor
    <3> QED BY <3>1 DEF IsEditor
  <2> QED BY <2>1, <2>2
<1>3. IsEditor(Closed)
  BY DEF IsEditor, Closed
<1> QED BY <1>1, <1>2, <1>3

LEMMA PageReads ==
    ASSUME PageTyped, Grows, remote, UNCHANGED hasty, BeginReading
    PROVE  PageTyped'
<1>1. remote' = remote /\ section' = section
  BY Stays DEF Grows
<1>2. IsTable(rows)' /\ IsServed(rows)'
  BY RowsStay DEF PageTyped, BeginReading
<1> QED BY <1>1, <1>2 DEF PageTyped, BeginReading

LEMMA WriteLandedTyped == ASSUME WellTyped, NEW i \in 1..MaxCalls, WriteLanded(i) PROVE WellTyped'
<1> PICK c : c = calls[i]
  OBVIOUS
<1>1. IsCall(c) /\ remote /\ c # None /\ c.op # "late" /\ Script(c.op)[c.at] = "write"
  BY AskedCall DEF WriteLanded, WellTyped
<1>2. UNCHANGED <<fixed, server, drawer, clicks, hasty>>
  BY DEF WriteLanded
<1>3. ServerTyped' /\ Grows
  BY <1>2, ServerStays DEF WellTyped
<1>4. DrawerTyped'
  BY <1>2 DEF WellTyped, DrawerTyped, IsDrawer
<1>5. CASE c.ans = Done /\ GoesOn(i) /\ BeginReading /\ editor' = Rendered(editor)
  <2>1. c.left = {}
    BY <1>1, <1>5 DEF IsCall
  <2>2. CallsTyped'
    BY <1>1, <1>3, <1>5, <2>1, GoesOnTyped DEF WellTyped
  <2>3. EditorTyped'
    BY <1>3, <1>5, EditorForms, EditorStays DEF WellTyped, EditorTyped
  <2>4. PageTyped'
    BY <1>1, <1>2, <1>3, <1>5, PageReads DEF WellTyped
  <2> QED BY <1>3, <1>4, <2>2, <2>3, <2>4 DEF WellTyped
<1>6. CASE Ends(i) /\ editor' = Unsubmitted(c.op, editor) /\ UNCHANGED page
  <2>1. CallsTyped'
    BY <1>1, <1>3, <1>6, EndsTyped DEF WellTyped
  <2>2. EditorTyped'
    BY <1>3, <1>6, EditorForms, EditorStays DEF WellTyped, EditorTyped
  <2>3. PageTyped'
    BY <1>2, <1>3, <1>6, PageStays DEF WellTyped
  <2> QED BY <1>3, <1>4, <2>1, <2>2, <2>3 DEF WellTyped
<1> QED BY <1>5, <1>6 DEF WriteLanded

LEMMA SyncLandedTyped == ASSUME WellTyped, NEW i \in 1..MaxCalls, SyncLanded(i) PROVE WellTyped'
<1> PICK c : c = calls[i]
  OBVIOUS
<1>1. /\ IsCall(c) /\ remote /\ c # None /\ c.op # "late" /\ Script(c.op)[c.at] = "sync" /\ c.left = {}
      /\ c.op \in Writers \cup {"load", "reset", "test", "detail", "webhook", "sync"}
  BY AskedCall DEF SyncLanded, WellTyped
<1>2. UNCHANGED <<fixed, server, page, editor, clicks, hasty>>
  BY DEF SyncLanded
<1>3. ServerTyped' /\ Grows
  BY <1>2, ServerStays DEF WellTyped
<1>4. EditorTyped' /\ PageTyped'
  BY <1>2, <1>3, EditorStays, PageStays DEF WellTyped, EditorTyped
<1>5. c.key \in Keys
  BY <1>1, ScriptOf DEF IsCall
<1>6. CASE GoesOn(i) /\ drawer' = [drawer EXCEPT !.on = c.key, !.loading = TRUE]
  <2>1. CallsTyped'
    BY <1>1, <1>3, <1>6, GoesOnTyped DEF WellTyped
  <2>2. DrawerTyped'
    <3>1. PICK d : d = [drawer EXCEPT !.on = c.key]
      OBVIOUS
    <3>2. d = [on |-> c.key, data |-> drawer.data, loading |-> drawer.loading, busy |-> drawer.busy]
      BY <3>1 DEF WellTyped, DrawerTyped, IsDrawer
    <3>3. drawer' = [d EXCEPT !.loading = TRUE]
      BY <1>6, <3>1
    <3>4. drawer' = [on |-> c.key, data |-> drawer.data, loading |-> TRUE, busy |-> drawer.busy]
      BY <3>2, <3>3
    <3> QED BY <1>5, <3>4 DEF DrawerTyped, IsDrawer
  <2> QED BY <1>3, <1>4, <2>1, <2>2 DEF WellTyped
<1>7. CASE Ends(i) /\ drawer' = [drawer EXCEPT !.busy = FALSE]
  <2>1. CallsTyped'
    BY <1>1, <1>3, <1>7, EndsTyped DEF WellTyped
  <2>2. drawer' = [on |-> drawer.on, data |-> drawer.data, loading |-> drawer.loading, busy |-> FALSE]
    BY <1>7 DEF WellTyped, DrawerTyped, IsDrawer
  <2>3. DrawerTyped'
    BY <2>2 DEF WellTyped, DrawerTyped, IsDrawer
  <2> QED BY <1>3, <1>4, <2>1, <2>3 DEF WellTyped
<1> QED BY <1>6, <1>7 DEF SyncLanded

LEMMA DrawerForms ==
    ASSUME IsDrawer(drawer), NEW c, c.key \in Keys, NEW busy
    PROVE  IsDrawer(TestFailed(c)) /\ IsDrawer(Detailed(c, busy))
<1>1. IsDrawer(TestFailed(c))
  <2>1. PICK on \in Keys \cup {None} :
          on = IF drawer.on # None \/ section = "actions" THEN c.key ELSE None
    OBVIOUS
  <2>2. PICK d : d = [drawer EXCEPT !.on = on]
    OBVIOUS
  <2>3. d = [on |-> on, data |-> drawer.data, loading |-> drawer.loading, busy |-> drawer.busy]
    BY <2>2 DEF IsDrawer
  <2>4. TestFailed(c) = [d EXCEPT !.loading = FALSE]
    BY <2>1, <2>2 DEF TestFailed
  <2>5. TestFailed(c) = [on |-> on, data |-> drawer.data, loading |-> FALSE, busy |-> drawer.busy]
    BY <2>3, <2>4
  <2> QED BY <2>1, <2>5 DEF IsDrawer
<1>2. IsDrawer(Detailed(c, busy))
  BY DEF Detailed, IsDrawer
<1> QED BY <1>1, <1>2

LEMMA ProbeLandedTyped == ASSUME WellTyped, NEW i \in 1..MaxCalls, ProbeLanded(i) PROVE WellTyped'
<1> PICK c : c = calls[i]
  OBVIOUS
<1>1. /\ IsCall(c) /\ remote /\ c # None /\ c.op # "late" /\ Script(c.op)[c.at] = "probe" /\ c.left = {}
      /\ c.op \in Writers \cup {"load", "reset", "test", "detail", "webhook", "sync"}
  BY AskedCall DEF ProbeLanded, WellTyped
<1>2. UNCHANGED <<fixed, server, editor, clicks, hasty>>
  BY DEF ProbeLanded
<1>3. ServerTyped' /\ Grows
  BY <1>2, ServerStays DEF WellTyped
<1>4. EditorTyped'
  BY <1>2, <1>3, EditorStays DEF WellTyped, EditorTyped
<1>5. c.key \in Keys
  BY <1>1, ScriptOf DEF IsCall
<1>6. \/ /\ GoesOn(i) /\ c.op \in {"test", "sync"} /\ BeginReading
         /\ drawer' = drawer \/ drawer' = Detailed(c, drawer.busy)
      \/ /\ Ends(i) /\ UNCHANGED page
         /\ drawer' = TestFailed(c) \/ drawer' = Detailed(c, c.op = "webhook" /\ drawer.busy)
  BY DEF ProbeLanded
<1>7. DrawerTyped'
  <2>1. IsDrawer(drawer')
    <3> PICK d : d = drawer'
      OBVIOUS
    <3>1. IsDrawer(d)
      BY <1>5, <1>6, DrawerForms DEF WellTyped, DrawerTyped
    <3> QED BY <3>1
  <2> QED BY <2>1 DEF DrawerTyped, IsDrawer
<1>8. CallsTyped'
  BY <1>1, <1>3, <1>6, EndsTyped, GoesOnTyped DEF WellTyped
<1>9. PageTyped'
  BY <1>1, <1>2, <1>3, <1>6, PageReads, PageStays DEF WellTyped
<1> QED BY <1>3, <1>4, <1>7, <1>8, <1>9 DEF WellTyped

LEMMA ListLandedTyped == ASSUME WellTyped, NEW i \in 1..MaxCalls, ListLanded(i) PROVE WellTyped'
<1> PICK c : c = calls[i]
  OBVIOUS
<1>1. /\ IsCall(c) /\ remote /\ c # None /\ c.op # "late" /\ Script(c.op)[c.at] = "list" /\ c.left = {}
      /\ c.op \in Writers \cup {"load", "reset", "test", "detail", "webhook", "sync"} /\ c.ans # Waiting
  BY AskedCall DEF ListLanded, WellTyped
<1>2. UNCHANGED <<fixed, server, priced, clicks, hasty>> /\ loading' = FALSE /\ Ends(i)
  BY DEF ListLanded
<1>3. ServerTyped' /\ Grows
  BY <1>2, ServerStays DEF WellTyped
<1>4. CallsTyped'
  BY <1>1, <1>2, <1>3, EndsTyped DEF WellTyped
<1>5. EditorTyped'
  <2>1. \/ editor' = Closed
        \/ editor' = Unsubmitted(c.op, Rendered(editor))
    BY DEF ListLanded
  <2>2. IsEditor(editor')
    <3> PICK e : e = editor'
      OBVIOUS
    <3>1. IsEditor(Rendered(editor))
      BY EditorForms DEF WellTyped, EditorTyped
    <3>2. IsEditor(e)
      BY <2>1, <3>1, EditorForms
    <3> QED BY <3>2
  <2> QED BY <1>3, <2>2, EditorStays
<1>6. DrawerTyped'
  <2>1. c.op \in {"test", "sync"} => c.key \in Keys
    BY <1>1 DEF IsCall
  <2>2. CASE c.op = "test"
    <3>1. drawer' = [Detailed(c, FALSE) EXCEPT !.data = c.key] \/ drawer' = TestFailed(c)
      BY <2>2 DEF ListLanded
    <3>2. PICK e : e = Detailed(c, FALSE)
      OBVIOUS
    <3>3. [e EXCEPT !.data = c.key]
            = [on |-> c.key, data |-> c.key, loading |-> e.loading, busy |-> e.busy]
      <4>1. e = [on |-> c.key, data |-> e.data, loading |-> e.loading, busy |-> e.busy]
        BY <3>2 DEF Detailed
      <4> QED BY <4>1
    <3> PICK d : d = drawer'
      OBVIOUS
    <3>4. CASE d = [e EXCEPT !.data = c.key]
      BY <2>1, <2>2, <3>3, <3>4 DEF DrawerTyped, IsDrawer
    <3>5. CASE d = TestFailed(c)
      <4>1. IsDrawer(d)
        BY <2>1, <2>2, <3>5, DrawerForms DEF WellTyped, DrawerTyped
      <4> QED BY <4>1 DEF DrawerTyped, IsDrawer
    <3> QED BY <3>1, <3>2, <3>4, <3>5
  <2>3. CASE c.op = "sync"
    <3>1. drawer' = [drawer EXCEPT !.busy = FALSE]
      BY <2>3 DEF ListLanded
    <3>2. drawer' = [on |-> drawer.on, data |-> drawer.data, loading |-> drawer.loading, busy |-> FALSE]
      BY <3>1 DEF WellTyped, DrawerTyped, IsDrawer
    <3> QED BY <3>2 DEF WellTyped, DrawerTyped, IsDrawer
  <2>4. CASE c.op \notin {"test", "sync"}
    <3>1. drawer' = drawer
      BY <2>4 DEF ListLanded
    <3> QED BY <3>1 DEF WellTyped, DrawerTyped, IsDrawer
  <2> QED BY <2>2, <2>3, <2>4
<1>7. PageTyped'
  <2>1. remote' = remote /\ section' = section
    BY <1>2, Stays
  <2>2. IsServed(rows')
    <3>1. c.ans # Failed => IsServed(c.ans)
      BY <1>1 DEF IsCall, Lists
    <3>2. IsServed({}) /\ IsServed(rows)
      BY <1>1 DEF IsServed, IsTable, WellTyped, PageTyped
    <3>3. /\ c.ans # Failed => rows' = c.ans
          /\ c.ans = Failed => rows' \in {{}, rows}
      BY DEF ListLanded, Merged
    <3> QED BY <3>1, <3>2, <3>3
  <2>3. IsTable(rows)' /\ IsServed(rows)'
    <3> PICK rs : rs = rows'
      OBVIOUS
    <3>1. IsServed(rs)'
      BY <1>3, <2>2, RowsStay
    <3> QED BY <3>1 DEF IsServed, IsTable
  <2>4. picked' \subseteq picked
    BY DEF ListLanded
  <2>5. source' \in {"remote", "remote-error"}
    BY DEF ListLanded
  <2> QED BY <1>1, <1>2, <2>1, <2>3, <2>4, <2>5 DEF WellTyped, PageTyped
<1> QED BY <1>3, <1>4, <1>5, <1>6, <1>7 DEF WellTyped

---------------------------------------------------------------------------
(* The local draft *)

\* What the draft is after a step of its own.
Drafted(claims) ==
    /\ ServerTyped' /\ Grows /\ IsTable(rows)' /\ priced' \subseteq Ids
    /\ PricesHaveProducts'
    /\ \A claim \in claims : Holds(claim)'

LEMMA UpsertDrafts ==
    ASSUME ServerTyped, PageTyped, PricesHaveProducts, ~remote, UNCHANGED <<fixed, store>>,
           NEW how, NEW w, IsForm(w), w.id # None, Upsert(how, w)
    PROVE  Drafted({Saved(w)})
<1>1. /\ section \in Sections /\ made \in Nat /\ MaxKeys \in Nat /\ remote' = remote
      /\ section' = section /\ Typed' = Typed /\ w.id \in Ids /\ w.id \in Keys /\ None \notin Keys
      /\ \A r \in rows : IsRow(r)
      /\ \A r, s \in rows : r.key = s.key => r = s
  BY Stays, ConsoleAssumption DEF ServerTyped, PageTyped, IsTable, IsForm, Keys
<1>2. ASSUME NEW key \in Keys, NEW some \in SUBSET rows, Grows,
             Numbered => key \in 1..made',
             rows' = some \cup {Kept(w, key)}, \A r \in some : r.key # key
      PROVE  IsTable(rows)' /\ Holds(Saved(w))'
  <2> PICK new : new = Kept(w, key)
    OBVIOUS
  <2>1. /\ new.key = key /\ new.id = w.id /\ new.owner = w.owner /\ new.on = w.on
        /\ new.data = [f \in Data |-> new.data[f]]
        /\ new = Row(new.key, new.id, new.owner, new.on, new.data)
        /\ \A f \in Typed : new.data[f] = w.data[f]
    BY <1>1, KeptFields, FieldsAreCarried
  <2>2. Data' = Data /\ (Numbered' <=> Numbered) /\ sectionConfig' = sectionConfig
    BY Stays
  <2>3. IsRow(new)'
    BY <1>1, <1>2, <2>1, <2>2 DEF IsRow, IsForm
  <2>4. \A r \in some : IsRow(r)'
    BY <1>1, <1>2, RowsStay
  <2>5. IsTable(rows)'
    <3>1. rows' = some \cup {new}
      BY <1>2
    <3>2. \A r, s \in rows' : r.key = s.key => r = s
      BY <1>1, <1>2, <2>1, <3>1
    <3> QED BY <2>3, <2>4, <3>1, <3>2 DEF IsTable
  <2>6. Holds(Saved(w))'
    BY <1>1, <1>2, <2>1 DEF Holds, Is, Saved, Truth
  <2> QED BY <2>5, <2>6
<1>3. ASSUME NEW old \in Existing(w), rows' = (rows \ {old}) \cup {Kept(w, old.key)},
             priced' = (IF section = "products" THEN Repriced(how, w, old) ELSE priced), UNCHANGED made
      PROVE  Drafted({Saved(w)})
  <2>1. old \in rows /\ IsRow(old) /\ old.key \in Keys /\ (Numbered => old.key \in 1..made) /\ old # NoRow
        /\ old.key # None
    BY <1>1 DEF Existing, IsRow, IsForm, NoRow, Row
  <2>2. ServerTyped' /\ Grows
    BY <1>3, ServerStays DEF server
  <2>3. IsTable(rows)' /\ Holds(Saved(w))'
    <3>1. \A r \in rows \ {old} : r.key # old.key
      BY <1>1, <2>1
    <3> QED BY <1>2, <1>3, <2>1, <2>2, <3>1
  <2>4. priced' \subseteq Ids
    BY <1>1, <1>3 DEF Repriced, PageTyped
  <2>5. PricesHaveProducts'
    <3>1. CASE section = "products"
      <4>1. {r.id : r \in rows \ {old}} \cup {w.id} \subseteq {r.id : r \in rows'}
        <5> PICK new : new = Kept(w, old.key)
          OBVIOUS
        <5>1. new.id = w.id /\ rows' = (rows \ {old}) \cup {new}
          BY <1>3, KeptFields
        <5> QED BY <5>1
      <4>2. priced \subseteq {r.id : r \in rows \ {old}} \cup {old.id}
        BY <3>1 DEF PricesHaveProducts
      <4>3. priced' \subseteq (priced \ {old.id}) \cup {w.id}
        BY <1>3, <2>1, <3>1 DEF Repriced
      <4> QED BY <1>1, <4>1, <4>2, <4>3 DEF PricesHaveProducts
    <3>2. CASE section # "products"
      BY <1>1, <3>2 DEF PricesHaveProducts
    <3> QED BY <3>1, <3>2
  <2> QED BY <2>2, <2>3, <2>4, <2>5 DEF Drafted
<1>4. ASSUME NEW key, key = (IF w.key # None THEN w.key ELSE IF Numbered THEN made + 1 ELSE w.id),
             Existing(w) = {}, made < MaxKeys, made' = made + 1,
             rows' = {r \in rows : r.key # key} \cup {Kept(w, key)},
             priced' = IF section = "products" THEN Repriced(how, w, NoRow) ELSE priced
      PROVE  Drafted({Saved(w)})
  <2>1. Grows
    BY <1>1, <1>4 DEF Grows
  <2>2. ServerTyped'
    <3>1. IsServed(store)'
      BY <2>1, RowsStay DEF ServerTyped
    <3> QED BY <1>1, <1>4, <3>1, Stays, ConsoleAssumption DEF ServerTyped
  <2>3. key \in Keys /\ (Numbered => key \in 1..made')
    <3>1. w.key # None => w.key \in Keys /\ (Numbered => w.key \in 1..made)
      BY DEF IsForm
    <3>2. made + 1 \in Keys /\ made + 1 \in 1..made' /\ 1..made \subseteq 1..made'
      BY <1>1, <1>4 DEF Keys
    <3> QED BY <1>1, <1>4, <3>1, <3>2
  <2>4. IsTable(rows)' /\ Holds(Saved(w))'
    <3> PICK some \in SUBSET rows : some = {r \in rows : r.key # key}
      OBVIOUS
    <3>1. rows' = some \cup {Kept(w, key)} /\ \A r \in some : r.key # key
      BY <1>4
    <3> QED BY <1>2, <2>1, <2>3, <3>1
  <2>5. priced' \subseteq Ids
    BY <1>1, <1>4 DEF Repriced, PageTyped, NoRow, Row
  <2>6. PricesHaveProducts'
    <3>1. CASE section = "products"
      <4>1. \A r \in rows : r.key # key
        <5>1. \A r \in rows : r.key # w.key
          BY <1>4 DEF Existing
        <5>2. \A r \in rows : r.key \in 1..made
          BY <1>1, <3>1 DEF IsRow, IsForm, Numbered
        <5> QED BY <1>1, <1>4, <3>1, <5>1, <5>2 DEF Numbered
      <4>2. {r.id : r \in rows} \cup {w.id} \subseteq {r.id : r \in rows'}
        <5> PICK new : new = Kept(w, key)
          OBVIOUS
        <5>1. new.id = w.id /\ rows' = rows \cup {new}
          BY <1>4, <4>1, KeptFields
        <5> QED BY <5>1
      <4>3. priced' \subseteq priced \cup {w.id}
        BY <1>4, <3>1 DEF Repriced
      <4> QED BY <1>1, <3>1, <4>2, <4>3 DEF PricesHaveProducts
    <3>2. CASE section # "products"
      BY <1>1, <3>2 DEF PricesHaveProducts
    <3> QED BY <3>1, <3>2
  <2> QED BY <2>1, <2>2, <2>4, <2>5, <2>6 DEF Drafted
<1>5. CASE \E old \in Existing(w) :
              /\ rows' = (rows \ {old}) \cup {Kept(w, old.key)}
              /\ priced' = IF section = "products" THEN Repriced(how, w, old) ELSE priced
              /\ UNCHANGED made
  BY <1>3, <1>5
<1>6. CASE /\ Existing(w) = {} /\ made < MaxKeys /\ made' = made + 1
           /\ LET key == IF Numbered THEN made + 1 ELSE w.id
                  new == Kept(w, IF w.key # None THEN w.key ELSE key)
              IN rows' = {r \in rows : r.key # new.key} \cup {new}
           /\ priced' = IF section = "products" THEN Repriced(how, w, NoRow) ELSE priced
  <2>1. PICK key : key = IF w.key # None THEN w.key ELSE IF Numbered THEN made + 1 ELSE w.id
    OBVIOUS
  <2>2. rows' = {r \in rows : r.key # Kept(w, key).key} \cup {Kept(w, key)}
    BY <1>6, <2>1
  <2>3. Kept(w, key).key = key
    BY KeptFields
  <2>4. rows' = {r \in rows : r.key # key} \cup {Kept(w, key)}
    BY <2>2, <2>3
  <2> QED BY <1>4, <1>6, <2>1, <2>4
<1> QED BY <1>5, <1>6 DEF Upsert

LEMMA DraftStays ==
    ASSUME ServerTyped, PageTyped, UNCHANGED <<fixed, server>>
    PROVE  /\ ServerTyped' /\ Grows /\ remote' = remote /\ section' = section /\ Typed' = Typed
           /\ section \in Sections /\ priced \subseteq Ids
           /\ \A r \in rows : IsRow(r) /\ IsRow(r)'
           /\ \A r, s \in rows : r.key = s.key => r = s
<1>1. ServerTyped' /\ Grows
  BY ServerStays
<1> QED BY <1>1, Stays, RowsStay DEF PageTyped, IsTable

LEMMA DiscardDrafts ==
    ASSUME ServerTyped, PageTyped, PricesHaveProducts, ~remote, UNCHANGED <<fixed, store>>,
           NEW ws \in SUBSET rows, Discard(ws)
    PROVE  Drafted({Removed(r) : r \in ws})
<1>1. /\ ServerTyped' /\ Grows /\ remote' = remote /\ section' = section /\ priced \subseteq Ids
      /\ \A r \in rows : IsRow(r) /\ IsRow(r)'
      /\ \A r, s \in rows : r.key = s.key => r = s
  BY DraftStays DEF Discard, server
<1>2. rows' = rows \ Gone(ws) /\ ws \subseteq Gone(ws)
  BY DEF Discard, Gone
<1>3. IsTable(rows)'
  BY <1>1, <1>2 DEF IsTable
<1>4. \A claim \in {Removed(r) : r \in ws} : Holds(claim)'
  BY <1>1, <1>2 DEF Holds, Removed, Truth
<1>5. priced' \subseteq Ids
  BY <1>1 DEF Discard
<1>6. PricesHaveProducts'
  BY <1>1, <1>2 DEF PricesHaveProducts, Discard
<1> QED BY <1>1, <1>3, <1>4, <1>5, <1>6 DEF Drafted

LEMMA SwitchDrafts ==
    ASSUME ServerTyped, PageTyped, PricesHaveProducts, ~remote, UNCHANGED <<fixed, store>>,
           NEW ws \in SUBSET rows, NEW on \in BOOLEAN, "enabled" \in sectionConfig.row, Switch(ws, on)
    PROVE  Drafted({Saved(Switched(r, on)) : r \in ws})
<1>1. /\ ServerTyped' /\ Grows /\ remote' = remote /\ section' = section /\ priced \subseteq Ids
      /\ Typed' = Typed
      /\ \A r \in rows : IsRow(r) /\ IsRow(r)'
      /\ \A r, s \in rows : r.key = s.key => r = s
  BY DraftStays DEF Switch, server
<1> DEFINE Set(r) == IF r \in Gone(ws) THEN [r EXCEPT !.on = on] ELSE r
<1>2. rows' = {Set(r) : r \in rows} /\ ws \subseteq Gone(ws) /\ priced' = priced
  BY DEF Switch, Gone
<1>3. \A r \in rows : IsRow(Set(r)) /\ Set(r).key = r.key /\ Set(r).id = r.id
  BY <1>1, SwitchedIsRow
<1>4. ASSUME NEW s \in rows'
      PROVE  IsRow(s)'
  <2>1. PICK r \in rows : s = Set(r)
    BY <1>2
  <2>2. IsRow(s)
    BY <1>3, <2>1
  <2> QED BY <1>1, <2>2, RowsStay
<1>5. ASSUME NEW r \in ws
      PROVE  Holds(Saved(Switched(r, on)))'
  <2> PICK s : s = Switched(r, on)
    OBVIOUS
  <2>1. s \in rows'
    BY <1>2 DEF Switched
  <2>2. Holds(Saved(s))'
    BY <1>1, <2>1 DEF Holds, Is, Saved, Truth
  <2> QED BY <2>2 DEF Holds
<1> HIDE DEF Set
<1>6. IsTable(rows)'
  <2>1. \A r, s \in rows' : r.key = s.key => r = s
    BY <1>1, <1>2, <1>3
  <2> QED BY <1>4, <2>1 DEF IsTable
<1>7. PricesHaveProducts'
  BY <1>1, <1>2, <1>3 DEF PricesHaveProducts
<1> QED BY <1>1, <1>2, <1>5, <1>6, <1>7 DEF Drafted

LEMMA ResetDrafts ==
    ASSUME ServerTyped, PageTyped, ~remote, UNCHANGED <<fixed, server>>,
           rows' = Seeds, priced' = SeedPriced
    PROVE  Drafted({})
<1>1. /\ ServerTyped' /\ Grows /\ remote' = remote /\ section' = section /\ section \in Sections
  BY DraftStays
<1>2. IsServed(Seeds) /\ SeedPriced \subseteq Ids
  BY <1>1, SeedsServed DEF ServerTyped
<1>3. IsTable(rows)'
  <2> PICK rs : rs = Seeds
    OBVIOUS
  <2>1. IsTable(rs)'
    BY <1>1, <1>2, RowsStay DEF IsServed
  <2> QED BY <2>1 DEF IsTable
<1>4. PricesHaveProducts'
  BY <1>1 DEF PricesHaveProducts, SeedPriced
<1> QED BY <1>1, <1>2, <1>3, <1>4 DEF Drafted

---------------------------------------------------------------------------
(* The operator acts: a request is sent, the local draft is edited, or the *)
(* drawers only move.                                                      *)

Claims(how, left) == {Promise(how, w) : w \in left}
Asks == {"test", "detail", "webhook", "sync"}
Sending(op, how, left, key) ==
    /\ remote /\ op \in (Writers \ {"late"}) \cup {"reset"} \cup Asks
    /\ op \in Writers => how \in {"create", "edit", "delete"}
    /\ op \notin Writers => left = {}
    /\ \A w \in left : IsSent(how, w)
    /\ Distinct(left)
    /\ op \in Asks => key \in Keys
    /\ Start(op, how, left, Claims(how, left), key)
Sends == /\ \E op, how, left, key : Sending(op, how, left, key)
         /\ UNCHANGED <<fixed, server, rows, priced>>
         /\ source' \in {source, "remote"} /\ loading' \in BOOLEAN /\ picked' \subseteq Keys
Quiet == /\ UNCHANGED <<fixed, server, rows, priced, loading, source, calls, told, hasty>>
         /\ picked' \subseteq Keys
Locally == /\ ~remote /\ UNCHANGED <<fixed, store, loading, source, calls, hasty>>
           /\ picked' \subseteq Keys
           /\ Drafted(told')
OperatorDid == (Sends \/ Quiet \/ Locally) /\ EditorTyped' /\ DrawerTyped'

LEMMA NewCall ==
    ASSUME NEW op, NEW how, NEW left, NEW key, Sending(op, how, left, key)
    PROVE  IsCall(Call(op, how, left, Claims(how, left), key))
<1> PICK c : c = Call(op, how, left, Claims(how, left), key)
  OBVIOUS
<1>1. /\ c = [op |-> c.op, how |-> c.how, at |-> c.at, left |-> c.left, claims |-> c.claims,
              key |-> c.key, ans |-> c.ans]
      /\ c.op = op /\ c.how = how /\ c.at = 1 /\ c.left = left /\ c.claims = Claims(how, left)
      /\ c.key = key /\ c.ans = Waiting
  BY DEF Call
<1>2. 1 \in DOMAIN Script(op)
  BY DEF Sending, Script, Writers, Asks
<1>3. op \notin Writers => Claims(how, left) = {}
  BY DEF Sending, Claims
<1>4. \A w \in left : /\ IsForm(w) /\ w.id # None
                      /\ IF how = "create" THEN w.key = None ELSE w.key # None
  BY DEF Sending, IsSent
<1>5. Waiting # Done
  BY ConsoleAssumption
<1> HIDE DEF Writers
<1> QED BY <1>1, <1>2, <1>3, <1>4, <1>5 DEF IsCall, Sending, Asks, Lists

LEMMA SendingTakesPlace ==
    ASSUME CallsTyped, NEW op, NEW how, NEW left, NEW key, Sending(op, how, left, key)
    PROVE  /\ told' = None /\ hasty' = (hasty \/ Busy # {})
           /\ \E i \in 1..MaxCalls : Becomes(i, Call(op, how, left, Claims(how, left), key))
<1>1. DOMAIN calls = 1..MaxCalls
  BY DEF CallsTyped
<1> QED BY <1>1 DEF Sending, Start, Ask, Becomes, Acting

LEMMA OperatorTyped == ASSUME WellTyped, OperatorDid PROVE WellTyped'
<1>1. CASE Sends
  <2>1. UNCHANGED <<fixed, server, rows, priced>> /\ ServerTyped' /\ Grows
    BY <1>1, ServerStays DEF Sends, WellTyped
  <2>2. PICK op, how, left, key : Sending(op, how, left, key)
    BY <1>1 DEF Sends
  <2>3. PICK i \in 1..MaxCalls : Becomes(i, Call(op, how, left, Claims(how, left), key))
    BY <2>2, SendingTakesPlace DEF WellTyped
  <2>4. remote /\ hasty' \in BOOLEAN
    BY <2>2, SendingTakesPlace DEF WellTyped, PageTyped, Sending
  <2>5. CallsTyped'
    BY <2>1, <2>2, <2>3, <2>4, NewCall, CallReplaced DEF WellTyped
  <2>6. IsTable(rows)' /\ IsServed(rows)'
    BY <2>1, <2>4, RowsStay DEF WellTyped, PageTyped
  <2>7. PageTyped'
    BY <1>1, <2>1, <2>4, <2>6, Stays DEF Sends, WellTyped, PageTyped
  <2> QED BY <2>1, <2>5, <2>7 DEF WellTyped, OperatorDid
<1>2. CASE Quiet
  <2>1. ServerTyped' /\ Grows
    BY <1>2, ServerStays DEF Quiet, WellTyped
  <2>2. CallsTyped'
    BY <1>2, <2>1, CallsStay DEF Quiet, WellTyped
  <2>3. IsTable(rows)' /\ (remote => IsServed(rows)')
    BY <1>2, <2>1, RowsStay DEF Quiet, WellTyped, PageTyped
  <2>4. PageTyped'
    BY <1>2, <2>3, Stays DEF Quiet, WellTyped, PageTyped
  <2> QED BY <2>1, <2>2, <2>4 DEF WellTyped, OperatorDid
<1>3. CASE Locally
  <2>1. ServerTyped' /\ Grows /\ IsTable(rows)' /\ priced' \subseteq Ids
    BY <1>3 DEF Locally, Drafted
  <2>2. CallsTyped'
    BY <1>3, <2>1, CallsStay DEF Locally, WellTyped
  <2>3. PageTyped'
    BY <1>3, <2>1, Stays DEF Locally, WellTyped, PageTyped
  <2> QED BY <2>1, <2>2, <2>3 DEF WellTyped, OperatorDid
<1> QED BY <1>1, <1>2, <1>3 DEF OperatorDid

LEMMA OperatorDoes ==
    ASSUME WellTyped, Sends \/ Quiet \/ Locally, NEW e, IsEditor(e), editor' = e,
           NEW d, IsDrawer(d), drawer' = d
    PROVE  OperatorDid
<1>1. Grows
  BY ServerStays DEF WellTyped, Sends, Quiet, Locally, Drafted
<1>2. EditorTyped'
  BY <1>1, EditorStays
<1>3. DrawerTyped'
  BY DEF DrawerTyped, IsDrawer
<1> QED BY <1>2, <1>3 DEF OperatorDid

LEMMA EditingDoes ==
    ASSUME WellTyped, CreateRecord \/ EditRecord \/ TypeForm \/ ChooseChannelType \/ CloseEditor
    PROVE  OperatorDid
<1>1. Quiet
  BY DEF CreateRecord, EditRecord, TypeForm, ChooseChannelType, CloseEditor, Quiet, server, page,
         ghosts, WellTyped, PageTyped
<1>2. IsDrawer(drawer) /\ drawer' = drawer
  BY DEF CreateRecord, EditRecord, TypeForm, ChooseChannelType, CloseEditor, WellTyped, DrawerTyped
<1>3. IsEditor(editor) /\ section \in Sections /\ IsTable(rows)
  BY DEF WellTyped, EditorTyped, PageTyped
<1>4. PICK e : e = editor'
  OBVIOUS
<1>5. IsEditor(e)
  <2>1. CASE CreateRecord
    <3>1. PICK o \in Owners : LET first == Row(None, None, o, TRUE, All("blank"))
                              IN e = [mode |-> "create", base |-> first, form |-> first, busy |-> FALSE]
      BY <1>4, <2>1 DEF CreateRecord
    <3>2. PICK first : first = Row(None, None, o, TRUE, All("blank"))
      OBVIOUS
    <3>3. first.key = None /\ IsForm(first)
      BY <3>2 DEF IsForm, Row, All
    <3>4. e = [mode |-> "create", base |-> first, form |-> first, busy |-> FALSE]
      BY <3>1, <3>2
    <3> QED BY <3>3, <3>4 DEF IsEditor
  <2>2. CASE EditRecord
    <3>1. PICK r \in rows : e = [mode |-> "edit", base |-> r, form |-> r, busy |-> FALSE]
      BY <1>4, <2>2 DEF EditRecord
    <3>2. IsForm(r) /\ r.key # None
      BY <1>3 DEF IsTable, IsRow
    <3> QED BY <3>1, <3>2 DEF IsEditor
  <2>3. CASE TypeForm
    <3>1. PICK id \in Ids, o \in Owners :
            e = [editor EXCEPT !.form =
                   Row(editor.base.key, id,
                       IF "productSku" \in sectionConfig.form THEN o ELSE editor.base.owner,
                       IF "enabled" \in sectionConfig.form THEN ~editor.base.on ELSE editor.base.on,
                       Written(sectionConfig.form, All("typed"), editor.form.data))]
      BY <1>4, <2>3 DEF TypeForm
    <3>2. PICK owner : owner = IF "productSku" \in sectionConfig.form THEN o ELSE editor.base.owner
      OBVIOUS
    <3>3. editor.mode # "closed" /\ IsForm(editor.base) /\ IsForm(editor.form)
      BY <1>3, <2>3 DEF TypeForm, IsEditor
    <3>4. PICK on \in BOOLEAN :
            /\ on = IF "enabled" \in sectionConfig.form THEN ~editor.base.on ELSE editor.base.on
            /\ "enabled" \notin sectionConfig.row => on = TRUE
      <4>1. CASE "enabled" \in sectionConfig.form
        <5>1. "enabled" \in sectionConfig.row
          BY <1>3, <4>1, FieldsAreCarried
        <5> QED BY <4>1, <5>1
      <4>2. CASE "enabled" \notin sectionConfig.form
        BY <3>3, <4>2 DEF IsForm
      <4> QED BY <4>1, <4>2
    <3>5. PICK data : data = Written(sectionConfig.form, All("typed"), editor.form.data)
      OBVIOUS
    <3>6. data = [f \in Data |-> data[f]]
      BY <3>5 DEF Written
    <3>7. PICK form : form = Row(editor.base.key, id, owner, on, data)
      OBVIOUS
    <3>8. e = [editor EXCEPT !.form = form]
      BY <3>1, <3>2, <3>4, <3>5, <3>7
    <3>9. e = [mode |-> editor.mode, base |-> editor.base, form |-> form, busy |-> editor.busy]
      BY <1>3, <3>8 DEF IsEditor
    <3>10. form.key = editor.base.key /\ IsForm(form)
      BY <3>3, <3>4, <3>6, <3>7 DEF IsForm, Row
    <3> QED BY <1>3, <3>3, <3>9, <3>10 DEF IsEditor
  <2>4. CASE ChooseChannelType
    <3>1. PICK id \in Ids :
            e = [editor EXCEPT !.form.id = id, !.form.data = Written(PresetFields, All("preset"), @)]
      BY <1>4, <2>4 DEF ChooseChannelType
    <3>2. editor.mode # "closed" /\ IsForm(editor.form) /\ editor.form.key = editor.base.key
      BY <1>3, <2>4 DEF ChooseChannelType, IsEditor
    <3>3. PICK w : w = editor.form
      OBVIOUS
    <3>4. w = [key |-> w.key, id |-> w.id, owner |-> w.owner, on |-> w.on, data |-> w.data]
      BY <3>2, <3>3, RowIsForm
    <3>5. PICK v : v = [key |-> w.key, id |-> id, owner |-> w.owner, on |-> w.on, data |-> w.data]
      OBVIOUS
    <3>6. [w EXCEPT !.id = id] = v
      BY <3>4, <3>5
    <3>7. PICK data : data = Written(PresetFields, All("preset"), w.data)
      OBVIOUS
    <3>8. PICK form : form = [key |-> w.key, id |-> id, owner |-> w.owner, on |-> w.on, data |-> data]
      OBVIOUS
    <3>9. [v EXCEPT !.data = data] = form
      BY <3>5, <3>8
    <3>10. PICK x : x = [editor EXCEPT !.form.id = id]
      OBVIOUS
    <3>11. x = [mode |-> editor.mode, base |-> editor.base, form |-> v, busy |-> editor.busy]
      BY <1>3, <3>3, <3>6, <3>10 DEF IsEditor
    <3>12. e = [x EXCEPT !.form.data = data]
      BY <3>1, <3>3, <3>5, <3>7, <3>10, <3>11
    <3>13. e = [mode |-> editor.mode, base |-> editor.base, form |-> form, busy |-> editor.busy]
      BY <3>9, <3>11, <3>12
    <3>14. data = [f \in Data |-> data[f]]
      BY <3>7 DEF Written
    <3>15. form.key = editor.base.key /\ IsForm(form)
      BY <3>2, <3>3, <3>8, <3>14 DEF IsForm, Row
    <3> QED BY <1>3, <3>2, <3>13, <3>15 DEF IsEditor
  <2>5. CASE CloseEditor
    BY <1>3, <1>4, <2>5, EditorForms DEF CloseEditor
  <2> QED BY <2>1, <2>2, <2>3, <2>4, <2>5
<1> QED BY <1>1, <1>2, <1>4, <1>5, OperatorDoes

LEMMA SubmitDoes ==
    ASSUME WellTyped, PricesHaveProducts, SubmitEditor
    PROVE  OperatorDid
<1> PICK w : w = editor.form
  OBVIOUS
<1>1. /\ IsEditor(editor) /\ IsDrawer(drawer) /\ drawer' = drawer
      /\ editor.mode \in {"create", "edit"} /\ IsSent(editor.mode, w) /\ UNCHANGED fixed
  BY DEF SubmitEditor, WellTyped, EditorTyped, DrawerTyped, IsEditor, IsSent
<1>2. CASE remote
  <2>1. /\ Start("save", editor.mode, {w}, {Saved(w)}, None) /\ editor' = [editor EXCEPT !.busy = TRUE]
        /\ UNCHANGED <<server, page>>
    BY <1>2 DEF SubmitEditor
  <2>2. Claims(editor.mode, {w}) = {Saved(w)}
    BY <1>1 DEF Claims, Promise
  <2>3. Distinct({w}) /\ (\A v \in {w} : IsSent(editor.mode, v))
    BY <1>1 DEF Distinct
  <2>4. Sending("save", editor.mode, {w}, None)
    BY <1>1, <1>2, <2>1, <2>2, <2>3 DEF Sending, Writers, Asks
  <2>5. Sends
    BY <1>1, <2>1, <2>4 DEF Sends, page, WellTyped, PageTyped
  <2>6. editor' = [mode |-> editor.mode, base |-> editor.base, form |-> editor.form, busy |-> TRUE]
    BY <1>1, <2>1 DEF IsEditor
  <2>7. PICK e : e = editor' /\ IsEditor(e)
    BY <1>1, <2>6 DEF IsEditor
  <2> QED BY <1>1, <2>5, <2>7, OperatorDoes
<1>3. CASE ~remote
  <2>1. /\ Upsert(editor.mode, w) /\ editor' = Closed /\ told' = {Saved(w)}
        /\ UNCHANGED <<store, loading, source, picked, calls, hasty>>
    BY <1>3 DEF SubmitEditor
  <2>2. Drafted({Saved(w)})
    BY <1>1, <1>3, <2>1, UpsertDrafts DEF WellTyped, IsSent
  <2>3. Locally
    BY <1>1, <1>3, <2>1, <2>2 DEF Locally, WellTyped, PageTyped
  <2> QED BY <1>1, <2>1, <2>3, EditorForms, OperatorDoes
<1> QED BY <1>2, <1>3

\* Rows of a table, as they are or switched, are records to send, no two the same.
LEMMA RowsAreSent ==
    ASSUME IsServed(rows), NEW chosen \in SUBSET rows
    PROVE  Distinct(chosen) /\ \A r \in chosen : IsSent("delete", r)
<1>1. \A r \in rows : IsRow(r) /\ (~Numbered => r.key = r.id)
  BY DEF IsServed, IsTable
<1>2. \A r, s \in rows : r.key = s.key => r = s
  BY DEF IsServed, IsTable
<1> QED BY <1>1, <1>2 DEF Distinct, IsSent, IsRow

LEMMA SwitchedAreSent ==
    ASSUME IsServed(rows), NEW chosen \in SUBSET rows, NEW on \in BOOLEAN,
           "enabled" \in sectionConfig.row
    PROVE  /\ Distinct({Switched(r, on) : r \in chosen})
           /\ \A w \in {Switched(r, on) : r \in chosen} : IsSent("edit", w)
<1>1. \A r \in rows : IsRow(r) /\ (~Numbered => r.key = r.id)
  BY DEF IsServed, IsTable
<1>2. \A r, s \in rows : r.key = s.key => r = s
  BY DEF IsServed, IsTable
<1>3. \A r \in rows : /\ IsRow(Switched(r, on))
                      /\ Switched(r, on).key = r.key /\ Switched(r, on).id = r.id
  BY <1>1, SwitchedIsRow DEF Switched
<1> QED BY <1>1, <1>2, <1>3 DEF Distinct, IsSent, IsRow

LEMMA ToggleDoes ==
    ASSUME WellTyped, PricesHaveProducts, ToggleRecord
    PROVE  OperatorDid
<1> PICK r \in rows :
      LET w == Switched(r, ~r.on)
      IN IF remote
         THEN /\ Start("toggle", "edit", {w}, {Saved(w)}, r.key)
              /\ UNCHANGED <<server, page>>
         ELSE /\ Switch({r}, ~r.on)
              /\ picked' = picked \ {r.key} /\ told' = {Saved(w)} /\ Acts
              /\ UNCHANGED <<store, loading, source, calls, hasty>>
  BY DEF ToggleRecord
<1>1. /\ IsEditor(editor) /\ IsDrawer(drawer) /\ drawer' = drawer /\ editor' = editor
      /\ UNCHANGED fixed /\ "enabled" \in sectionConfig.row /\ (remote => IsServed(rows))
  BY FieldsAreCarried DEF ToggleRecord, WellTyped, EditorTyped, DrawerTyped, PageTyped
<1>2. PICK on \in BOOLEAN : on = ~r.on
  OBVIOUS
<1>3. PICK w : w = Switched(r, on)
  OBVIOUS
<1>4. CASE remote
  <2>1. /\ Start("toggle", "edit", {w}, {Saved(w)}, r.key)
        /\ UNCHANGED <<server, page>>
    BY <1>2, <1>3, <1>4
  <2>2. Claims("edit", {w}) = {Saved(w)} /\ {w} = {Switched(s, on) : s \in {r}}
    BY <1>3 DEF Claims, Promise
  <2>3. Distinct({w}) /\ (\A v \in {w} : IsSent("edit", v))
    <3>1. {r} \in SUBSET rows
      OBVIOUS
    <3>2. \A v \in {Switched(s, on) : s \in {r}} : IsSent("edit", v)
      BY <1>1, <1>4, <3>1, SwitchedAreSent
    <3>3. \A v \in {w} : IsSent("edit", v)
      BY <1>3, <3>2
    <3> QED BY <3>3 DEF Distinct
  <2>4. Sending("toggle", "edit", {w}, r.key)
    BY <1>4, <2>1, <2>2, <2>3 DEF Sending, Writers, Asks
  <2>5. Sends
    BY <1>1, <2>1, <2>4 DEF Sends, page, WellTyped, PageTyped
  <2> QED BY <1>1, <2>5, OperatorDoes
<1>5. CASE ~remote
  <2>1. /\ Switch({r}, on) /\ picked' = picked \ {r.key} /\ told' = {Saved(w)}
        /\ UNCHANGED <<store, loading, source, calls, hasty>>
    BY <1>2, <1>3, <1>5
  <2>2. Drafted({Saved(Switched(s, on)) : s \in {r}})
    BY <1>1, <1>5, <2>1, SwitchDrafts DEF WellTyped
  <2>3. {Saved(Switched(s, on)) : s \in {r}} = {Saved(w)}
    BY <1>3
  <2>4. Drafted({Saved(w)})
    BY <2>2, <2>3
  <2>5. Locally
    BY <1>1, <1>5, <2>1, <2>4 DEF Locally, WellTyped, PageTyped
  <2> QED BY <1>1, <2>5, OperatorDoes
<1> QED BY <1>4, <1>5

LEMMA ToggleSelectedDoes ==
    ASSUME WellTyped, PricesHaveProducts, ToggleSelected
    PROVE  OperatorDid
<1> PICK chosen \in SUBSET rows, on \in BOOLEAN :
      LET ws == {Switched(r, on) : r \in chosen}
          claims == {Saved(w) : w \in ws}
      IN IF remote
         THEN /\ Start("batch", "edit", ws, claims, None)
              /\ picked' = {r.key : r \in chosen}
              /\ UNCHANGED <<server, rows, priced, loading, source>>
         ELSE /\ Switch(chosen, on)
              /\ picked' = {} /\ told' = claims /\ Acts
              /\ UNCHANGED <<store, loading, source, calls, hasty>>
  BY DEF ToggleSelected
<1>1. /\ IsEditor(editor) /\ IsDrawer(drawer) /\ drawer' = drawer /\ editor' = editor
      /\ UNCHANGED fixed /\ "enabled" \in sectionConfig.row /\ (remote => IsServed(rows))
  BY DEF ToggleSelected, WellTyped, EditorTyped, DrawerTyped, PageTyped
<1>2. PICK ws : ws = {Switched(r, on) : r \in chosen}
  OBVIOUS
<1>3. CASE remote
  <2>1. /\ Start("batch", "edit", ws, {Saved(w) : w \in ws}, None)
        /\ picked' = {r.key : r \in chosen}
        /\ UNCHANGED <<server, rows, priced, loading, source>>
    BY <1>2, <1>3
  <2>2. Claims("edit", ws) = {Saved(w) : w \in ws}
    BY DEF Claims, Promise
  <2>3. Distinct(ws) /\ (\A v \in ws : IsSent("edit", v))
    BY <1>1, <1>2, <1>3, SwitchedAreSent
  <2>4. Sending("batch", "edit", ws, None)
    BY <1>3, <2>1, <2>2, <2>3 DEF Sending, Writers, Asks
  <2>5. picked' \subseteq Keys
    BY <2>1 DEF WellTyped, PageTyped, IsTable, IsRow, IsForm
  <2>6. Sends
    BY <1>1, <2>1, <2>4, <2>5 DEF Sends, WellTyped, PageTyped
  <2> QED BY <1>1, <2>6, OperatorDoes
<1>4. CASE ~remote
  <2>1. /\ Switch(chosen, on) /\ picked' = {} /\ told' = {Saved(w) : w \in ws}
        /\ UNCHANGED <<store, loading, source, calls, hasty>>
    BY <1>2, <1>4
  <2>2. Drafted({Saved(Switched(s, on)) : s \in chosen})
    BY <1>1, <1>4, <2>1, SwitchDrafts DEF WellTyped
  <2>3. {Saved(Switched(s, on)) : s \in chosen} = told'
    BY <1>2, <2>1
  <2>4. Drafted(told')
    BY <2>2, <2>3
  <2>5. Locally
    BY <1>1, <1>4, <2>1, <2>4 DEF Locally, WellTyped, PageTyped
  <2> QED BY <1>1, <2>5, OperatorDoes
<1> QED BY <1>3, <1>4

LEMMA DeleteDoes ==
    ASSUME WellTyped, PricesHaveProducts, DeleteRecord
    PROVE  OperatorDid
<1> PICK r \in rows :
      IF remote
      THEN /\ Start("delete", "delete", {r}, {Removed(r)}, None)
           /\ UNCHANGED <<server, page>>
      ELSE /\ Discard({r}) /\ told' = {Removed(r)} /\ Acts
           /\ UNCHANGED <<store, loading, source, picked, calls, hasty>>
  BY DEF DeleteRecord
<1>1. /\ IsEditor(editor) /\ IsDrawer(drawer) /\ drawer' = drawer /\ editor' = editor
      /\ UNCHANGED fixed /\ (remote => IsServed(rows))
  BY DEF DeleteRecord, WellTyped, EditorTyped, DrawerTyped, PageTyped
<1>2. PICK chosen \in SUBSET rows : chosen = {r}
  OBVIOUS
<1>3. CASE remote
  <2>1. /\ Start("delete", "delete", chosen, {Removed(r)}, None)
        /\ UNCHANGED <<server, page>>
    BY <1>2, <1>3
  <2>2. Claims("delete", chosen) = {Removed(r)}
    BY <1>2 DEF Claims, Promise
  <2>3. Distinct(chosen) /\ (\A v \in chosen : IsSent("delete", v))
    BY <1>1, <1>3, RowsAreSent
  <2>4. Sending("delete", "delete", chosen, None)
    BY <1>3, <2>1, <2>2, <2>3 DEF Sending, Writers, Asks
  <2>5. Sends
    BY <1>1, <2>1, <2>4 DEF Sends, page, WellTyped, PageTyped
  <2> QED BY <1>1, <2>5, OperatorDoes
<1>4. CASE ~remote
  <2>1. /\ Discard(chosen) /\ told' = {Removed(r)}
        /\ UNCHANGED <<store, loading, source, picked, calls, hasty>>
    BY <1>2, <1>4
  <2>2. Drafted({Removed(s) : s \in chosen})
    BY <1>1, <1>4, <2>1, DiscardDrafts DEF WellTyped
  <2>3. {Removed(s) : s \in chosen} = told'
    BY <1>2, <2>1
  <2>4. Drafted(told')
    BY <2>2, <2>3
  <2>5. Locally
    BY <1>1, <1>4, <2>1, <2>4 DEF Locally, WellTyped, PageTyped
  <2> QED BY <1>1, <2>5, OperatorDoes
<1> QED BY <1>3, <1>4

LEMMA DeleteSelectedDoes ==
    ASSUME WellTyped, PricesHaveProducts, DeleteSelected
    PROVE  OperatorDid
<1> PICK chosen \in SUBSET rows :
      LET claims == {Removed(r) : r \in chosen}
      IN IF remote
         THEN /\ Start("deletes", "delete", chosen, claims, None)
              /\ picked' = {r.key : r \in chosen}
              /\ UNCHANGED <<server, rows, priced, loading, source>>
         ELSE /\ Discard(chosen)
              /\ picked' = {} /\ told' = claims /\ Acts
              /\ UNCHANGED <<store, loading, source, calls, hasty>>
  BY DEF DeleteSelected
<1>1. /\ IsEditor(editor) /\ IsDrawer(drawer) /\ drawer' = drawer /\ editor' = editor
      /\ UNCHANGED fixed /\ (remote => IsServed(rows))
  BY DEF DeleteSelected, WellTyped, EditorTyped, DrawerTyped, PageTyped
<1>2. CASE remote
  <2>1. /\ Start("deletes", "delete", chosen, {Removed(r) : r \in chosen}, None)
        /\ picked' = {r.key : r \in chosen}
        /\ UNCHANGED <<server, rows, priced, loading, source>>
    BY <1>2
  <2>2. Claims("delete", chosen) = {Removed(r) : r \in chosen}
    BY DEF Claims, Promise
  <2>3. Distinct(chosen) /\ (\A v \in chosen : IsSent("delete", v))
    BY <1>1, <1>2, RowsAreSent
  <2>4. Sending("deletes", "delete", chosen, None)
    BY <1>2, <2>1, <2>2, <2>3 DEF Sending, Writers, Asks
  <2>5. picked' \subseteq Keys
    BY <2>1 DEF WellTyped, PageTyped, IsTable, IsRow, IsForm
  <2>6. Sends
    BY <1>1, <2>1, <2>4, <2>5 DEF Sends, WellTyped, PageTyped
  <2> QED BY <1>1, <2>6, OperatorDoes
<1>3. CASE ~remote
  <2>1. /\ Discard(chosen) /\ picked' = {} /\ told' = {Removed(r) : r \in chosen}
        /\ UNCHANGED <<store, loading, source, calls, hasty>>
    BY <1>3
  <2>2. Drafted({Removed(s) : s \in chosen})
    BY <1>1, <1>3, <2>1, DiscardDrafts DEF WellTyped
  <2>3. Drafted(told')
    BY <2>1, <2>2
  <2>4. Locally
    BY <1>1, <1>3, <2>1, <2>3 DEF Locally, WellTyped, PageTyped
  <2> QED BY <1>1, <2>4, OperatorDoes
<1> QED BY <1>2, <1>3

LEMMA ResetDoes ==
    ASSUME WellTyped, Reset
    PROVE  OperatorDid
<1>1. /\ IsEditor(editor) /\ IsDrawer(drawer) /\ drawer' = drawer /\ UNCHANGED fixed
  BY DEF Reset, WellTyped, EditorTyped, DrawerTyped
<1>2. CASE remote
  <2>1. /\ Start("reset", "none", {}, {}, None)
        /\ BeginReading /\ UNCHANGED <<server, editor>>
    BY <1>2 DEF Reset
  <2>2. Claims("none", {}) = {} /\ Distinct({})
    BY DEF Claims, Distinct
  <2>3. Sending("reset", "none", {}, None)
    BY <1>2, <2>1, <2>2 DEF Sending, Writers, Asks
  <2>4. Sends
    BY <1>1, <2>1, <2>3 DEF Sends, BeginReading, WellTyped, PageTyped
  <2> QED BY <1>1, <2>1, <2>4, OperatorDoes
<1>3. CASE ~remote
  <2>1. /\ rows' = Seeds /\ priced' = SeedPriced
        /\ picked' = {} /\ editor' = Closed /\ told' = {}
        /\ UNCHANGED <<server, loading, source, calls, hasty>>
    BY <1>3 DEF Reset
  <2>2. Drafted({})
    BY <1>1, <1>3, <2>1, ResetDrafts DEF WellTyped
  <2>3. Locally
    BY <1>1, <1>3, <2>1, <2>2 DEF Locally, server
  <2> QED BY <1>1, <2>1, <2>3, EditorForms, OperatorDoes
<1> QED BY <1>2, <1>3

LEMMA SwitchTabsDoes ==
    ASSUME WellTyped, SwitchTabs
    PROVE  OperatorDid
<1>1. Quiet /\ editor' = editor /\ drawer' = drawer
  BY DEF SwitchTabs, Quiet, server, ghosts
<1> QED BY <1>1, OperatorDoes DEF WellTyped, EditorTyped, DrawerTyped

\* A question about one record, its drawer open.
LEMMA AskDoes ==
    ASSUME WellTyped, remote, UNCHANGED <<fixed, server, page, editor>>, NEW op \in Asks, NEW key \in Keys,
           Start(op, "none", {}, {}, key), NEW d, IsDrawer(d), drawer' = d
    PROVE  OperatorDid
<1>1. Claims("none", {}) = {} /\ Distinct({})
  BY DEF Claims, Distinct
<1>2. Sending(op, "none", {}, key)
  BY <1>1 DEF Sending, Writers, Asks
<1>3. Sends
  BY <1>2 DEF Sends, page, WellTyped, PageTyped
<1> QED BY <1>3, OperatorDoes DEF WellTyped, EditorTyped

LEMMA OpenerDoes ==
    ASSUME WellTyped, TestRecord \/ OpenWebhook \/ ViewLog
    PROVE  OperatorDid
<1>1. \A r \in rows : r.key \in Keys
  BY DEF WellTyped, PageTyped, IsTable, IsRow, IsForm
<1>2. UNCHANGED <<fixed, server, page, editor>>
  BY DEF TestRecord, OpenWebhook, ViewLog
<1>3. ASSUME NEW r \in rows, NEW op \in Asks, remote, Start(op, "none", {}, {}, r.key),
             drawer' = [on |-> r.key, data |-> None, loading |-> TRUE, busy |-> FALSE]
      PROVE  OperatorDid
  <2>1. PICK d : d = [on |-> r.key, data |-> None, loading |-> TRUE, busy |-> FALSE]
    OBVIOUS
  <2>2. IsDrawer(d)
    BY <1>1, <2>1 DEF IsDrawer
  <2> QED BY <1>1, <1>2, <1>3, <2>1, <2>2, AskDoes
<1>4. CASE TestRecord
  BY <1>3, <1>4 DEF TestRecord, Asks
<1>5. CASE OpenWebhook
  BY <1>3, <1>5 DEF OpenWebhook, Asks
<1>6. CASE ViewLog
  <2>1. CASE source = "remote"
    <3>1. remote
      BY <2>1 DEF WellTyped, PageTyped
    <3> QED BY <1>3, <1>6, <2>1, <3>1 DEF ViewLog, Asks
  <2>2. CASE source # "remote"
    <3>1. PICK r \in rows : drawer' = [on |-> r.key, data |-> r.key, loading |-> FALSE, busy |-> FALSE]
      BY <1>6, <2>2 DEF ViewLog
    <3>2. PICK d : d = drawer'
      OBVIOUS
    <3>3. IsDrawer(d)
      BY <1>1, <3>1, <3>2 DEF IsDrawer
    <3>4. UNCHANGED <<calls, ghosts>>
      BY <1>6, <2>2 DEF ViewLog
    <3>5. Quiet
      BY <1>2, <3>4 DEF Quiet, server, page, ghosts, WellTyped, PageTyped
    <3> QED BY <1>2, <3>2, <3>3, <3>5, OperatorDoes DEF WellTyped, EditorTyped
  <2> QED BY <2>1, <2>2
<1> QED BY <1>4, <1>5, <1>6

LEMMA DrawerDoes ==
    ASSUME WellTyped, HooksAreRemote, RefreshWebhook \/ SyncWebhook \/ CloseDrawer
    PROVE  OperatorDid
<1>1. IsDrawer(drawer) /\ IsEditor(editor) /\ drawer.on \in Keys \cup {None}
  BY DEF WellTyped, DrawerTyped, EditorTyped, IsDrawer
<1>2. CASE RefreshWebhook
  <2>1. /\ UNCHANGED <<fixed, server, page, editor>> /\ Start("webhook", "none", {}, {}, drawer.on)
        /\ drawer' = [drawer EXCEPT !.loading = TRUE]
        /\ remote /\ drawer.on \in Keys
    BY <1>1, <1>2 DEF RefreshWebhook, HooksAreRemote, WellTyped, PageTyped
  <2>2. drawer' = [on |-> drawer.on, data |-> drawer.data, loading |-> TRUE, busy |-> drawer.busy]
    BY <1>1, <2>1 DEF IsDrawer
  <2>3. PICK d : d = drawer' /\ IsDrawer(d)
    BY <1>1, <2>2 DEF IsDrawer
  <2> QED BY <2>1, <2>3, AskDoes DEF Asks
<1>3. CASE SyncWebhook
  <2>1. /\ UNCHANGED <<fixed, server, page, editor>> /\ Start("sync", "none", {}, {}, drawer.on)
        /\ drawer' = [drawer EXCEPT !.busy = TRUE]
        /\ remote /\ drawer.on \in Keys
    BY <1>1, <1>3 DEF SyncWebhook, HooksAreRemote, WellTyped, PageTyped
  <2>2. drawer' = [on |-> drawer.on, data |-> drawer.data, loading |-> drawer.loading, busy |-> TRUE]
    BY <1>1, <2>1 DEF IsDrawer
  <2>3. PICK d : d = drawer' /\ IsDrawer(d)
    BY <1>1, <2>2 DEF IsDrawer
  <2> QED BY <2>1, <2>3, AskDoes DEF Asks
<1>4. CASE CloseDrawer
  <2>1. Quiet /\ editor' = editor
    BY <1>4 DEF CloseDrawer, Quiet, server, page, ghosts, WellTyped, PageTyped
  <2>2. PICK d : d = drawer' /\ IsDrawer(d)
    BY <1>4 DEF CloseDrawer, NoDrawer, IsDrawer
  <2> QED BY <1>1, <2>1, <2>2, OperatorDoes
<1> QED BY <1>2, <1>3, <1>4

LEMMA OperatorActs ==
    ASSUME WellTyped, HooksAreRemote, PricesHaveProducts, Editing \/ Table \/ Drawers
    PROVE  OperatorDid
<1>1. CASE Editing
  BY <1>1, EditingDoes, SubmitDoes DEF Editing
<1>2. CASE Table
  BY <1>2, ToggleDoes, ToggleSelectedDoes, DeleteDoes, DeleteSelectedDoes, ResetDoes, SwitchTabsDoes DEF Table
<1>3. CASE Drawers
  BY <1>3, OpenerDoes, DrawerDoes DEF Drawers
<1> QED BY <1>1, <1>2, <1>3

LEMMA AnswersTyped == ASSUME WellTyped, NEW i \in 1..MaxCalls, Answers(i) PROVE WellTyped'
BY ServeTyped, ServeLateTyped, WriteLandedTyped, SyncLandedTyped, ProbeLandedTyped, ListLandedTyped
   DEF Answers

LEMMA HooksNext ==
    ASSUME WellTyped, HooksAreRemote, PricesHaveProducts, Next
    PROVE  HooksAreRemote'
<1>1. remote' = remote /\ (Can("webhook")' <=> Can("webhook"))
  <2>1. UNCHANGED fixed
    <3>1. CASE Editing \/ Table \/ Drawers
      BY <3>1, OperatorActs DEF OperatorDid, Sends, Quiet, Locally
    <3>2. CASE \E i \in 1..MaxCalls : Answers(i)
      BY <3>2 DEF Answers, Serve, ServeLate, WriteLanded, SyncLanded, ProbeLanded, ListLanded
    <3> QED BY <3>1, <3>2 DEF Next
  <2> QED BY <2>1, Stays DEF Can
<1>2. SUFFICES ASSUME ~remote, Can("webhook")
               PROVE  drawer'.on = None
  BY <1>1 DEF HooksAreRemote
<1>3. drawer.on = None /\ ~Can("view") /\ \A i \in 1..MaxCalls : calls[i] = None
  <2>1. drawer.on = None
    BY <1>2 DEF HooksAreRemote
  <2>2. section = "telegramConfigs"
    <3>1. section \in Sections /\ "webhook" \in sectionConfig.can
      BY <1>2 DEF Can, WellTyped, PageTyped
    <3> QED BY <3>1 DEF Sections, sectionConfig, Config, PaymentChannels, Providers, Actions,
               FulfillmentStrategies, DeliveryStrategies, InternalClientKeys, RuntimeSettings,
               AuditLogs, Products, PriceTemplates
  <2>3. ~Can("view")
    BY <2>2 DEF Can, sectionConfig, Config, TelegramConfigs
  <2>4. \A i \in 1..MaxCalls : calls[i] = None
    BY <1>2, BusyCall DEF WellTyped
  <2> QED BY <2>1, <2>3, <2>4
<1>4. CASE Editing \/ Table
  BY <1>3, <1>4 DEF Editing, CreateRecord, EditRecord, TypeForm, ChooseChannelType, CloseEditor,
     SubmitEditor, Table, ToggleRecord, ToggleSelected, DeleteRecord, DeleteSelected, Reset, SwitchTabs
<1>5. CASE Drawers
  BY <1>2, <1>3, <1>5 DEF Drawers, TestRecord, ViewLog, OpenWebhook, RefreshWebhook, SyncWebhook, CloseDrawer
<1>6. CASE \E i \in 1..MaxCalls : Answers(i)
  BY <1>3, <1>6 DEF Answers, Serve, ServeLate, WriteLanded, SyncLanded, ProbeLanded, ListLanded, Asked
<1> QED BY <1>4, <1>5, <1>6 DEF Next

---------------------------------------------------------------------------
(* What is promised is kept *)

Honest == OneAtATime /\ PromisesAreKept /\ ToldIsRead /\ ToldIsStored /\ PricesHaveProducts

LEMMA StandsStay ==
    ASSUME UNCHANGED <<fixed, store>>
    PROVE  /\ Snapshot' = Snapshot
           /\ \A how, w : Stands(how, w) => Stands(how, w)'
           /\ \A claim : remote /\ Holds(claim) => Holds(claim)'
<1>1. /\ section' = section /\ Typed' = Typed /\ Data' = Data /\ sectionConfig' = sectionConfig
      /\ remote' = remote /\ store' = store
  BY Stays
<1>2. \A r : Mapped(r)' = Mapped(r)
  BY <1>1 DEF Mapped, Written, All
<1> QED BY <1>1, <1>2 DEF Snapshot, Stands, Holds, Is, Truth, Numbered

LEMMA DistinctStay ==
    ASSUME UNCHANGED fixed
    PROVE  \A ws : Distinct(ws) => Distinct(ws)'
BY Stays DEF Distinct

LEMMA PromiseRow ==
    ASSUME NEW how, NEW left
    PROVE  /\ \A w : Promise(how, w).row = w
           /\ Rows(Claims(how, left)) = left
<1>1. \A w : Promise(how, w).row = w
  BY DEF Promise, Removed, Saved
<1> QED BY <1>1 DEF Rows, Claims

LEMMA OperatorHonest == ASSUME IInv, WellTyped', OperatorDid PROVE Honest'
<1>1. UNCHANGED fixed /\ remote' = remote /\ section' = section
  <2>1. UNCHANGED fixed
    BY DEF OperatorDid, Sends, Quiet, Locally
  <2> QED BY <2>1, Stays
<1>2. CASE Sends
  <2>1. PICK op, how, left, key : Sending(op, how, left, key)
    BY <1>2 DEF Sends
  <2>2. PICK c : c = Call(op, how, left, Claims(how, left), key)
    OBVIOUS
  <2>3. PICK i \in 1..MaxCalls : Becomes(i, c)
    BY <2>1, <2>2, SendingTakesPlace DEF IInv, WellTyped
  <2>4. told' = None /\ (~hasty' => Busy = {}) /\ remote
    BY <2>1, SendingTakesPlace DEF IInv, WellTyped, Sending
  <2>5. calls' = [j \in 1..MaxCalls |-> IF j = i THEN c ELSE calls[j]]
    BY <2>3 DEF Becomes, IInv, WellTyped, CallsTyped
  <2>6. ~hasty' => \A j \in Busy' : j = i
    BY <2>4, <2>5 DEF Busy, IInv, WellTyped, CallsTyped
  <2>7. Keeps(c)'
    <3>1. /\ c.op = op /\ c.how = how /\ c.left = left /\ c.claims = Claims(how, left)
          /\ c.ans = Waiting
      BY <2>2 DEF Call
    <3>2. Rows(c.claims) = left
      BY <3>1, PromiseRow
    <3>3. Distinct(left)' /\ \A w \in left : HasKey(how, w)
      BY <1>1, <2>1, DistinctStay DEF Sending, IsSent, HasKey
    <3> QED BY <2>4, <3>1, <3>2, <3>3 DEF Keeps, Claims, Rows
  <2>8. PromisesAreKept'
    BY <2>5, <2>6, <2>7 DEF PromisesAreKept
  <2> QED BY <1>1, <2>4, <2>6, <2>8
          DEF Honest, OneAtATime, ToldIsRead, ToldIsStored, PricesHaveProducts
<1>3. CASE Quiet
  <2>1. UNCHANGED <<store, rows, priced, source, calls, told, hasty>> /\ Busy' = Busy
    BY <1>3 DEF Quiet, server, Busy
  <2>2. OneAtATime'
    BY <2>1 DEF IInv, OneAtATime
  <2>3. PromisesAreKept'
    <3>1. SUFFICES ASSUME remote, ~hasty, NEW j \in Busy
                   PROVE  Keeps(calls[j])'
      BY <1>1, <2>1 DEF PromisesAreKept
    <3>2. PICK c : c = calls[j] /\ c = calls'[j]
      BY <2>1
    <3>3. Keeps(c)
      BY <3>1, <3>2 DEF IInv, PromisesAreKept
    <3>4. Keeps(c)'
      BY <1>1, <2>1, <3>3, StandsStay, DistinctStay DEF Keeps
    <3> QED BY <3>2, <3>4
  <2>4. ToldIsRead'
    BY <1>1, <2>1, StandsStay DEF IInv, ToldIsRead
  <2>5. ToldIsStored'
    BY <1>1, <2>1, Stays DEF IInv, ToldIsStored, Holds, Is, Truth
  <2>6. PricesHaveProducts'
    BY <1>1, <2>1 DEF IInv, PricesHaveProducts
  <2> QED BY <2>2, <2>3, <2>4, <2>5, <2>6 DEF Honest
<1>4. CASE Locally
  <2>1. ~remote /\ ~remote' /\ UNCHANGED <<source, calls, hasty>> /\ Drafted(told') /\ Busy' = Busy
    BY <1>1, <1>4 DEF Locally, Busy
  <2>2. OneAtATime'
    BY <2>1 DEF IInv, OneAtATime
  <2>3. PromisesAreKept'
    BY <2>1 DEF PromisesAreKept
  <2>4. source # "remote"
    BY <2>1 DEF IInv, WellTyped, PageTyped
  <2>5. ToldIsRead'
    BY <2>1, <2>4 DEF ToldIsRead
  <2>6. ToldIsStored' /\ PricesHaveProducts'
    BY <2>1 DEF ToldIsStored, Drafted
  <2> QED BY <2>2, <2>3, <2>5, <2>6 DEF Honest
<1> QED BY <1>2, <1>3, <1>4 DEF OperatorDid

\* An answer to the one handler in progress of an operator who waits.
LEMMA AnswerHonest ==
    ASSUME IInv, NEW i \in 1..MaxCalls, calls[i] # None, UNCHANGED <<fixed, hasty>>,
           ~hasty => /\ \E d : Becomes(i, d) /\ (d # None => Keeps(d)')
                     /\ told' # None =>
                          /\ source' = "remote" => rows' = Snapshot'
                          /\ \A claim \in told' : Holds(claim)'
    PROVE  Honest'
<1>1. remote /\ remote' = remote /\ section' = section
  BY BusyCall, Stays DEF IInv, WellTyped
<1>2. CASE hasty
  BY <1>1, <1>2 DEF Honest, OneAtATime, PromisesAreKept, ToldIsRead, ToldIsStored, PricesHaveProducts
<1>3. CASE ~hasty
  <2>1. PICK d : Becomes(i, d) /\ (d # None => Keeps(d)')
    BY <1>3
  <2>2. calls' = [j \in 1..MaxCalls |-> IF j = i THEN d ELSE calls[j]]
    BY <2>1 DEF Becomes, IInv, WellTyped, CallsTyped
  <2>3. \A j \in 1..MaxCalls : calls[j] # None => j = i
    BY <1>3 DEF IInv, OneAtATime, Busy, WellTyped, CallsTyped
  <2>4. \A j \in Busy' : j = i /\ calls'[j] = d /\ d # None
    BY <2>2, <2>3 DEF Busy
  <2>5. OneAtATime'
    BY <2>4 DEF OneAtATime
  <2>6. PromisesAreKept'
    BY <2>1, <2>4 DEF PromisesAreKept
  <2> QED BY <1>1, <1>3, <2>5, <2>6
          DEF Honest, ToldIsRead, ToldIsStored, PricesHaveProducts
<1> QED BY <1>2, <1>3 DEF IInv, WellTyped, PageTyped

LEMMA Waits ==
    ASSUME IInv, ~hasty, NEW i \in 1..MaxCalls, calls[i] # None, NEW c, c = calls[i]
    PROVE  Keeps(c) /\ IsCall(c) /\ remote /\ told = None
<1>1. i \in Busy /\ IsCall(c) /\ remote
  BY BusyCall DEF Busy, IInv, WellTyped, CallsTyped
<1>2. Keeps(c)
  BY <1>1 DEF IInv, PromisesAreKept
<1> QED BY <1>1, <1>2 DEF Keeps

LEMMA ServeHonest == ASSUME IInv, NEW i \in 1..MaxCalls, Serve(i) PROVE Honest'
<1> PICK c : c = calls[i]
  OBVIOUS
<1>1. /\ IsCall(c) /\ remote /\ c.op # "late" /\ c.ans = Waiting
      /\ \/ \E ans : Answered(c, ans) /\ Becomes(i, With(c, c.at, c.left, ans))
         \/ \E w, ans : Wrote(c, w, ans) /\ Becomes(i, With(c, c.at, c.left \ {w}, ans))
  BY ServeSteps DEF IInv, WellTyped
<1>2. /\ calls[i] # None /\ UNCHANGED <<fixed, hasty, told>> /\ section \in Sections /\ ServerTyped
  BY DEF Serve, ghosts, IInv, WellTyped, PageTyped
<1>3. SUFFICES ASSUME ~hasty
               PROVE  \E d : Becomes(i, d) /\ (d # None => Keeps(d)')
  <2>1. ~hasty => told' = None
    BY <1>2, Waits
  <2> QED BY <1>2, <1>3, <2>1, AnswerHonest
<1>4. Keeps(c) /\ told' = None
  BY <1>2, <1>3, Waits
<1> DEFINE ws == Rows(c.claims)
<1>5. /\ c.left \subseteq ws /\ Distinct(ws)' /\ Distinct(ws)
      /\ c.claims = {Promise(c.how, w) : w \in ws}
      /\ \A w \in ws : HasKey(c.how, w)
      /\ \A w \in ws \ c.left : Stands(c.how, w)
  BY <1>1, <1>2, <1>4, DistinctStay, ConsoleAssumption DEF Keeps
<1>6. section' = section
  BY <1>2, Stays
<1>7. ASSUME NEW ans, Answered(c, ans)
      PROVE  Keeps(With(c, c.at, c.left, ans))'
  <2> PICK d : d = With(c, c.at, c.left, ans)
    OBVIOUS
  <2>1. /\ d.op = c.op /\ d.how = c.how /\ d.at = c.at /\ d.left = c.left /\ d.claims = c.claims
        /\ d.ans = ans
    BY DEF With
  <2>2. UNCHANGED <<fixed, store>> /\ (Lists(d) => ans \in {Snapshot, Failed})
    BY <1>2, <1>7, <2>1 DEF Answered, server, Lists
  <2>3. Snapshot' = Snapshot /\ \A how, w : Stands(how, w) => Stands(how, w)'
    BY <2>2, StandsStay
  <2>4. Keeps(d)'
    BY <1>4, <1>5, <1>6, <2>1, <2>2, <2>3 DEF Keeps
  <2> QED BY <2>4 DEF Keeps, With, Lists
<1>8. ASSUME NEW w, NEW ans, Wrote(c, w, ans)
      PROVE  Keeps(With(c, c.at, c.left \ {w}, ans))'
  <2> PICK d : d = With(c, c.at, c.left \ {w}, ans)
    OBVIOUS
  <2>1. /\ d.op = c.op /\ d.how = c.how /\ d.at = c.at /\ d.left = c.left \ {w} /\ d.claims = c.claims
        /\ d.ans = ans /\ ~Lists(d) /\ w \in c.left
    BY <1>8 DEF With, Wrote, Lists
  <2>2. CASE ans = Failed
    BY <1>4, <2>1, <2>2 DEF Keeps
  <2>3. CASE Take(c.how, w)
    <3>1. c.how \in {"create", "edit", "delete"} /\ IsSent(c.how, w)
      BY <1>1, <2>1, SentIsSent
    <3>2. /\ Stands(c.how, w)'
          /\ \A v : /\ v.key = w.key \/ (~Numbered /\ v.id = w.id) => v = w
                    /\ HasKey(c.how, v)
                    /\ Stands(c.how, v)
                    => Stands(c.how, v)'
      BY <1>2, <2>3, <3>1, TakeStands
    <3>3. \A v \in ws \ d.left : Stands(c.how, v)'
      <4>1. SUFFICES ASSUME NEW v \in ws, v \notin d.left
                     PROVE  Stands(c.how, v)'
        OBVIOUS
      <4>2. CASE v = w
        BY <3>2, <4>1, <4>2
      <4>3. CASE v # w
        <5>1. Stands(c.how, v)
          BY <1>5, <2>1, <4>1, <4>3
        <5>2. v.key = w.key \/ (~Numbered /\ v.id = w.id) => v = w
          BY <1>5, <2>1 DEF Distinct
        <5>3. HasKey(c.how, v)
          BY <1>5
        <5> QED BY <3>2, <4>1, <5>1, <5>2, <5>3
      <4> QED BY <4>2, <4>3
    <3>4. /\ Rows(d.claims) = ws /\ d.left \subseteq ws
          /\ d.claims = {Promise(d.how, v) : v \in ws}
      BY <1>5, <2>1
    <3>5. Keeps(d)'
      BY <1>4, <1>5, <2>1, <3>3, <3>4 DEF Keeps
    <3> QED BY <3>5 DEF Keeps, With, Lists
  <2> QED BY <1>8, <2>2, <2>3 DEF Wrote
<1> QED BY <1>1, <1>7, <1>8

LEMMA ServeLateHonest == ASSUME IInv, NEW i \in 1..MaxCalls, ServeLate(i) PROVE Honest'
<1> PICK c : c = calls[i]
  OBVIOUS
<1>1. calls[i] # None /\ c.op = "late" /\ UNCHANGED <<fixed, hasty, told>> /\ IsCall(c)
  BY BusyCall DEF ServeLate, ghosts, IInv, WellTyped
<1>2. SUFFICES ASSUME ~hasty
               PROVE  \E d : Becomes(i, d) /\ (d # None => Keeps(d)')
  <2>1. ~hasty => told' = None
    BY <1>1, Waits
  <2> QED BY <1>1, <1>2, <2>1, AnswerHonest
<1>3. told' = None
  BY <1>1, <1>2, Waits
<1>4. PICK w \in c.left :
        calls' = [calls EXCEPT ![i] = IF c.left = {w} THEN None ELSE [c EXCEPT !.left = @ \ {w}]]
  BY DEF ServeLate
<1>5. PICK d : Becomes(i, d) /\ (d = None \/ d = [c EXCEPT !.left = @ \ {w}])
  BY <1>4 DEF Becomes
<1>6. d # None => d.op = "late"
  BY <1>1, <1>5 DEF IsCall
<1> QED BY <1>3, <1>5, <1>6 DEF Keeps, Lists

\* A handler that goes on says the same; one that ends, of a failure or not, says no more.
LEMMA OnwardKeeps ==
    ASSUME IInv, ~hasty, NEW i \in 1..MaxCalls, calls[i] # None, NEW c, c = calls[i],
           UNCHANGED <<fixed, store>>, told' = None, c.op # "late", c.left = {},
           c.ans # Failed \/ c.op \notin Writers, GoesOn(i)
    PROVE  \E d : Becomes(i, d) /\ (d # None => Keeps(d)')
<1>1. Keeps(c) /\ IsCall(c) /\ CallsTyped
  BY Waits DEF IInv, WellTyped
<1> PICK d : d = With(c, c.at + 1, c.left, Waiting)
  OBVIOUS
<1>2. Becomes(i, d)
  BY <1>1, OnwardEdit
<1>3. d.op = c.op /\ d.how = c.how /\ d.left = {} /\ d.claims = c.claims /\ d.ans = Waiting
  BY DEF With
<1>4. /\ Distinct(Rows(c.claims))' /\ c.claims = {Promise(c.how, w) : w \in Rows(c.claims)}
      /\ \A w \in Rows(c.claims) : HasKey(c.how, w)
      /\ \A w \in Rows(c.claims) : Stands(c.how, w)'
  <2>1. CASE c.op \in Writers
    BY <1>1, <2>1, StandsStay, DistinctStay DEF Keeps
  <2>2. CASE c.op \notin Writers
    <3>1. c.claims = {}
      BY <1>1, <2>2 DEF IsCall
    <3> QED BY <3>1 DEF Rows, Distinct
  <2> QED BY <2>1, <2>2
<1>5. section' = section
  BY Stays
<1>6. Keeps(d)'
  BY <1>3, <1>4, <1>5 DEF Keeps
<1> QED BY <1>2, <1>6

LEMMA EndKeeps ==
    ASSUME IInv, NEW i \in 1..MaxCalls, calls[i] # None, UNCHANGED fixed, told' = None, Ends(i)
    PROVE  \E d : Becomes(i, d) /\ (d # None => Keeps(d)')
<1> PICK c : c = calls[i]
  OBVIOUS
<1>1. PICK d : Becomes(i, d) /\ (d = None \/ (c.left # {} /\ d = [c EXCEPT !.op = "late"]))
  BY DEF Ends, Becomes
<1>2. IsCall(c)
  BY BusyCall DEF IInv, WellTyped
<1>3. d # None => d.op = "late"
  BY <1>1, <1>2 DEF IsCall
<1> QED BY <1>1, <1>3 DEF Keeps, Lists

LEMMA LandedHonest ==
    ASSUME IInv, NEW i \in 1..MaxCalls, WriteLanded(i) \/ SyncLanded(i) \/ ProbeLanded(i)
    PROVE  Honest'
<1> PICK c : c = calls[i]
  OBVIOUS
<1>1. PICK what \in {"write", "sync", "probe"} :
        Asked(i, what) /\ (WriteLanded(i) => what = "write")
        /\ (SyncLanded(i) => what = "sync") /\ (ProbeLanded(i) => what = "probe")
  <2>1. CASE WriteLanded(i)
    BY <2>1 DEF WriteLanded, SyncLanded, ProbeLanded, Asked
  <2>2. CASE SyncLanded(i)
    BY <2>2 DEF WriteLanded, SyncLanded, ProbeLanded, Asked
  <2>3. CASE ProbeLanded(i)
    BY <2>3 DEF WriteLanded, SyncLanded, ProbeLanded, Asked
  <2> QED BY <2>1, <2>2, <2>3
<1>2. /\ IsCall(c) /\ remote /\ c # None /\ c.op # "late" /\ c.ans # Waiting
      /\ Script(c.op)[c.at] = what /\ (what # "write" => c.left = {})
      /\ c.op \in Writers \cup {"load", "reset", "test", "detail", "webhook", "sync"}
      /\ c.at \in DOMAIN Script(c.op)
  <2>1. CallsTyped
    BY DEF IInv, WellTyped
  <2> QED BY <1>1, <2>1, AskedCall DEF IsCall
<1>3. UNCHANGED <<fixed, store, hasty>>
  BY DEF WriteLanded, SyncLanded, ProbeLanded, server
<1>4. SUFFICES ASSUME ~hasty
               PROVE  told' = None /\ \E d : Becomes(i, d) /\ (d # None => Keeps(d)')
  BY <1>2, <1>3, <1>4, AnswerHonest
<1>5. told = None
  BY <1>2, <1>4, Waits
<1>6. told' = None
  BY <1>5 DEF WriteLanded, SyncLanded, ProbeLanded
<1>7. \/ Ends(i)
      \/ GoesOn(i) /\ c.left = {} /\ (c.ans # Failed \/ c.op \notin Writers)
  <2>1. CASE WriteLanded(i)
    <3>1. Ends(i) \/ (GoesOn(i) /\ c.ans = Done)
      BY <2>1 DEF WriteLanded
    <3>2. c.ans = Done => c.left = {} /\ c.ans # Failed
      BY <1>2, ConsoleAssumption DEF IsCall
    <3> QED BY <3>1, <3>2
  <2>2. CASE SyncLanded(i)
    <3>1. Ends(i) \/ GoesOn(i)
      BY <2>2 DEF SyncLanded
    <3>2. c.left = {} /\ c.op \notin Writers
      BY <1>1, <1>2, <2>2, ScriptOf DEF Writers
    <3> QED BY <3>1, <3>2
  <2>3. CASE ProbeLanded(i)
    <3>1. Ends(i) \/ GoesOn(i)
      BY <2>3 DEF ProbeLanded
    <3>2. c.left = {} /\ c.op \notin Writers
      BY <1>1, <1>2, <2>3, ScriptOf DEF Writers
    <3> QED BY <3>1, <3>2
  <2> QED BY <2>1, <2>2, <2>3
<1>8. CASE Ends(i)
  BY <1>2, <1>3, <1>6, <1>8, EndKeeps
<1>9. CASE GoesOn(i) /\ c.left = {} /\ (c.ans # Failed \/ c.op \notin Writers)
  BY <1>2, <1>3, <1>4, <1>6, <1>9, OnwardKeeps
<1> QED BY <1>6, <1>7, <1>8, <1>9

LEMMA ListLandedHonest == ASSUME IInv, NEW i \in 1..MaxCalls, ListLanded(i) PROVE Honest'
<1> PICK c : c = calls[i]
  OBVIOUS
<1>1. /\ IsCall(c) /\ remote /\ c # None /\ c.op # "late" /\ c.ans # Waiting
      /\ Script(c.op)[c.at] = "list" /\ c.left = {}
      /\ c.op \in Writers \cup {"load", "reset", "test", "detail", "webhook", "sync"}
  <2>1. CallsTyped /\ Asked(i, "list")
    BY DEF IInv, WellTyped, ListLanded
  <2> QED BY <2>1, AskedCall
<1>2. UNCHANGED <<fixed, server, hasty>> /\ Ends(i)
  BY DEF ListLanded
<1>3. Becomes(i, None)
  BY <1>1, <1>2 DEF Ends, Becomes
<1>4. SUFFICES ASSUME ~hasty, told' # None
               PROVE  /\ source' = "remote" => rows' = Snapshot'
                      /\ \A claim \in told' : Holds(claim)'
  BY <1>1, <1>2, <1>3, <1>4, AnswerHonest
<1>5. Keeps(c)
  BY <1>1, <1>4, Waits
<1>6. Snapshot' = Snapshot /\ \A claim : remote /\ Holds(claim) => Holds(claim)'
  BY <1>2, StandsStay DEF server
<1>7. source' = "remote" => rows' = Snapshot'
  <2>1. source' = "remote" => c.ans # Failed /\ rows' = c.ans
    BY DEF ListLanded, Merged
  <2> QED BY <1>1, <1>5, <1>6, <2>1 DEF Keeps, Lists
<1>8. told' = c.claims /\ (c.ans # Failed \/ c.claims = {})
  <2>1. told' = (IF c.ans # Failed \/ c.op = "sync" THEN c.claims ELSE None)
    BY DEF ListLanded
  <2>2. c.op = "sync" => c.claims = {}
    BY <1>1 DEF IsCall, Writers
  <2> QED BY <1>4, <2>1, <2>2
<1>9. ASSUME NEW claim \in told'
      PROVE  Holds(claim)'
  <2>1. c.ans # Failed /\ claim \in c.claims
    BY <1>8, <1>9
  <2>2. PICK w : claim = Promise(c.how, w) /\ Stands(c.how, w)
    BY <1>1, <1>5, <1>9, <2>1 DEF Keeps
  <2>3. Holds(claim)
    <3>1. CASE c.how = "delete"
      BY <1>1, <2>2, <3>1 DEF Promise, Removed, Stands, Holds, Truth
    <3>2. CASE c.how # "delete"
      BY <1>1, <2>2, <3>2 DEF Promise, Saved, Stands, Holds, Is, Truth, Numbered
    <3> QED BY <3>1, <3>2
  <2> QED BY <1>1, <1>6, <2>3
<1> QED BY <1>7, <1>9

---------------------------------------------------------------------------
(* The invariant *)

LEMMA InitHolds == Init => IInv
<1> SUFFICES ASSUME Init PROVE IInv
  OBVIOUS
<1>1. /\ section \in Sections /\ remote \in BOOLEAN
      /\ DOMAIN SeedIds = 1..Len(SeedIds) /\ Len(SeedIds) \in Nat /\ Len(SeedIds) <= MaxKeys
      /\ MaxKeys \in Nat /\ MaxCalls \in Nat
  BY ConsoleAssumption DEF Init
<1>2. made \in Nat /\ (Numbered => made = Len(SeedIds))
  <2> DEFINE S(k) == Row(IF Numbered THEN k ELSE SeedIds[k], SeedIds[k], SeedOwner(k), TRUE, All("seed"))
             f == [k \in 1..Len(SeedIds) |-> S(k)]
  <2>1. Seeds = {S(k) : k \in 1..Len(SeedIds)}
    BY <1>1 DEF Seeds
  <2>2. made = Cardinality(Seeds)
    BY DEF Init
  <2>3. IsFiniteSet(1..Len(SeedIds)) /\ Cardinality(1..Len(SeedIds)) = Len(SeedIds)
    <3> PICK n \in Nat : n = Len(SeedIds)
      BY <1>1
    <3>1. 1 \in Int /\ n \in Int
      OBVIOUS
    <3>2. IsFiniteSet(1..n) /\ Cardinality(1..n) = IF 1 > n THEN 0 ELSE n - 1 + 1
      BY <3>1, FS_Interval
    <3>3. Cardinality(1..n) = n
      BY <3>2
    <3> QED BY <3>2, <3>3
  <2>4. f \in Surjection(1..Len(SeedIds), Seeds)
    <3> HIDE DEF S
    <3> QED BY <2>1 DEF Surjection
  <2>5. IsFiniteSet(Seeds) /\ made \in Nat
    <3> HIDE DEF f
    <3> QED BY <2>2, <2>3, <2>4, FS_Surjection, FS_CardinalityType
  <2>6. ASSUME Numbered
        PROVE  made = Len(SeedIds)
    <3>1. \A k \in 1..Len(SeedIds) : S(k).key = k
      BY <2>6 DEF Row
    <3>2. f \in Injection(1..Len(SeedIds), Seeds)
      <4> HIDE DEF S
      <4>1. f \in [1..Len(SeedIds) -> Seeds]
        BY <2>1
      <4>2. ASSUME NEW j \in 1..Len(SeedIds), NEW k \in 1..Len(SeedIds), f[j] = f[k]
            PROVE  j = k
        <5>1. S(j) = S(k)
          BY <4>2
        <5> QED BY <3>1, <5>1
      <4>3. DOMAIN f = 1..Len(SeedIds)
        OBVIOUS
      <4> HIDE DEF f
      <4> QED BY <4>1, <4>2, <4>3 DEF Injection, IsInjective
    <3> HIDE DEF f
    <3>3. Cardinality(Seeds) = Cardinality(1..Len(SeedIds))
      BY <2>3, <2>4, <3>2, FS_Surjection
    <3> QED BY <2>2, <2>3, <3>3
  <2> QED BY <2>5, <2>6
<1>3. IsServed(Seeds) /\ SeedPriced \subseteq Ids /\ IsServed({})
  <2>1. Numbered => Len(SeedIds) <= made
    BY <1>1, <1>2
  <2>2. IsServed(Seeds) /\ SeedPriced \subseteq Ids
    BY <1>1, <1>2, <2>1, SeedsServed
  <2>3. IsServed({})
    BY DEF IsServed, IsTable
  <2> QED BY <2>2, <2>3
<1>4. ServerTyped
  BY <1>1, <1>2, <1>3 DEF ServerTyped, Init
<1>5. PageTyped
  BY <1>1, <1>3 DEF PageTyped, Init, IsServed
<1>6. EditorTyped /\ DrawerTyped /\ drawer.on = None
  BY DEF Init, EditorTyped, IsEditor, Closed, DrawerTyped, IsDrawer, NoDrawer
<1> PICK c : c = Call("load", "none", {}, {}, None)
  OBVIOUS
<1>7. calls = [i \in 1..MaxCalls |-> IF remote /\ i = 1 THEN c ELSE None] /\ told = None
  BY DEF Init
<1>8. IsCall(c)
  <2>1. /\ c = [op |-> c.op, how |-> c.how, at |-> c.at, left |-> c.left, claims |-> c.claims,
                key |-> c.key, ans |-> c.ans]
        /\ c.op = "load" /\ c.at = 1 /\ c.left = {} /\ c.claims = {} /\ c.ans = Waiting
    BY DEF Call
  <2>2. 1 \in DOMAIN Script("load")
    BY DEF Script
  <2> QED BY <2>1, <2>2 DEF IsCall, Writers
<1>9. CallsTyped /\ \A i \in Busy : i = 1 /\ calls[i] = c /\ remote
  BY <1>7, <1>8 DEF CallsTyped, Busy
<1>10. Keeps(c)
  <2>1. c.left = {} /\ c.claims = {} /\ c.ans = Waiting
    BY DEF Call
  <2> QED BY <1>7, <2>1 DEF Keeps, Rows, Distinct
<1>11. OneAtATime /\ PromisesAreKept
  BY <1>9, <1>10 DEF OneAtATime, PromisesAreKept
<1>12. PricesHaveProducts
  BY DEF PricesHaveProducts, Init, SeedPriced
<1> QED BY <1>4, <1>5, <1>6, <1>7, <1>9, <1>11, <1>12
        DEF IInv, WellTyped, HooksAreRemote, ToldIsRead, ToldIsStored

LEMMA NextHolds == IInv /\ Next => IInv'
<1> SUFFICES ASSUME IInv, Next PROVE IInv'
  OBVIOUS
<1>1. WellTyped /\ HooksAreRemote /\ PricesHaveProducts
  BY DEF IInv
<1>2. HooksAreRemote'
  BY <1>1, HooksNext
<1>3. CASE Editing \/ Table \/ Drawers
  <2>1. OperatorDid
    BY <1>1, <1>3, OperatorActs
  <2>2. WellTyped'
    BY <1>1, <2>1, OperatorTyped
  <2>3. Honest'
    BY <2>1, <2>2, OperatorHonest
  <2> QED BY <1>2, <2>2, <2>3 DEF IInv, Honest
<1>4. CASE \E i \in 1..MaxCalls : Answers(i)
  <2>1. PICK i \in 1..MaxCalls : Answers(i)
    BY <1>4
  <2>2. WellTyped'
    BY <1>1, <2>1, AnswersTyped
  <2>3. Honest'
    BY <2>1, ServeHonest, ServeLateHonest, LandedHonest, ListLandedHonest DEF Answers
  <2> QED BY <1>2, <2>2, <2>3 DEF IInv, Honest
<1> QED BY <1>3, <1>4 DEF Next

LEMMA StutterHolds == IInv /\ UNCHANGED vars => IInv'
<1> SUFFICES ASSUME IInv, UNCHANGED vars PROVE IInv'
  OBVIOUS
<1>1. Quiet /\ UNCHANGED <<editor, drawer, remote>> /\ UNCHANGED fixed
  BY DEF vars, Quiet, fixed, server, IInv, WellTyped, PageTyped
<1>2. OperatorDid
  BY <1>1, OperatorDoes DEF IInv, WellTyped, EditorTyped, DrawerTyped
<1>3. WellTyped'
  BY <1>2, OperatorTyped DEF IInv
<1>4. Honest'
  BY <1>2, <1>3, OperatorHonest
<1>5. HooksAreRemote'
  BY <1>1, Stays DEF IInv, HooksAreRemote, Can
<1> QED BY <1>3, <1>4, <1>5 DEF IInv, Honest

\* The inductive invariant holds in every state the console, the server and the calls between
\* them can reach.
THEOREM ConsoleInvariant == Spec => []IInv
<1>1. IInv /\ [Next]_vars => IInv'
  BY NextHolds, StutterHolds
<1> QED BY <1>1, InitHolds, PTL DEF Spec

---------------------------------------------------------------------------
(* What the invariant says of the console *)

LEMMA TypesFollow == IInv => TypeOK
<1> SUFFICES ASSUME IInv PROVE TypeOK
  OBVIOUS
<1>1. WellTyped
  BY DEF IInv
<1>2. ASSUME NEW r \in store \cup rows
      PROVE  r.key \in Keys /\ r.id \in Ids /\ r.on \in BOOLEAN /\ DOMAIN r.data = Data
  <2>1. IsRow(r)
    BY <1>1, <1>2 DEF WellTyped, ServerTyped, PageTyped, IsServed, IsTable
  <2>2. r.data = [f \in Data |-> r.data[f]]
    BY <2>1 DEF IsRow, IsForm
  <2>3. DOMAIN r.data = Data
    <3> PICK data : data = r.data
      OBVIOUS
    <3>1. data = [f \in Data |-> data[f]]
      BY <2>2
    <3> HIDE DEF Data
    <3> QED BY <3>1
  <2> QED BY <2>1, <2>3 DEF IsRow, IsForm
<1>3. picked \subseteq Keys /\ priced \subseteq Ids /\ loading \in BOOLEAN
      /\ source \in {"local", "remote", "remote-error"}
  BY <1>1 DEF WellTyped, PageTyped
<1>4. editor.mode \in {"closed", "create", "edit"} /\ drawer.on \in Keys \cup {None}
  BY <1>1 DEF WellTyped, EditorTyped, IsEditor, DrawerTyped, IsDrawer
<1>5. \A i \in Busy : calls[i].at \in DOMAIN Script(calls[i].op)
  BY <1>1 DEF WellTyped, CallsTyped, IsCall
<1> QED BY <1>2, <1>3, <1>4, <1>5 DEF TypeOK

LEMMA ShownFollows == IInv => ShownIsStored
<1> DEFINE seen == (sectionConfig.shown \cup sectionConfig.form) \cap Data
           View(r) == [r EXCEPT !.data = [f \in seen |-> r.data[f]]]
<1> SUFFICES ASSUME IInv, source = "remote", ~hasty, told # None
             PROVE  {View(r) : r \in rows} = {View(r) : r \in store}
  BY DEF ShownIsStored
<1>1. rows = {Mapped(r) : r \in store}
  BY DEF IInv, ToldIsRead, Snapshot
<1>2. section \in Sections /\ \A r \in store : IsRow(r)
  BY DEF IInv, WellTyped, PageTyped, ServerTyped, IsServed, IsTable
<1>3. seen \subseteq sectionConfig.read /\ seen \subseteq Data
  BY <1>2, FieldsAreCarried
<1>4. ASSUME NEW r \in store
      PROVE  View(Mapped(r)) = View(r)
  <2>1. r = [key |-> r.key, id |-> r.id, owner |-> r.owner, on |-> r.on, data |-> r.data]
    <3>1. r = Row(r.key, r.id, r.owner, r.on, r.data)
      BY <1>2 DEF IsRow, IsForm
    <3> QED BY <3>1 DEF Row
  <2> PICK data : data = Written(sectionConfig.read, r.data, All("lost"))
    OBVIOUS
  <2>2. Mapped(r) = [r EXCEPT !.data = data]
    BY DEF Mapped
  <2>3. Mapped(r) = [key |-> r.key, id |-> r.id, owner |-> r.owner, on |-> r.on, data |-> data]
    BY <2>1, <2>2
  <2>4. \A f \in seen : data[f] = r.data[f]
    BY <1>3 DEF Written
  <2> PICK m : m = Mapped(r)
    OBVIOUS
  <2>5. [f \in seen |-> m.data[f]] = [f \in seen |-> r.data[f]]
    <3>1. m.data = data
      BY <2>3
    <3> HIDE DEF seen
    <3> QED BY <2>4, <3>1
  <2> PICK view : view = [f \in seen |-> r.data[f]]
    OBVIOUS
  <2>6. [m EXCEPT !.data = view]
          = [key |-> r.key, id |-> r.id, owner |-> r.owner, on |-> r.on, data |-> view]
    BY <2>3
  <2>7. [r EXCEPT !.data = view]
          = [key |-> r.key, id |-> r.id, owner |-> r.owner, on |-> r.on, data |-> view]
    BY <2>1
  <2>8. View(m) = [m EXCEPT !.data = view] /\ View(r) = [r EXCEPT !.data = view]
    BY <2>5
  <2> QED BY <2>6, <2>7, <2>8
<1> HIDE DEF View
<1> QED BY <1>1, <1>4

\* The configuration console is well typed: every row the server or the page has is named and has
\* the fields of its section, what is picked and priced are names, and each handler in progress
\* is at a step of its script.
THEOREM ConsoleIsTyped == Spec => []TypeOK
BY ConsoleInvariant, TypesFollow, PTL

\* When the operator waited for the answers, what a success message of saveEditor, toggleRecord,
\* the batches and deleteRecord says is what the server, or the local draft, has: every field
\* typed, every switch, every deletion.
THEOREM ConsoleToldIsStored == Spec => []ToldIsStored
<1>1. IInv => ToldIsStored
  BY DEF IInv
<1> QED BY <1>1, ConsoleInvariant, PTL

\* When the operator waited for the answers, after a success message the page shows what the
\* server has, in every field that the section shows or edits.
THEOREM ConsoleShownIsStored == Spec => []ShownIsStored
BY ConsoleInvariant, ShownFollows, PTL

\* upsertAdminProduct and the deletions of the local draft leave no price template behind its
\* product.
THEOREM DraftPricesHaveProducts == Spec => []PricesHaveProducts
<1>1. IInv => PricesHaveProducts
  BY DEF IInv
<1> QED BY <1>1, ConsoleInvariant, PTL
=============================================================================

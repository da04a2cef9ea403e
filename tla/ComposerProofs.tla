--------------------------- MODULE ComposerProofs ---------------------------
(***************************************************************************)
(* Layers, edits and windows, for any number of tasks, windows and         *)
(* addresses: no layer is used after its destruction, a clean composer has *)
(* shown everything, and no half-made edit is ever drawn.                  *)
(***************************************************************************)
EXTENDS Composer, FiniteSetTheorems, TLAPS

\* The array holds every layer once, the console and the cursor always.
Stacked ==
  /\ \A i, j \in DOMAIN layers : layers[i] = layers[j] => i = j
  /\ Present(Console) /\ Present(Cursor)

\* What a task inside a call works on is its own.
Held ==
  \A t \in Tasks :
    /\ held[t] # None <=> pc[t] \in {"write", "end"}
    /\ slot[t] # None <=> pc[t] = "close"
    /\ slot[t] # None => _window_ok(t, slot[t])
    /\ held[t] # None => \/ t = Terminal /\ held[t] = Console
                         \/ \E i \in Slot : _window_ok(t, i) /\ windows[i].layer = held[t]

Windowed ==
  /\ \A i \in Slot : windows[i].active =>
       windows[i].owner_pid \in Users /\ windows[i].layer \in Addresses
  /\ \A i \in Open : Present(windows[i].layer)
  /\ \A i, j \in Open : windows[i].layer = windows[j].layer => i = j

\* A layer outside edits: the next one will put back what the picture shows.
Calm(l) ==
  /\ layer[l].busy_lock = 0
  /\ "BUSY" \notin layer[l].flags
  /\ layer[l].buff = written[l] /\ committed[l] = written[l]
  /\ layer[l].buff2 = back[l]
  /\ "DIRTY" \notin layer[l].flags => layer[l].buff2 = layer[l].buff

\* A layer under its one edit, which only buff2 shows.
Busy(l) ==
  /\ layer[l].busy_lock = 1
  /\ {"BUSY", "DIRTY"} \subseteq layer[l].flags
  /\ layer[l].buff = back[l]
  /\ layer[l].buff2.put = written[l].put

Buffers ==
  /\ \A l \in InArray : IF Editors(l) = {} THEN Calm(l) ELSE Busy(l)
  /\ \A t \in Tasks : pc[t] = "end" => layer[held[t]].buff2.own = Torn

\* Nothing is left of a layer that has been destroyed.
Fresh ==
  \A l \in Layer \ InArray :
    back[l] = Black /\ written[l] = Black /\ committed[l] = Black /\ l \notin moved

ComposerInv ==
  TypeOK /\ Stacked /\ Held /\ Windowed /\ Buffers /\ Fresh /\ CleanMeansShown

---------------------------------------------------------------------------
(* What the operations of a layer do to its record.                        *)

\* A picture is a content none of whose parts is torn.
LEMMA Pictures == Picture \subseteq Content /\ Black \in Picture /\ Torn \notin {0, 1}
BY DEF Picture, Content, Black, Torn

\* composer.c:35-49 for an outermost edit: the buffers change places.
LEMMA Begun ==
  ASSUME NEW r \in LayerRecord, r.busy_lock = 0
  PROVE  /\ layer_begin_edit(r) \in LayerRecord
         /\ layer_begin_edit(r).buff = r.buff2 /\ layer_begin_edit(r).buff2 = r.buff
         /\ layer_begin_edit(r).busy_lock = 1
         /\ layer_begin_edit(r).flags = r.flags \union {"BUSY", "DIRTY"}
<1> DEFINE s == Swapped(r)
           e == [s EXCEPT !.flags = @ \union {"BUSY", "DIRTY"}]
<1>1. /\ s \in LayerRecord /\ s.busy_lock = 0 /\ s.flags = r.flags
      /\ s.buff = r.buff2 /\ s.buff2 = r.buff
  BY DEF Swapped, LayerRecord
<1>2. /\ e \in LayerRecord /\ e.busy_lock = 0 /\ e.flags = r.flags \union {"BUSY", "DIRTY"}
      /\ e.buff = r.buff2 /\ e.buff2 = r.buff
  <2> HIDE DEF s
  <2> QED BY <1>1 DEF LayerRecord
<1>3. layer_begin_edit(r) = [e EXCEPT !.busy_lock = @ + 1] BY DEF layer_begin_edit
<1> HIDE DEF e
<1> QED BY <1>2, <1>3 DEF LayerRecord

\* An inner edit only counts.
LEMMA Nested ==
  ASSUME NEW r \in LayerRecord, r.busy_lock = 1
  PROVE  layer_begin_edit(r) = [r EXCEPT !.busy_lock = 2]
BY DEF layer_begin_edit, LayerRecord

\* composer.c:51-66 for an outermost edit: the buffers change places again.
LEMMA Ended ==
  ASSUME NEW r \in LayerRecord, r.busy_lock = 1
  PROVE  /\ layer_end_edit(r) \in LayerRecord
         /\ layer_end_edit(r).buff = r.buff2 /\ layer_end_edit(r).buff2 = r.buff
         /\ layer_end_edit(r).busy_lock = 0
         /\ layer_end_edit(r).flags = r.flags \ {"BUSY"}
<1> DEFINE d == [r EXCEPT !.busy_lock = @ - 1]
           s == Swapped(d)
<1>1. /\ d \in LayerRecord /\ d.busy_lock = 0 /\ d.flags = r.flags
      /\ d.buff = r.buff /\ d.buff2 = r.buff2
  BY DEF LayerRecord
<1>2. /\ s \in LayerRecord /\ s.busy_lock = 0 /\ s.flags = r.flags
      /\ s.buff = r.buff2 /\ s.buff2 = r.buff
  <2> HIDE DEF d
  <2> QED BY <1>1 DEF LayerRecord, Swapped
<1>3. layer_end_edit(r) = [s EXCEPT !.flags = @ \ {"BUSY"}] BY <1>1 DEF layer_end_edit
<1> HIDE DEF s
<1> QED BY <1>2, <1>3 DEF LayerRecord

\* The end of an inner edit only counts.
LEMMA EndedInner ==
  ASSUME NEW r \in LayerRecord, r.busy_lock = 2
  PROVE  layer_end_edit(r) = [r EXCEPT !.busy_lock = 1]
BY DEF layer_end_edit, LayerRecord

\* composer.c:151-179 brings buff2 up to date, of a DIRTY layer outside edits.
LEMMA Composed ==
  ASSUME NEW r \in LayerRecord
  PROVE  /\ composer_compose_layer(r) \in LayerRecord
         /\ composer_compose_layer(r).buff = r.buff
         /\ composer_compose_layer(r).busy_lock = r.busy_lock
         /\ \A f \in {"PRESENT", "BUSY"} : f \in composer_compose_layer(r).flags <=> f \in r.flags
         /\ "BUSY" \in r.flags => composer_compose_layer(r) = r
         /\ "BUSY" \notin r.flags /\ "DIRTY" \in r.flags =>
              composer_compose_layer(r).buff2 = r.buff
         /\ "DIRTY" \notin r.flags => composer_compose_layer(r) = r
BY DEF composer_compose_layer, LayerRecord

---------------------------------------------------------------------------
(* Types.                                                                  *)

\* The names of tasks, layers and slots, as the assumption keeps them apart.
LEMMA Names ==
  /\ Console \in Layer /\ Cursor \in Layer /\ Console # Cursor
  /\ None \notin Layer /\ None \notin Slot /\ None \notin Users
  /\ Terminal \in Tasks /\ Terminal \notin Users /\ composer_task \in Tasks /\ int_worker \in Tasks
  /\ \A l \in Addresses : l \in Layer /\ l # Console /\ l # Cursor
  /\ Users \subseteq Tasks
BY ComposerAssumption DEF Layer, Slot, Tasks

\* The array holds layers.
LEMMA InArrayLayers ==
  ASSUME TypeOK
  PROVE  InArray \subseteq Layer
BY DEF TypeOK, InArray

\* A new layer is black on both sides, and so is what is left of a freed one.
LEMMA NewLayers ==
  ASSUME NEW z \in Int
  PROVE  /\ NewLayer(z) \in LayerRecord
         /\ NewLayer(z).buff = Black /\ NewLayer(z).buff2 = Black /\ NewLayer(z).busy_lock = 0
         /\ NewLayer(z).flags = {"PRESENT"}
         /\ Destroyed \in LayerRecord
BY Pictures DEF NewLayer, LayerRecord, Destroyed

\* A function on 1 .. n is a sequence.
LEMMA Sequences ==
  ASSUME NEW n \in Nat, NEW S, NEW f \in [1 .. n -> S]
  PROVE  f \in Seq(S)
OBVIOUS

\* What is left of the array is a sequence, of the layers that are present.
LEMMA Resorted ==
  ASSUME TypeOK, NEW kept, kept = {l \in InArray : Present(l)}, layers' \in Sorted(kept)
  PROVE  /\ layers' \in Seq(Layer)
         /\ InArray' = kept
         /\ \A i, j \in DOMAIN layers' : layers'[i] = layers'[j] => i = j
<1>1. IsFiniteSet(DOMAIN layers)
  <2>1. DOMAIN layers = 1 .. Len(layers) /\ Len(layers) \in Nat BY DEF TypeOK
  <2> QED BY <2>1, FS_Interval
<1>2. IsFiniteSet(InArray)
  <2> DEFINE f == [i \in DOMAIN layers |-> layers[i]]
  <2>1. f \in Surjection(DOMAIN layers, InArray) BY DEF Surjection, InArray
  <2> QED BY <1>1, <2>1, FS_Surjection
<1>3. IsFiniteSet(kept) BY <1>2, FS_Subset
<1>4. Cardinality(kept) \in Nat BY <1>3, FS_CardinalityType
<1>5. layers' \in [1 .. Cardinality(kept) -> kept] BY DEF Sorted
<1>6. layers' \in Seq(Layer)
  <2>1. kept \subseteq Layer BY InArrayLayers
  <2>2. layers' \in [1 .. Cardinality(kept) -> Layer] BY <1>5, <2>1
  <2> QED BY <1>4, <2>2, Sequences
<1>7. InArray' = kept BY <1>5 DEF Sorted, InArray
<1> QED BY <1>6, <1>7 DEF Sorted

\* The types hold after the boot.
LEMMA TypeInit == Init => TypeOK
<1> SUFFICES ASSUME Init PROVE TypeOK OBVIOUS
<1>1. layer \in [Layer -> LayerRecord] BY NewLayers DEF Init
<1>2. layers \in Seq(Layer) /\ order \in Seq(Layer \union {None}) BY Names DEF Init
<1>3. windows \in [Slot -> [active : BOOLEAN, owner_pid : Users \union {None},
                            layer : Addresses \union {None}]]
  BY DEF Init, Free
<1>4. pc \in [Tasks -> Place] BY DEF Init, Place
<1> QED BY <1>1, <1>2, <1>3, <1>4, Pictures DEF Init, TypeOK

---------------------------------------------------------------------------
(* Who works on what.                                                      *)

\* The editors of a layer are those that hold it.
LEMMA EditorsHold ==
  ASSUME Held, NEW l \in Layer
  PROVE  Editors(l) = {t \in Tasks : held[t] = l}
BY Names DEF Held, Editors

\* The windows that are not being closed, by slot.
LEMMA OpenWindows ==
  ASSUME Held
  PROVE  Open = {i \in Slot : windows[i].active /\ \A t \in Tasks : slot[t] # i}
BY Names DEF Held, Open, At

\* EditorsHold in the next state.
LEMMA EditorsHoldNext ==
  ASSUME Held', NEW l \in Layer
  PROVE  Editors(l)' = {t \in Tasks : held'[t] = l}
BY Names DEF Held, Editors

\* OpenWindows in the next state.
LEMMA OpenWindowsNext ==
  ASSUME Held'
  PROVE  Open' = {i \in Slot : windows'[i].active /\ \A t \in Tasks : slot'[t] # i}
BY Names DEF Held, Open, At

\* A window is open for its owner, who is not closing it.
LEMMA OwnOpen ==
  ASSUME TypeOK, Held, NEW t \in Tasks, NEW i \in Slot, _window_ok(t, i), pc[t] # "close"
  PROVE  i \in Open
<1>1. \A u \in Tasks : slot[u] # i
  <2> SUFFICES ASSUME NEW u \in Tasks, slot[u] = i PROVE FALSE OBVIOUS
  <2>1. slot[u] # None BY Names
  <2>2. _window_ok(u, i) /\ pc[u] = "close" BY <2>1 DEF Held
  <2> QED BY <2>2 DEF _window_ok
<1> QED BY <1>1, OpenWindows DEF _window_ok

\* A layer under edit is in the array and PRESENT, and is not the cursor.
LEMMA HeldPresent ==
  ASSUME TypeOK, Stacked, Held, Windowed, NEW t \in Tasks, held[t] # None
  PROVE  Present(held[t]) /\ held[t] \in InArray /\ held[t] \in Layer /\ held[t] # Cursor
<1>1. pc[t] # "close" BY DEF Held
<1>2. CASE held[t] = Console BY <1>2, Names DEF Stacked, Present
<1>3. ASSUME NEW i \in Slot, _window_ok(t, i), windows[i].layer = held[t]
      PROVE  Present(held[t]) /\ held[t] # Cursor
  BY <1>1, <1>3, OwnOpen, Names DEF Windowed, _window_ok
<1>4. Present(held[t]) /\ held[t] # Cursor BY <1>2, <1>3, Names DEF Held
<1> QED BY <1>4, InArrayLayers DEF Present

\* A layer is edited by at most one task outside the locked sections.
LEMMA OneEditor ==
  ASSUME TypeOK, Held, Windowed, NEW t \in Tasks, NEW u \in Tasks,
         held[t] # None, held[t] = held[u]
  PROVE  t = u
<1>1. pc[t] # "close" /\ pc[u] # "close" BY DEF Held
<1>2. CASE held[t] = Console
  <2>1. \A i \in Slot : windows[i].active => windows[i].layer # Console BY Names DEF Windowed
  <2>2. \A v \in Tasks : held[v] = Console => v = Terminal
    BY <2>1, Names DEF Held, _window_ok
  <2> QED BY <1>2, <2>2
<1>3. CASE held[t] # Console
  <2>1. PICK i \in Slot : _window_ok(t, i) /\ windows[i].layer = held[t] BY <1>3 DEF Held
  <2>2. PICK j \in Slot : _window_ok(u, j) /\ windows[j].layer = held[u] BY <1>3 DEF Held
  <2>3. i \in Open /\ j \in Open BY <1>1, <2>1, <2>2, OwnOpen
  <2>4. i = j BY <2>1, <2>2, <2>3 DEF Windowed
  <2> QED BY <2>1, <2>2, <2>4 DEF _window_ok
<1> QED BY <1>2, <1>3

\* A task that starts an edit finds the layer free.
LEMMA Unedited ==
  ASSUME TypeOK, Held, Windowed, NEW t \in Tasks, pc[t] = "run"
  PROVE  /\ t = Terminal => Editors(Console) = {}
         /\ \A i \in Slot : _window_ok(t, i) =>
              Present(windows[i].layer) /\ windows[i].layer \in Layer
              /\ Editors(windows[i].layer) = {}
<1>1. ASSUME t = Terminal PROVE Editors(Console) = {}
  <2> SUFFICES ASSUME NEW u \in Tasks, held[u] = Console PROVE FALSE BY EditorsHold, Names
  <2>1. \A i \in Slot : windows[i].active => windows[i].layer # Console BY Names DEF Windowed
  <2>2. u = Terminal BY <2>1, Names DEF Held, _window_ok
  <2> QED BY <1>1, <2>2, Names DEF Held
<1>2. ASSUME NEW i \in Slot, _window_ok(t, i)
      PROVE  /\ Present(windows[i].layer) /\ windows[i].layer \in Layer
             /\ Editors(windows[i].layer) = {}
  <2>1. i \in Open BY <1>2, OwnOpen
  <2>2. Present(windows[i].layer) /\ windows[i].layer \in Addresses
    BY <1>2, <2>1 DEF Windowed, _window_ok
  <2>3. ASSUME NEW u \in Tasks, held[u] = windows[i].layer PROVE FALSE
    <3>1. held[u] # None /\ held[u] # Console BY <2>2, <2>3, Names
    <3>2. PICK j \in Slot : _window_ok(u, j) /\ windows[j].layer = held[u] BY <3>1 DEF Held
    <3>3. pc[u] \in {"write", "end"} BY <3>1 DEF Held
    <3>4. j \in Open BY <3>2, <3>3, OwnOpen
    <3>5. i = j BY <2>1, <2>3, <3>2, <3>4 DEF Windowed
    <3> QED BY <1>2, <3>2, <3>3, <3>5 DEF _window_ok
  <2> QED BY <2>2, <2>3, EditorsHold, Names
<1> QED BY <1>1, <1>2

---------------------------------------------------------------------------
(* The invariant, action by action.                                        *)

\* Steps that change only places outside edits, layers_dirty, moved and behind.
LEMMA QuietKeeps ==
  ASSUME ComposerInv,
         UNCHANGED <<layer, layers, windows, held, slot, back, order, history>>,
         pc' \in [Tasks -> Place],
         \A t \in Tasks : pc'[t] = pc[t] \/ {pc[t], pc'[t]} \intersect {"write", "end", "close"} = {},
         layers_dirty' \in BOOLEAN, behind' \in BOOLEAN, moved' \subseteq InArray,
         CleanMeansShown'
  PROVE  ComposerInv'
<1>1. TypeOK' BY InArrayLayers DEF ComposerInv, TypeOK, history
<1>2. InArray' = InArray BY DEF InArray
<1>3. Stacked' BY <1>2 DEF ComposerInv, Stacked, Present
<1>4. Held' BY DEF ComposerInv, Held, _window_ok
<1>5. Open' = Open BY <1>4, OpenWindows, OpenWindowsNext DEF ComposerInv
<1>6. Windowed' BY <1>2, <1>5 DEF ComposerInv, Windowed, Present
<1>7. \A l \in Layer : Editors(l)' = Editors(l) BY <1>4, EditorsHold, EditorsHoldNext DEF ComposerInv
<1>8. Buffers'
  <2>1. \A l \in InArray : IF Editors(l)' = {} THEN Calm(l)' ELSE Busy(l)'
    BY <1>7, InArrayLayers DEF ComposerInv, Buffers, Calm, Busy, history
  <2>2. \A t \in Tasks : pc'[t] = "end" => pc[t] = "end" OBVIOUS
  <2> QED BY <1>2, <2>1, <2>2 DEF ComposerInv, Buffers
<1>9. Fresh' BY <1>2 DEF ComposerInv, Fresh, history
<1> QED BY <1>1, <1>3, <1>4, <1>6, <1>8, <1>9 DEF ComposerInv

\* The places of a step that starts or ends outside edits.
LEMMA Steps ==
  ASSUME TypeOK, NEW t \in Tasks, NEW p \in Place, Goto(t, p)
  PROVE  /\ pc' \in [Tasks -> Place]
         /\ \A u \in Tasks : pc'[u] = IF u = t THEN p ELSE pc[u]
BY DEF TypeOK, Goto

\* The steps that QuietKeeps is about.
LEMMA QuietStep ==
  ASSUME ComposerInv,
         NEW t \in Tasks,
         \/ sys_kill(t) \/ Spawn(t) \/ layer_set_z_index(t) \/ framebuffer_flush(t)
         \/ \E i \in Slot : sys_win_move(t, i)
         \/ mouse_cursor_move \/ CursorMove \/ composer_task_wakes
         \/ UNCHANGED vars
  PROVE  ComposerInv'
<1> USE Names DEF At
<1>0. /\ {"run", "dead", "mark", "present", "move", "prepare"} \subseteq Place
      /\ pc \in [Tasks -> Place] /\ moved \subseteq InArray
      /\ layers_dirty \in BOOLEAN /\ behind \in BOOLEAN
  BY DEF Place, ComposerInv, TypeOK, Fresh
<1>1. CASE sys_kill(t) \/ Spawn(t) \/ composer_task_wakes
  <2>1. PICK u \in Tasks, p \in {"run", "dead", "prepare"} :
          Goto(u, p) /\ pc[u] \in {"run", "dead"}
    BY <1>1 DEF sys_kill, Spawn, composer_task_wakes
  <2>2. UNCHANGED <<layer, layers, layers_dirty, windows, held, slot, screen, history>>
    BY <1>1 DEF sys_kill, Spawn, composer_task_wakes
  <2>3. \A v \in Tasks : pc'[v] = IF v = u THEN p ELSE pc[v]
    BY <2>1, Steps, <1>0 DEF ComposerInv
  <2>4. CleanMeansShown'
    <3>1. \A l \in Layer : CursorMoving(l)' = CursorMoving(l)
      BY <2>1, <2>3 DEF CursorMoving
    <3>2. \A l \in Layer : Editors(l)' = Editors(l) BY <2>1, <2>2, <2>3 DEF Editors
    <3>3. InArray' = InArray /\ InArray \subseteq Layer
      BY <2>2, InArrayLayers DEF InArray, ComposerInv
    <3> QED BY <2>1, <2>2, <2>3, <3>1, <3>2, <3>3
        DEF ComposerInv, CleanMeansShown, Present, screen, history
  <2>5. pc' \in [Tasks -> Place] BY <2>1, Steps, <1>0 DEF ComposerInv
  <2> QED BY <1>0, <2>1, <2>2, <2>3, <2>4, <2>5, QuietKeeps DEF screen
<1>2. CASE UNCHANGED vars
  BY <1>0, <1>2, QuietKeeps
  DEF vars, screen, history, places, ComposerInv, CleanMeansShown, CursorMoving, Present,
      InArray, Editors
<1>3. ASSUME layers_dirty', UNCHANGED <<layer, layers, windows, held, slot, back, order, behind, history>>,
             NEW u \in Tasks, NEW p \in Place, Goto(u, p),
             {pc[u], p} \intersect {"write", "end", "close", "present"} = {},
             moved' \subseteq InArray, layers_dirty' \in BOOLEAN
      PROVE  ComposerInv'
  <2>1. /\ pc' \in [Tasks -> Place]
        /\ \A v \in Tasks : pc'[v] = IF v = u THEN p ELSE pc[v]
    BY <1>0, <1>3, Steps DEF ComposerInv
  <2>2. CleanMeansShown' BY <1>3, <2>1 DEF ComposerInv, CleanMeansShown
  <2> QED BY <1>0, <1>3, <2>1, <2>2, QuietKeeps
<1>4. CASE layer_set_z_index(t) BY <1>0, <1>3, <1>4 DEF layer_set_z_index, screen
<1>5. ASSUME NEW i \in Slot, sys_win_move(t, i) PROVE ComposerInv'
  <2>1. Present(windows[i].layer) BY <1>5, Unedited DEF sys_win_move, ComposerInv
  <2>2. layers_dirty' = TRUE /\ moved' = moved \union {windows[i].layer}
    BY <1>5, <2>1 DEF sys_win_move, layer_move, Present
  <2>3. CleanMeansShown' BY <1>5, <2>2 DEF ComposerInv, CleanMeansShown, sys_win_move, places
  <2> QED BY <1>0, <1>5, <2>1, <2>2, <2>3, QuietKeeps DEF sys_win_move, places, Present
<1>6. Present(Cursor) BY DEF ComposerInv, Stacked
<1>7. CASE CursorMove
  <2>1. layers_dirty' = TRUE /\ moved' = moved \union {Cursor}
    BY <1>6, <1>7 DEF CursorMove, layer_move, Present
  <2> QED BY <1>0, <1>3, <1>6, <1>7, <2>1 DEF CursorMove, Present
<1>8. CASE mouse_cursor_move
  <2>1. \A u \in Tasks : pc'[u] = IF u = int_worker THEN "move" ELSE pc[u]
    BY <1>0, <1>8, Steps DEF mouse_cursor_move, ComposerInv
  <2>2. pc' \in [Tasks -> Place] BY <1>0, <1>8, Steps DEF mouse_cursor_move, ComposerInv
  <2>3. CleanMeansShown'
    <3>1. \A l \in Layer : Editors(l)' = Editors(l) BY <1>8, <2>1 DEF Editors, mouse_cursor_move
    <3>2. InArray' = InArray /\ InArray \subseteq Layer
      BY <1>8, InArrayLayers DEF InArray, ComposerInv, mouse_cursor_move
    <3>3. \A l \in moved' : l # Cursor => l \in moved BY <1>8 DEF mouse_cursor_move
    <3>4. \A l \in Layer : ~CursorMoving(l) \/ l = Cursor BY DEF CursorMoving
    <3>5. CursorMoving(Cursor)' BY <2>1 DEF CursorMoving
    <3> QED BY <1>8, <2>1, <3>1, <3>2, <3>3, <3>4, <3>5
        DEF ComposerInv, CleanMeansShown, Present, mouse_cursor_move, history
  <2> QED BY <1>0, <1>6, <1>8, <2>1, <2>2, <2>3, QuietKeeps DEF mouse_cursor_move, Present
<1>9. CASE framebuffer_flush(t)
  <2>1. /\ pc' \in [Tasks -> Place]
        /\ \A u \in Tasks : pc'[u] = IF u = t THEN "run" ELSE pc[u]
    BY <1>0, <1>9, Steps DEF framebuffer_flush, ComposerInv
  <2>2. CleanMeansShown'
    <3>1. \A l \in Layer : Editors(l)' = Editors(l) BY <1>9, <2>1 DEF Editors, framebuffer_flush
    <3>2. InArray' = InArray /\ InArray \subseteq Layer
      BY <1>9, InArrayLayers DEF InArray, ComposerInv, framebuffer_flush
    <3>3. \A l \in Layer : CursorMoving(l)' = CursorMoving(l)
      BY <1>9, <2>1 DEF CursorMoving, framebuffer_flush
    <3> QED BY <1>9, <3>1, <3>2, <3>3
        DEF ComposerInv, CleanMeansShown, Present, framebuffer_flush, history
  <2> QED BY <1>0, <1>9, <2>1, <2>2, QuietKeeps DEF framebuffer_flush
<1> QED BY <1>1, <1>2, <1>4, <1>5, <1>7, <1>8, <1>9

\* Steps that leave the array, the windows and who holds what as they are.
LEMMA FrameKeeps ==
  ASSUME ComposerInv, UNCHANGED <<layers, windows, held, slot>>,
         \A t \in Tasks : /\ pc'[t] \in {"write", "end"} <=> pc[t] \in {"write", "end"}
                          /\ pc'[t] = "close" <=> pc[t] = "close",
         \A l \in Layer : "PRESENT" \in layer'[l].flags <=> "PRESENT" \in layer[l].flags
  PROVE  /\ InArray' = InArray
         /\ \A l \in Layer : Present(l)' = Present(l)
         /\ Stacked' /\ Held' /\ Windowed'
         /\ \A l \in Layer : Editors(l)' = Editors(l)
<1>1. InArray' = InArray BY DEF InArray
<1>2. \A l \in Layer : Present(l)' = Present(l) BY <1>1 DEF Present
<1>3. Stacked' BY <1>2, Names DEF ComposerInv, Stacked
<1>4. Held' BY DEF ComposerInv, Held, _window_ok
<1>5. Open' = Open BY <1>4, OpenWindows, OpenWindowsNext DEF ComposerInv
<1>6. Windowed'
  <2>1. \A j \in Open : windows[j].active BY DEF Open
  <2>2. \A j \in Open : windows[j].layer \in Layer
    BY <2>1, Names DEF ComposerInv, Windowed, Open
  <2> QED BY <1>2, <1>5, <2>2 DEF ComposerInv, Windowed
<1>7. \A l \in Layer : Editors(l)' = Editors(l)
  BY <1>4, EditorsHold, EditorsHoldNext DEF ComposerInv
<1> QED BY <1>1, <1>2, <1>3, <1>4, <1>6, <1>7

\* sys_win_set_z.
LEMMA SetZStep ==
  ASSUME ComposerInv, NEW t \in Tasks, NEW i \in Slot, sys_win_set_z(t, i)
  PROVE  ComposerInv'
<1> USE Names DEF At
<1>1. PICK z \in ZIndices : layer' = [layer EXCEPT ![windows[i].layer].z_index = z]
  BY DEF sys_win_set_z
<1>2. z \in Int BY ComposerAssumption
<1> DEFINE w == windows[i].layer
           z_set(r) == [r EXCEPT !.z_index = z]
<1>0. \A r \in LayerRecord :
        /\ z_set(r) \in LayerRecord /\ z_set(r).flags = r.flags
        /\ z_set(r).buff = r.buff /\ z_set(r).buff2 = r.buff2
        /\ z_set(r).busy_lock = r.busy_lock
  BY <1>2 DEF LayerRecord
<1>01. \A l \in Layer : layer[l] \in LayerRecord BY DEF ComposerInv, TypeOK
<1>02. \A l \in Layer : layer'[l] = IF l = w THEN z_set(layer[l]) ELSE layer[l]
  BY <1>1 DEF ComposerInv, TypeOK
<1> HIDE DEF z_set, w
<1>3. \A l \in Layer : /\ layer'[l] \in LayerRecord
                       /\ layer'[l].flags = layer[l].flags
                       /\ layer'[l].buff = layer[l].buff /\ layer'[l].buff2 = layer[l].buff2
                       /\ layer'[l].busy_lock = layer[l].busy_lock
  BY <1>0, <1>01, <1>02
<1>4. layer' \in [Layer -> LayerRecord] BY <1>1, <1>3 DEF ComposerInv, TypeOK
<1>5. /\ pc' \in [Tasks -> Place] /\ pc[t] = "run"
      /\ \A u \in Tasks : pc'[u] = IF u = t THEN "mark" ELSE pc[u]
  BY Steps DEF ComposerInv, sys_win_set_z, Place
<1>6. TypeOK' BY <1>4, <1>5 DEF ComposerInv, TypeOK, sys_win_set_z, screen, history
<1>7. /\ InArray' = InArray /\ InArray \subseteq Layer
      /\ \A l \in Layer : Present(l)' = Present(l)
      /\ Stacked' /\ Held' /\ Windowed'
      /\ \A l \in Layer : Editors(l)' = Editors(l)
  BY <1>3, <1>5, FrameKeeps, InArrayLayers DEF sys_win_set_z, ComposerInv
<1>8. Buffers'
  <2>1. \A l \in InArray : IF Editors(l)' = {} THEN Calm(l)' ELSE Busy(l)'
    BY <1>3, <1>7 DEF ComposerInv, Buffers, Calm, Busy, sys_win_set_z, screen, history
  <2>2. ASSUME NEW u \in Tasks, pc'[u] = "end" PROVE layer'[held'[u]].buff2.own = Torn
    <3>1. pc[u] = "end" /\ held'[u] = held[u] BY <1>5, <2>2 DEF sys_win_set_z
    <3>2. held[u] \in Layer BY <3>1 DEF ComposerInv, TypeOK, Held
    <3> QED BY <1>3, <3>1, <3>2 DEF ComposerInv, Buffers
  <2> QED BY <1>7, <2>1, <2>2 DEF Buffers
<1>9. Fresh' BY <1>7 DEF ComposerInv, Fresh, sys_win_set_z, screen, history
<1>10. CleanMeansShown'
  <2>1. \A l \in Layer : CursorMoving(l)' = CursorMoving(l) BY <1>5 DEF CursorMoving
  <2> QED BY <1>5, <1>7, <2>1
      DEF ComposerInv, CleanMeansShown, sys_win_set_z, screen, history
<1> QED BY <1>6, <1>7, <1>8, <1>9, <1>10 DEF ComposerInv

\* An edit begins on a layer that nobody edits.
LEMMA BeginStep ==
  ASSUME ComposerInv, NEW t \in Tasks, NEW l \in Layer, BeginEdit(t, l), pc[t] = "run",
         Present(l), Editors(l) = {},
         \/ t = Terminal /\ l = Console
         \/ \E i \in Slot : _window_ok(t, i) /\ windows[i].layer = l
  PROVE  ComposerInv'
<1>1. /\ pc' \in [Tasks -> Place]
      /\ \A u \in Tasks : pc'[u] = IF u = t THEN "write" ELSE pc[u]
  BY Steps DEF ComposerInv, BeginEdit, Place
<1>2. \A u \in Tasks : held'[u] = IF u = t THEN l ELSE held[u]
  BY DEF ComposerInv, TypeOK, BeginEdit
<1>3. Calm(l) /\ layer[l] \in LayerRecord BY DEF ComposerInv, Buffers, Present, TypeOK
<1>4. \A k \in Layer : layer'[k] = IF k = l THEN layer_begin_edit(layer[l]) ELSE layer[k]
  BY DEF ComposerInv, TypeOK, BeginEdit
<1>5. /\ layer'[l] \in LayerRecord
      /\ layer'[l].buff = layer[l].buff2 /\ layer'[l].buff2 = layer[l].buff
      /\ layer'[l].busy_lock = 1
      /\ layer'[l].flags = layer[l].flags \union {"BUSY", "DIRTY"}
  BY <1>3, <1>4, Begun DEF Calm
<1>6. TypeOK'
  <2>1. layer' \in [Layer -> LayerRecord]
    BY <1>4, <1>5 DEF ComposerInv, TypeOK, BeginEdit
  <2>2. held' \in [Tasks -> Layer \union {None}] BY DEF ComposerInv, TypeOK, BeginEdit
  <2> QED BY <1>1, <2>1, <2>2 DEF ComposerInv, TypeOK, BeginEdit, screen, history
<1>7. InArray' = InArray /\ InArray \subseteq Layer
  BY InArrayLayers DEF BeginEdit, InArray, ComposerInv
<1>8. \A k \in Layer : Present(k)' = Present(k) BY <1>4, <1>5, <1>7 DEF Present
<1>9. Stacked' BY <1>8, Names DEF ComposerInv, Stacked, BeginEdit
<1>10. Held'
  <2>1. \A u \in Tasks, i \in Slot : _window_ok(u, i)' = _window_ok(u, i)
    BY DEF _window_ok, BeginEdit
  <2>2. windows' = windows /\ slot' = slot BY DEF BeginEdit
  <2>3. ASSUME NEW u \in Tasks
        PROVE  /\ held'[u] # None <=> pc'[u] \in {"write", "end"}
               /\ slot'[u] # None <=> pc'[u] = "close"
               /\ slot'[u] # None => _window_ok(u, slot'[u])
               /\ held'[u] # None =>
                    \/ u = Terminal /\ held'[u] = Console
                    \/ \E i \in Slot : _window_ok(u, i) /\ windows[i].layer = held'[u]
    <3>1. CASE u = t BY <1>1, <1>2, <2>2, <3>1, Names DEF ComposerInv, Held
    <3>2. CASE u # t BY <1>1, <1>2, <2>2, <3>2 DEF ComposerInv, Held
    <3> QED BY <3>1, <3>2
  <2>4. \A u \in Tasks : slot'[u] # None => slot'[u] \in Slot
    BY <2>2 DEF ComposerInv, TypeOK
  <2> QED BY <2>1, <2>2, <2>3, <2>4 DEF Held
<1>11. Windowed'
  <2>1. Open' = Open BY <1>10, OpenWindows, OpenWindowsNext DEF ComposerInv, BeginEdit
  <2>2. \A j \in Open : windows[j].active BY DEF Open
  <2>3. \A j \in Open : windows[j].layer \in Layer
    BY <2>2, Names DEF ComposerInv, Windowed, Open
  <2> QED BY <1>8, <2>1, <2>3 DEF ComposerInv, Windowed, BeginEdit
<1>12. Editors(l)' = {t} /\ \A k \in Layer \ {l} : Editors(k)' = Editors(k)
  <2>1. held[t] = None BY DEF ComposerInv, Held
  <2>2. \A u \in Tasks : held[u] # l BY EditorsHold DEF ComposerInv
  <2>3. Editors(l)' = {t} BY <1>2, <1>10, <2>2, EditorsHoldNext
  <2>4. \A k \in Layer \ {l} : Editors(k)' = Editors(k)
    BY <1>2, <1>10, <2>1, Names, EditorsHold, EditorsHoldNext DEF ComposerInv
  <2> QED BY <2>3, <2>4
<1>13. Buffers'
  <2>1. Busy(l)' BY <1>3, <1>5 DEF Busy, Calm, BeginEdit, screen, history
  <2>2. \A k \in InArray \ {l} : IF Editors(k)' = {} THEN Calm(k)' ELSE Busy(k)'
    BY <1>4, <1>7, <1>12 DEF ComposerInv, Buffers, Calm, Busy, BeginEdit, screen, history
  <2>3. ASSUME NEW u \in Tasks, pc'[u] = "end" PROVE layer'[held'[u]].buff2.own = Torn
    <3>1. pc[u] = "end" /\ held'[u] = held[u] BY <1>1, <1>2, <2>3
    <3>2. held[u] \in Layer /\ held[u] # l
      <4>1. held[u] # None BY <3>1 DEF ComposerInv, Held
      <4> QED BY <4>1, EditorsHold DEF ComposerInv, TypeOK
    <3> QED BY <1>4, <3>1, <3>2 DEF ComposerInv, Buffers
  <2> QED BY <1>7, <1>12, <2>1, <2>2, <2>3 DEF Buffers
<1>14. Fresh' BY <1>7 DEF ComposerInv, Fresh, BeginEdit, screen, history
<1>15. CleanMeansShown'
  <2>1. \A k \in Layer : CursorMoving(k)' = CursorMoving(k) BY <1>1, Names DEF CursorMoving, At
  <2>2. \A u \in Tasks : At(u, "present") => At(u, "present")' BY <1>1 DEF At
  <2> QED BY <1>7, <1>8, <1>12, <2>1, <2>2
      DEF ComposerInv, CleanMeansShown, BeginEdit, screen, history
<1> QED BY <1>6, <1>9, <1>10, <1>11, <1>13, <1>14, <1>15 DEF ComposerInv

\* Both callers of BeginEdit.
LEMMA BeginSteps ==
  ASSUME ComposerInv, NEW t \in Tasks,
         konsole_redraw_from_history \/ \E i \in Slot : sys_win_commit(t, i)
  PROVE  ComposerInv'
<1>1. CASE konsole_redraw_from_history
  <2>1. Editors(Console) = {} BY <1>1, Unedited, Names
        DEF konsole_redraw_from_history, At, ComposerInv
  <2> QED BY <1>1, <2>1, BeginStep, Names DEF konsole_redraw_from_history, At, ComposerInv, Stacked
<1>2. ASSUME NEW i \in Slot, sys_win_commit(t, i) PROVE ComposerInv'
  BY <1>2, BeginStep, Unedited DEF sys_win_commit, At, ComposerInv
<1> QED BY <1>1, <1>2

\* A record is its fields.
LEMMA Contents ==
  ASSUME NEW c \in Content, NEW w \in Picture
  PROVE  /\ c.own = w.own /\ c.put = w.put => c = w
         /\ Flip(w.own) \in {0, 1} /\ Flip(w.put) \in {0, 1}
BY DEF Content, Picture, Torn, Flip

\* A layer with one part of buff2 overwritten.
OwnSet(r, v) == [r EXCEPT !.buff2.own = v]
PutSet(r, v) == [r EXCEPT !.buff2.put = v]

\* What a write into a part of buff2 leaves.
LEMMA Overwritten ==
  ASSUME NEW r \in LayerRecord, NEW v \in {0, 1, Torn}, NEW p \in {0, 1}
  PROVE  /\ OwnSet(r, v) \in LayerRecord /\ PutSet(r, p) \in LayerRecord
         /\ OwnSet(r, v).buff2.own = v /\ OwnSet(r, v).buff2.put = r.buff2.put
         /\ PutSet(r, p).buff2.put = p /\ PutSet(r, p).buff2.own = r.buff2.own
         /\ OwnSet(r, v).buff = r.buff /\ PutSet(r, p).buff = r.buff
         /\ OwnSet(r, v).flags = r.flags /\ PutSet(r, p).flags = r.flags
         /\ OwnSet(r, v).busy_lock = r.busy_lock /\ PutSet(r, p).busy_lock = r.busy_lock
         /\ r.buff \in Content /\ r.buff2 \in Content
BY DEF OwnSet, PutSet, LayerRecord, Content

\* WriteHalf.
LEMMA WriteStep ==
  ASSUME ComposerInv, NEW t \in Tasks, WriteHalf(t)
  PROVE  ComposerInv'
<1>1. /\ pc' \in [Tasks -> Place] /\ pc[t] = "write"
      /\ \A u \in Tasks : pc'[u] = IF u = t THEN "end" ELSE pc[u]
  BY Steps DEF ComposerInv, WriteHalf, Place, At
<1>2. PICK l \in Layer : l = held[t] /\ l # None /\ l \in InArray
  BY <1>1, HeldPresent DEF ComposerInv, Held
<1>3. layer[l] \in LayerRecord /\ Torn \in {0, 1, Torn} BY <1>2 DEF ComposerInv, TypeOK
<1>4. \A k \in Layer : layer'[k] = IF k = l THEN OwnSet(layer[l], Torn) ELSE layer[k]
  BY <1>2 DEF WriteHalf, OwnSet, ComposerInv, TypeOK
<1>5. /\ layer'[l] \in LayerRecord /\ layer'[l].buff = layer[l].buff
      /\ layer'[l].buff2.own = Torn /\ layer'[l].buff2.put = layer[l].buff2.put
      /\ layer'[l].flags = layer[l].flags /\ layer'[l].busy_lock = layer[l].busy_lock
  BY <1>2, <1>3, <1>4, Overwritten
<1>6. TypeOK'
  <2>1. layer' = [layer EXCEPT ![l].buff2.own = Torn] BY <1>2 DEF WriteHalf
  <2>2. layer' \in [Layer -> LayerRecord] BY <1>4, <1>5, <2>1 DEF ComposerInv, TypeOK
  <2> QED BY <1>1, <2>2 DEF ComposerInv, TypeOK, WriteHalf, screen, history
<1>7. /\ InArray' = InArray /\ InArray \subseteq Layer
      /\ \A k \in Layer : Present(k)' = Present(k)
      /\ Stacked' /\ Held' /\ Windowed'
      /\ \A k \in Layer : Editors(k)' = Editors(k)
  BY <1>1, <1>4, <1>5, FrameKeeps, InArrayLayers DEF WriteHalf, ComposerInv
<1>8. t \in Editors(l) BY <1>1, <1>2 DEF Editors
<1>9. Buffers'
  <2>1. Busy(l)'
    <3>1. Busy(l) BY <1>2, <1>8 DEF ComposerInv, Buffers
    <3> QED BY <1>5, <3>1 DEF Busy, WriteHalf, screen, history
  <2>2. \A k \in InArray \ {l} : IF Editors(k)' = {} THEN Calm(k)' ELSE Busy(k)'
    BY <1>4, <1>7, ZenonT(60) DEF ComposerInv, Buffers, Calm, Busy, WriteHalf, screen, history
  <2>3. ASSUME NEW u \in Tasks, pc'[u] = "end" PROVE layer'[held'[u]].buff2.own = Torn
    <3>1. held' = held BY DEF WriteHalf
    <3>2. CASE u = t BY <1>2, <1>5, <3>1, <3>2
    <3>3. CASE u # t
      <4>1. pc[u] = "end" BY <1>1, <2>3, <3>3
      <4>2. held[u] # None /\ held[u] \in Layer BY <4>1 DEF ComposerInv, Held, TypeOK
      <4>3. held[u] # l BY <1>2, <3>3, <4>2, OneEditor DEF ComposerInv
      <4> QED BY <1>4, <3>1, <4>1, <4>2, <4>3 DEF ComposerInv, Buffers
    <3> QED BY <3>2, <3>3
  <2> QED BY <1>7, <1>8, <2>1, <2>2, <2>3 DEF Buffers
<1>10. Fresh' BY <1>7 DEF ComposerInv, Fresh, WriteHalf, screen, history
<1>11. CleanMeansShown'
  <2>1. \A k \in Layer : CursorMoving(k)' = CursorMoving(k) BY <1>1, Names DEF CursorMoving, At
  <2>2. \A u \in Tasks : At(u, "present") => At(u, "present")' BY <1>1 DEF At
  <2> QED BY <1>7, <2>1, <2>2
      DEF ComposerInv, CleanMeansShown, WriteHalf, screen, history
<1> QED BY <1>6, <1>7, <1>9, <1>10, <1>11 DEF ComposerInv

\* EndEdit.
LEMMA EndStep ==
  ASSUME ComposerInv, NEW t \in Tasks, EndEdit(t)
  PROVE  ComposerInv'
<1>1. /\ pc' \in [Tasks -> Place] /\ pc[t] = "end"
      /\ \A u \in Tasks : pc'[u] = IF u = t THEN "run" ELSE pc[u]
  BY Steps DEF ComposerInv, EndEdit, Place, At
<1>2. PICK l \in Layer : l = held[t] /\ l # None /\ Present(l) /\ l \in InArray
  BY <1>1, HeldPresent DEF ComposerInv, Held
<1> DEFINE v == Flip(written[l].own)
           w == [written[l] EXCEPT !.own = v]
           full == [layer[l] EXCEPT !.buff2.own = IF @ = Torn THEN v ELSE Torn]
<1>3. /\ layer[l] \in LayerRecord /\ layer[l].buff2.own = Torn /\ written[l] \in Picture
  BY <1>1, <1>2 DEF ComposerInv, TypeOK, Buffers
<1>4. t \in Editors(l) BY <1>1, <1>2 DEF Editors
<1>5. Busy(l) BY <1>2, <1>4 DEF ComposerInv, Buffers
<1>6. w \in Picture /\ w.own = v /\ w.put = written[l].put /\ v \in {0, 1}
  BY <1>3, Contents DEF Picture, Flip
<1>7. full = OwnSet(layer[l], v) BY <1>3 DEF OwnSet, LayerRecord
<1>8. EndsEdit(l, layer_end_edit(full), w) BY <1>2 DEF EndEdit
<1> HIDE DEF full, w, v
<1>9. /\ full \in LayerRecord /\ full.busy_lock = 1 /\ full.buff = layer[l].buff
      /\ full.buff2 \in Content /\ full.buff2.own = v /\ full.buff2.put = layer[l].buff2.put
      /\ full.flags = layer[l].flags
  BY <1>3, <1>5, <1>6, <1>7, Overwritten DEF Busy
<1>10. full.buff2 = w BY <1>5, <1>6, <1>9, Contents DEF Busy
<1> DEFINE r == layer_end_edit(full)
<1>11. /\ r \in LayerRecord /\ r.buff = w /\ r.buff2 = back[l] /\ r.busy_lock = 0
       /\ r.flags = layer[l].flags \ {"BUSY"}
  BY <1>5, <1>9, <1>10, Ended DEF Busy
<1> HIDE DEF r
<1>12. /\ layer' = [layer EXCEPT ![l] = r] /\ written' = [written EXCEPT ![l] = w]
       /\ committed' = [committed EXCEPT ![l] = w] /\ layers_dirty' = TRUE
  <2>1. "PRESENT" \in r.flags BY <1>2, <1>11 DEF Present
  <2> QED BY <1>8, <1>11, <2>1 DEF EndsEdit, r
<1>13. /\ UNCHANGED <<layers, windows, slot, screen>>
       /\ \A u \in Tasks : held'[u] = IF u = t THEN None ELSE held[u]
       /\ held' \in [Tasks -> Layer \union {None}]
  BY DEF EndEdit, ComposerInv, TypeOK
<1>14. \A k \in Layer : layer'[k] = IF k = l THEN r ELSE layer[k]
  BY <1>12 DEF ComposerInv, TypeOK
<1>15. TypeOK'
  <2>1. layer' \in [Layer -> LayerRecord] BY <1>11, <1>12 DEF ComposerInv, TypeOK
  <2>2. written' \in [Layer -> Picture] /\ committed' \in [Layer -> Picture]
    BY <1>6, <1>12 DEF ComposerInv, TypeOK
  <2> QED BY <1>1, <1>12, <1>13, <2>1, <2>2 DEF ComposerInv, TypeOK, screen
<1>16. InArray' = InArray /\ InArray \subseteq Layer
  BY <1>13, InArrayLayers DEF InArray, ComposerInv
<1>17. \A k \in Layer : Present(k)' = Present(k) BY <1>11, <1>14, <1>16 DEF Present
<1>18. Stacked' BY <1>13, <1>17, Names DEF ComposerInv, Stacked
<1>19. Held'
  <2>1. \A u \in Tasks, i \in Slot : _window_ok(u, i)' = _window_ok(u, i)
    BY <1>13 DEF _window_ok
  <2>2. \A u \in Tasks : slot'[u] # None => slot'[u] \in Slot
    BY <1>13 DEF ComposerInv, TypeOK
  <2> QED BY <1>1, <1>13, <2>1, <2>2 DEF ComposerInv, Held
<1>20. Windowed'
  <2>1. Open' = Open BY <1>13, <1>19, OpenWindows, OpenWindowsNext DEF ComposerInv
  <2>2. \A j \in Open : windows[j].active BY DEF Open
  <2>3. \A j \in Open : windows[j].layer \in Layer
    BY <2>2, Names DEF ComposerInv, Windowed, Open
  <2> QED BY <1>13, <1>17, <2>1, <2>3 DEF ComposerInv, Windowed
<1>21. Editors(l)' = {} /\ \A k \in Layer \ {l} : Editors(k)' = Editors(k)
  <2>1. \A u \in Tasks : held[u] = l => u = t BY <1>2, OneEditor DEF ComposerInv
  <2>2. \A u \in Tasks : held'[u] # l BY <1>2, <1>13, <2>1
  <2>3. \A k \in Layer \ {l}, u \in Tasks : held'[u] = k <=> held[u] = k
    BY <1>2, <1>13, Names
  <2> QED BY <1>2, <1>19, <2>2, <2>3, EditorsHold, EditorsHoldNext DEF ComposerInv
<1>22. Buffers'
  <2>1. Calm(l)'
    <3>1. written'[l] = w /\ committed'[l] = w /\ back'[l] = back[l]
      BY <1>2, <1>12, <1>13 DEF ComposerInv, TypeOK, screen
    <3>2. layer'[l] = r /\ "DIRTY" \in r.flags BY <1>2, <1>5, <1>11, <1>14 DEF Busy
    <3> QED BY <1>11, <3>1, <3>2 DEF Calm
  <2>2. ASSUME NEW k \in InArray \ {l} PROVE IF Editors(k)' = {} THEN Calm(k)' ELSE Busy(k)'
    <3>1. layer'[k] = layer[k] /\ written'[k] = written[k] /\ committed'[k] = committed[k]
          /\ back'[k] = back[k] /\ Editors(k)' = Editors(k)
      BY <1>12, <1>13, <1>14, <1>16, <1>21 DEF ComposerInv, TypeOK, screen
    <3> QED BY <3>1 DEF ComposerInv, Buffers, Calm, Busy
  <2>3. ASSUME NEW u \in Tasks, pc'[u] = "end" PROVE layer'[held'[u]].buff2.own = Torn
    <3>1. u # t /\ pc[u] = "end" /\ held'[u] = held[u] BY <1>1, <1>13, <2>3
    <3>2. held[u] # None /\ held[u] \in Layer BY <3>1 DEF ComposerInv, Held, TypeOK
    <3>3. held[u] # l BY <1>2, <3>1, <3>2, OneEditor DEF ComposerInv
    <3> QED BY <1>14, <3>1, <3>2, <3>3 DEF ComposerInv, Buffers
  <2> QED BY <1>16, <1>21, <2>1, <2>2, <2>3 DEF Buffers
<1>23. Fresh'
  BY <1>2, <1>12, <1>13, <1>16 DEF ComposerInv, Fresh, TypeOK, screen
<1>24. CleanMeansShown'
  <2>1. \A u \in Tasks : At(u, "present") => At(u, "present")' BY <1>1 DEF At
  <2> QED BY <1>12, <1>13, <2>1 DEF ComposerInv, CleanMeansShown, screen
<1> QED BY <1>15, <1>18, <1>19, <1>20, <1>22, <1>23, <1>24 DEF ComposerInv

\* konsole_putch, alone or nested in the terminal's edit.
LEMMA PutchStep ==
  ASSUME ComposerInv, konsole_putch, UNCHANGED <<layers, windows, held, slot, screen>>,
         pc' \in [Tasks -> Place],
         \A u \in Tasks : pc'[u] = pc[u] \/ (pc[u] = "run" /\ pc'[u] = "prepare")
  PROVE  ComposerInv'
<1> DEFINE old == layer[Console]
           w == [written[Console] EXCEPT !.put = Flip(@)]
           begun == layer_begin_edit(old)
           full == [begun EXCEPT !.buff2.put = w.put]
           r == layer_end_edit(full)
<1>1. /\ Console \in Layer /\ Console \in InArray /\ Present(Console)
      /\ old \in LayerRecord /\ written[Console] \in Picture
  BY Names DEF ComposerInv, Stacked, Present, TypeOK
<1>2. w \in Picture /\ w.own = written[Console].own /\ w.put \in {0, 1}
  BY <1>1, Contents DEF Picture, Flip
<1>3. EndsEdit(Console, r, w) BY DEF konsole_putch
<1>4. full = PutSet(begun, w.put) BY DEF PutSet
<1> HIDE DEF full, begun, w, r
<1>5. /\ r \in LayerRecord /\ "PRESENT" \in r.flags
      /\ Editors(Console) = {} =>
           /\ r.busy_lock = 0 /\ "BUSY" \notin r.flags /\ "DIRTY" \in r.flags
           /\ r.buff = w /\ r.buff2 = back[Console]
      /\ Editors(Console) # {} =>
           /\ r.busy_lock = 1 /\ {"BUSY", "DIRTY"} \subseteq r.flags
           /\ r.buff = old.buff /\ r.buff2.put = w.put /\ r.buff2.own = old.buff2.own
  <2>1. CASE Editors(Console) = {}
    <3>1. Calm(Console) BY <1>1, <2>1 DEF ComposerInv, Buffers
    <3>2. /\ begun \in LayerRecord /\ begun.busy_lock = 1
          /\ begun.buff = back[Console] /\ begun.buff2 = written[Console]
          /\ begun.flags = old.flags \union {"BUSY", "DIRTY"}
      BY <1>1, <3>1, Begun DEF Calm, begun
    <3>3. /\ full \in LayerRecord /\ full.busy_lock = 1 /\ full.buff = back[Console]
          /\ full.buff2 \in Content /\ full.buff2.put = w.put
          /\ full.buff2.own = written[Console].own
          /\ full.flags = old.flags \union {"BUSY", "DIRTY"}
      <4>1. 0 \in {0, 1, Torn} OBVIOUS
      <4> QED BY <1>2, <1>4, <3>2, <4>1, Overwritten
    <3>4. full.buff2 = w BY <1>2, <3>3, Contents
    <3>5. /\ r \in LayerRecord /\ r.busy_lock = 0 /\ r.buff = w /\ r.buff2 = back[Console]
          /\ r.flags = (old.flags \union {"BUSY", "DIRTY"}) \ {"BUSY"}
      BY <3>3, <3>4, Ended DEF r
    <3> QED BY <1>1, <2>1, <3>5 DEF Present
  <2>2. CASE Editors(Console) # {}
    <3>1. Busy(Console) BY <1>1, <2>2 DEF ComposerInv, Buffers
    <3>2. /\ begun \in LayerRecord /\ begun.busy_lock = 2 /\ begun.buff = old.buff
          /\ begun.buff2 = old.buff2 /\ begun.flags = old.flags
      <4>1. begun = [old EXCEPT !.busy_lock = 2] BY <1>1, <3>1, Nested DEF Busy, begun
      <4> QED BY <1>1, <4>1 DEF LayerRecord
    <3>3. /\ full \in LayerRecord /\ full.busy_lock = 2 /\ full.buff = old.buff
          /\ full.buff2.put = w.put /\ full.buff2.own = old.buff2.own /\ full.flags = old.flags
      <4>1. 0 \in {0, 1, Torn} OBVIOUS
      <4> QED BY <1>2, <1>4, <3>2, <4>1, Overwritten
    <3>4. r = [full EXCEPT !.busy_lock = 1] BY <3>3, EndedInner DEF r
    <3>5. /\ r \in LayerRecord /\ r.busy_lock = 1 /\ r.buff = full.buff
          /\ r.buff2 = full.buff2 /\ r.flags = full.flags
      BY <3>3, <3>4 DEF LayerRecord
    <3> QED BY <1>1, <2>2, <3>1, <3>3, <3>5 DEF Present, Busy
  <2> QED BY <2>1, <2>2
<1>6. /\ layer' = [layer EXCEPT ![Console] = r]
      /\ written' = [written EXCEPT ![Console] = w]
      /\ committed' = [committed EXCEPT ![Console] = IF r.busy_lock = 0 THEN w ELSE @]
      /\ layers_dirty' = (layers_dirty \/ r.busy_lock = 0)
      /\ layers_dirty' \in BOOLEAN
  BY <1>3, <1>5 DEF EndsEdit, ComposerInv, TypeOK
<1>7. \A k \in Layer : layer'[k] = IF k = Console THEN r ELSE layer[k]
  BY <1>6 DEF ComposerInv, TypeOK
<1>8. TypeOK'
  <2>1. layer' \in [Layer -> LayerRecord] BY <1>5, <1>6 DEF ComposerInv, TypeOK
  <2>2. written' \in [Layer -> Picture] /\ committed' \in [Layer -> Picture]
    BY <1>2, <1>6 DEF ComposerInv, TypeOK
  <2> QED BY <1>6, <2>1, <2>2 DEF ComposerInv, TypeOK, screen
<1>9. /\ InArray' = InArray /\ InArray \subseteq Layer
      /\ \A k \in Layer : Present(k)' = Present(k)
      /\ Stacked' /\ Held' /\ Windowed'
      /\ \A k \in Layer : Editors(k)' = Editors(k)
  BY <1>1, <1>5, <1>7, FrameKeeps, InArrayLayers DEF Present, ComposerInv
<1>10. Buffers'
  <2>1. IF Editors(Console)' = {} THEN Calm(Console)' ELSE Busy(Console)'
    <3>1. /\ layer'[Console] = r /\ written'[Console] = w /\ back'[Console] = back[Console]
          /\ r.busy_lock = 0 => committed'[Console] = w
      BY <1>1, <1>6 DEF ComposerInv, TypeOK, screen
    <3>2. Editors(Console) # {} => old.buff = back[Console]
      BY <1>1 DEF ComposerInv, Buffers, Busy
    <3> QED BY <1>1, <1>5, <1>9, <3>1, <3>2 DEF Calm, Busy
  <2>2. ASSUME NEW k \in InArray \ {Console}
        PROVE  IF Editors(k)' = {} THEN Calm(k)' ELSE Busy(k)'
    <3>1. layer'[k] = layer[k] /\ written'[k] = written[k] /\ committed'[k] = committed[k]
          /\ back'[k] = back[k] /\ Editors(k)' = Editors(k)
      BY <1>6, <1>7, <1>9 DEF ComposerInv, TypeOK, screen
    <3> QED BY <3>1 DEF ComposerInv, Buffers, Calm, Busy
  <2>3. ASSUME NEW u \in Tasks, pc'[u] = "end" PROVE layer'[held'[u]].buff2.own = Torn
    <3>1. pc[u] = "end" /\ held'[u] = held[u] /\ held[u] \in Layer
      BY <2>3 DEF ComposerInv, Held, TypeOK
    <3>2. layer[held[u]].buff2.own = Torn BY <3>1 DEF ComposerInv, Buffers
    <3>3. held[u] = Console => Editors(Console) # {} BY <3>1 DEF Editors
    <3> QED BY <1>5, <1>7, <3>1, <3>2, <3>3
  <2> QED BY <1>9, <2>1, <2>2, <2>3 DEF Buffers
<1>11. Fresh'
  BY <1>1, <1>6, <1>9 DEF ComposerInv, Fresh, TypeOK, screen
<1>12. CleanMeansShown'
  <2>1. \A u \in Tasks : At(u, "present") => At(u, "present")' BY DEF At
  <2>2. \A k \in Layer : CursorMoving(k)' = CursorMoving(k) BY Names DEF CursorMoving, At
  <2>3. ASSUME ~layers_dirty' PROVE Editors(Console) # {}
    BY <1>5, <1>6, <2>3
  <2>4. \A k \in Layer \ {Console} : committed'[k] = committed[k]
    BY <1>6 DEF ComposerInv, TypeOK
  <2> QED BY <1>6, <1>9, <2>1, <2>2, <2>3, <2>4 DEF ComposerInv, CleanMeansShown, screen
<1> QED BY <1>8, <1>9, <1>10, <1>11, <1>12 DEF ComposerInv

\* Both callers of konsole_putch.
LEMMA PutSteps ==
  ASSUME ComposerInv, NEW t \in Tasks, PutChar(t) \/ warning(t)
  PROVE  ComposerInv'
<1>0. pc \in [Tasks -> Place] BY DEF ComposerInv, TypeOK
<1>1. CASE PutChar(t) BY <1>1, PutchStep, <1>0 DEF PutChar, places
<1>2. CASE warning(t)
  <2>1. /\ pc' \in [Tasks -> Place] /\ pc[t] = "run"
        /\ \A u \in Tasks : pc'[u] = IF u = t THEN "prepare" ELSE pc[u]
    BY <1>2, Steps DEF ComposerInv, warning, Place, At
  <2> QED BY <1>2, <2>1, PutchStep DEF warning
<1> QED BY <1>1, <1>2

\* What an erasure leaves alone.
LEMMA Erased ==
  ASSUME ComposerInv, NEW S \in SUBSET Layer, composer_erase_layers(S)
  PROVE  /\ layer' \in [Layer -> LayerRecord]
         /\ \A l \in Layer :
              /\ layer'[l].buff = layer[l].buff /\ layer'[l].buff2 = layer[l].buff2
              /\ layer'[l].busy_lock = layer[l].busy_lock
              /\ layer'[l].flags \ {"PRESENT"} = layer[l].flags \ {"PRESENT"}
              /\ l \notin S => layer'[l] = layer[l]
              /\ "PRESENT" \in layer'[l].flags => "PRESENT" \in layer[l].flags
<1> DEFINE gone(r) == [r EXCEPT !.flags = @ \ {"PRESENT"}]
<1>1. \A r \in LayerRecord :
        /\ gone(r) \in LayerRecord /\ gone(r).buff = r.buff /\ gone(r).buff2 = r.buff2
        /\ gone(r).busy_lock = r.busy_lock /\ gone(r).flags = r.flags \ {"PRESENT"}
  BY DEF LayerRecord
<1>2. \A l \in Layer : layer[l] \in LayerRecord BY DEF ComposerInv, TypeOK
<1>3. layer' = [l \in Layer |-> IF l \in S THEN gone(layer[l]) ELSE layer[l]]
  BY DEF composer_erase_layers
<1> HIDE DEF gone
<1>4. \A l \in Layer : layer'[l] = IF l \in S THEN gone(layer[l]) ELSE layer[l] BY <1>3
<1>5. \A l \in Layer : layer'[l] \in LayerRecord BY <1>1, <1>2, <1>4
<1>6. layer' \in [Layer -> LayerRecord] BY <1>3, <1>5
<1>7. \A l \in S : layer'[l].flags = layer[l].flags \ {"PRESENT"} BY <1>1, <1>2, <1>4
<1>8. \A l \in Layer \ S : layer'[l] = layer[l] BY <1>4
<1> QED BY <1>1, <1>2, <1>4, <1>6, <1>7, <1>8

\* Steps that close windows, erase the layers S or none, and write nothing.
LEMMA CloseKeeps ==
  ASSUME ComposerInv, NEW S \in SUBSET Addresses, composer_erase_layers(S),
         UNCHANGED <<layers, held, screen, history>>,
         windows' \in [Slot -> [active : BOOLEAN, owner_pid : Users \union {None},
                                layer : Addresses \union {None}]],
         slot' \in [Tasks -> Slot \union {None}],
         pc' \in [Tasks -> Place],
         \A u \in Tasks : pc'[u] = pc[u] \/ {pc[u], pc'[u]} \subseteq {"run", "close", "dead"},
         Held', Open' \subseteq Open,
         \A i \in Open' : windows'[i].layer = windows[i].layer /\ windows[i].layer \notin S,
         \A i \in Slot : windows'[i].active => windows'[i] = windows[i]
  PROVE  ComposerInv'
<1>0. S \subseteq Layer /\ Console \notin S /\ Cursor \notin S BY Names
<1>1. /\ layer' \in [Layer -> LayerRecord]
      /\ \A l \in Layer :
           /\ layer'[l].buff = layer[l].buff /\ layer'[l].buff2 = layer[l].buff2
           /\ layer'[l].busy_lock = layer[l].busy_lock
           /\ layer'[l].flags \ {"PRESENT"} = layer[l].flags \ {"PRESENT"}
           /\ l \notin S => layer'[l] = layer[l]
           /\ "PRESENT" \in layer'[l].flags => "PRESENT" \in layer[l].flags
  BY <1>0, Erased
<1>2. layers_dirty' \in BOOLEAN /\ (layers_dirty => layers_dirty')
  BY DEF composer_erase_layers, ComposerInv, TypeOK
<1>3. TypeOK' BY <1>1, <1>2 DEF ComposerInv, TypeOK, screen, history
<1>4. InArray' = InArray /\ InArray \subseteq Layer BY InArrayLayers DEF InArray, ComposerInv
<1>5. \A l \in Layer : (Present(l)' => Present(l)) /\ (l \notin S => Present(l)' = Present(l))
  BY <1>1, <1>4 DEF Present
<1>6. Stacked' BY <1>0, <1>5, Names DEF ComposerInv, Stacked
<1>7. Windowed'
  <2>1. \A i \in Slot : windows'[i].active =>
          windows'[i].owner_pid \in Users /\ windows'[i].layer \in Addresses
    BY DEF ComposerInv, Windowed
  <2>2. \A i \in Open' : windows[i].active BY DEF Open
  <2>3. \A i \in Open' : windows[i].layer \in Layer
    BY <2>2, Names DEF ComposerInv, Windowed, Open
  <2>4. ASSUME NEW i \in Open' PROVE Present(windows[i].layer)'
    <3>1. PICK l \in Layer : l = windows[i].layer BY <2>3
    <3>2. l \notin S /\ Present(l) /\ windows'[i].layer = l
      BY <3>1 DEF ComposerInv, Windowed
    <3> QED BY <1>5, <3>1, <3>2
  <2> QED BY <2>1, <2>4 DEF ComposerInv, Windowed
<1>8. \A l \in Layer : Editors(l)' = Editors(l)
  BY EditorsHold, EditorsHoldNext DEF ComposerInv
<1>9. Buffers'
  <2>1. \A l \in Layer : "BUSY" \in layer'[l].flags <=> "BUSY" \in layer[l].flags BY <1>1
  <2>2. \A l \in Layer : "DIRTY" \in layer'[l].flags <=> "DIRTY" \in layer[l].flags BY <1>1
  <2>3. \A l \in InArray : IF Editors(l)' = {} THEN Calm(l)' ELSE Busy(l)'
    BY <1>1, <1>4, <1>8, <2>1, <2>2 DEF ComposerInv, Buffers, Calm, Busy, screen, history
  <2>4. ASSUME NEW u \in Tasks, pc'[u] = "end" PROVE layer'[held'[u]].buff2.own = Torn
    <3>1. pc[u] = "end" /\ held'[u] = held[u] BY <2>4
    <3>2. held[u] \in Layer BY <3>1 DEF ComposerInv, TypeOK, Held
    <3> QED BY <1>1, <3>1, <3>2 DEF ComposerInv, Buffers
  <2> QED BY <1>4, <2>3, <2>4 DEF Buffers
<1>10. Fresh' BY <1>4 DEF ComposerInv, Fresh, screen, history
<1>11. CleanMeansShown'
  <2>1. \A l \in Layer : CursorMoving(l)' = CursorMoving(l) BY Names DEF CursorMoving, At
  <2>2. \A u \in Tasks : At(u, "present") => At(u, "present")' BY DEF At
  <2> QED BY <1>2, <1>4, <1>5, <1>8, <2>1, <2>2
      DEF ComposerInv, CleanMeansShown, screen, history
<1> QED BY <1>3, <1>6, <1>7, <1>9, <1>10, <1>11 DEF ComposerInv

\* sys_win_destroy.
LEMMA DestroyStep ==
  ASSUME ComposerInv, NEW t \in Tasks, NEW i \in Slot, sys_win_destroy(t, i)
  PROVE  ComposerInv'
<1>1. /\ pc' \in [Tasks -> Place] /\ pc[t] = "run" /\ _window_ok(t, i)
      /\ \A u \in Tasks : pc'[u] = IF u = t THEN "close" ELSE pc[u]
  BY Steps DEF ComposerInv, sys_win_destroy, Place, At
<1>2. /\ slot' \in [Tasks -> Slot \union {None}]
      /\ \A u \in Tasks : slot'[u] = IF u = t THEN i ELSE slot[u]
  BY DEF sys_win_destroy, ComposerInv, TypeOK
<1>3. windows' = windows /\ held' = held BY DEF sys_win_destroy
<1>4. Held'
  <2>1. \A u \in Tasks, j \in Slot : _window_ok(u, j)' = _window_ok(u, j)
    BY <1>3 DEF _window_ok
  <2>2. ASSUME NEW u \in Tasks
        PROVE  /\ held[u] # None <=> pc'[u] \in {"write", "end"}
               /\ slot'[u] # None <=> pc'[u] = "close"
               /\ slot'[u] # None => _window_ok(u, slot'[u]) /\ slot'[u] \in Slot
               /\ held[u] # None =>
                    \/ u = Terminal /\ held[u] = Console
                    \/ \E j \in Slot : _window_ok(u, j) /\ windows[j].layer = held[u]
    <3>1. CASE u = t BY <1>1, <1>2, <3>1, Names DEF ComposerInv, Held
    <3>2. CASE u # t
      <4>1. slot'[u] = slot[u] /\ pc'[u] = pc[u] BY <1>1, <1>2, <3>2
      <4>2. slot[u] # None => slot[u] \in Slot BY DEF ComposerInv, TypeOK
      <4> QED BY <4>1, <4>2 DEF ComposerInv, Held
    <3> QED BY <3>1, <3>2
  <2> QED BY <1>3, <2>1, <2>2 DEF Held
<1>5. Open' = Open \ {i} /\ i \in Open
  <2>1. i \in Open BY <1>1, OwnOpen DEF ComposerInv
  <2>2. Open = {j \in Slot : windows[j].active /\ \A u \in Tasks : slot[u] # j}
    BY OpenWindows DEF ComposerInv
  <2>3. Open' = {j \in Slot : windows[j].active /\ \A u \in Tasks : slot'[u] # j}
    BY <1>3, <1>4, OpenWindowsNext
  <2>4. \A j \in Slot : (\A u \in Tasks : slot'[u] # j) <=> j # i /\ \A u \in Tasks : slot[u] # j
    <3>1. slot[t] = None BY <1>1 DEF ComposerInv, Held
    <3> QED BY <1>2, <3>1, Names
  <2> QED BY <2>1, <2>2, <2>3, <2>4
<1>6. windows[i].layer \in Addresses BY <1>1 DEF ComposerInv, Windowed, _window_ok
<1>7. \A j \in Open' : windows[j].layer \notin {windows[i].layer}
  BY <1>5 DEF ComposerInv, Windowed
<1> QED BY <1>1, <1>2, <1>3, <1>4, <1>5, <1>6, <1>7, CloseKeeps, SMTT(30)
    DEF sys_win_destroy, ComposerInv, TypeOK

\* CloseWindow.
LEMMA CloseStep ==
  ASSUME ComposerInv, NEW t \in Tasks, CloseWindow(t)
  PROVE  ComposerInv'
<1>1. /\ pc' \in [Tasks -> Place] /\ pc[t] = "close"
      /\ \A u \in Tasks : pc'[u] = IF u = t THEN "run" ELSE pc[u]
  BY Steps DEF ComposerInv, CloseWindow, Place, At
<1>2. PICK i \in Slot : slot[t] = i /\ _window_ok(t, i)
  BY <1>1 DEF ComposerInv, Held, TypeOK
<1>3. /\ slot' \in [Tasks -> Slot \union {None}]
      /\ \A u \in Tasks : slot'[u] = IF u = t THEN None ELSE slot[u]
  BY DEF CloseWindow, ComposerInv, TypeOK
<1>4. /\ windows' \in [Slot -> [active : BOOLEAN, owner_pid : Users \union {None},
                                layer : Addresses \union {None}]]
      /\ \A j \in Slot : windows'[j] = IF j = i THEN Free ELSE windows[j]
  BY <1>2 DEF CloseWindow, ComposerInv, TypeOK, Free
<1>5. held' = held /\ ~windows'[i].active BY <1>4 DEF CloseWindow, Free
<1>6. \A u \in Tasks \ {t}, j \in Slot : _window_ok(u, j) => j # i /\ windows'[j] = windows[j]
  BY <1>2, <1>4 DEF _window_ok
<1>7. Held'
  <2>1. ASSUME NEW u \in Tasks
        PROVE  /\ held[u] # None <=> pc'[u] \in {"write", "end"}
               /\ slot'[u] # None <=> pc'[u] = "close"
               /\ slot'[u] # None => _window_ok(u, slot[u])'
               /\ held[u] # None =>
                    \/ u = Terminal /\ held[u] = Console
                    \/ \E j \in Slot : _window_ok(u, j)' /\ windows'[j].layer = held[u]
    <3>1. CASE u = t BY <1>1, <1>3, <3>1 DEF ComposerInv, Held
    <3>2. CASE u # t
      <4>1. slot'[u] = slot[u] /\ pc'[u] = pc[u] BY <1>1, <1>3, <3>2
      <4>2. slot[u] # None => slot[u] \in Slot BY DEF ComposerInv, TypeOK
      <4>3. \A j \in Slot : _window_ok(u, j) => _window_ok(u, j)' /\ windows'[j] = windows[j]
        BY <1>6, <3>2 DEF _window_ok
      <4>4. slot'[u] # None => _window_ok(u, slot[u])'
        BY <1>6, <3>2, <4>1, <4>2 DEF ComposerInv, Held, _window_ok
      <4> QED BY <4>1, <4>2, <4>3, <4>4 DEF ComposerInv, Held
    <3> QED BY <3>1, <3>2
  <2> QED BY <1>5, <2>1 DEF Held
<1>8. Open' \subseteq Open /\ \A j \in Open' : windows'[j] = windows[j]
  <2>1. Open' = {j \in Slot : windows'[j].active /\ \A u \in Tasks : slot'[u] # j}
    BY <1>7, OpenWindowsNext
  <2>2. Open = {j \in Slot : windows[j].active /\ \A u \in Tasks : slot[u] # j}
    BY OpenWindows DEF ComposerInv
  <2> QED BY <1>2, <1>3, <1>4, <1>5, <2>1, <2>2
<1>9. composer_erase_layers({})
  <2>1. layer = [l \in Layer |-> layer[l]] BY DEF ComposerInv, TypeOK
  <2>2. layer' = layer /\ layers_dirty' = layers_dirty BY DEF CloseWindow
  <2> QED BY <2>1, <2>2 DEF composer_erase_layers, ComposerInv, TypeOK
<1>10. UNCHANGED <<layers, held, screen, history>> BY DEF CloseWindow
<1> QED
  <2>1. \A u \in Tasks : pc'[u] = pc[u] \/ {pc[u], pc'[u]} \subseteq {"run", "close", "dead"}
    BY <1>1
  <2>2. \A j \in Slot : windows'[j].active => windows'[j] = windows[j] BY <1>4, <1>5
  <2> QED BY <1>1, <1>3, <1>4, <1>7, <1>8, <1>9, <1>10, <2>1, <2>2, CloseKeeps

\* sys_exit.
LEMMA ExitStep ==
  ASSUME ComposerInv, NEW t \in Tasks, sys_exit(t)
  PROVE  ComposerInv'
<1> DEFINE S == {windows[i].layer : i \in Owned(t)}
<1>1. /\ pc' \in [Tasks -> Place] /\ pc[t] = "run"
      /\ \A u \in Tasks : pc'[u] = IF u = t THEN "dead" ELSE pc[u]
  BY Steps DEF ComposerInv, sys_exit, Place, At
<1>2. held[t] = None /\ slot[t] = None BY <1>1 DEF ComposerInv, Held
<1>3. /\ windows' \in [Slot -> [active : BOOLEAN, owner_pid : Users \union {None},
                                layer : Addresses \union {None}]]
      /\ \A j \in Slot : windows'[j] = IF j \in Owned(t) THEN Free ELSE windows[j]
  BY DEF sys_exit, ComposerInv, TypeOK, Free
<1>4. /\ UNCHANGED <<layers, held, screen, history>> /\ slot' = slot
      /\ composer_erase_layers(S)
  BY DEF sys_exit
<1>5. Owned(t) \subseteq Open /\ S \subseteq Addresses
  <2>1. \A i \in Owned(t) : i \in Slot /\ _window_ok(t, i) BY DEF Owned, _window_ok
  <2>2. \A i \in Owned(t) : i \in Open BY <1>1, <2>1, OwnOpen DEF ComposerInv
  <2>3. \A i \in Owned(t) : windows[i].layer \in Addresses
    BY <2>1 DEF ComposerInv, Windowed, _window_ok
  <2> QED BY <2>2, <2>3
<1> HIDE DEF S
<1>6. \A u \in Tasks \ {t}, j \in Slot : _window_ok(u, j) => windows'[j] = windows[j]
  BY <1>3 DEF _window_ok, Owned
<1>7. Held'
  <2>1. ASSUME NEW u \in Tasks
        PROVE  /\ held[u] # None <=> pc'[u] \in {"write", "end"}
               /\ slot[u] # None <=> pc'[u] = "close"
               /\ slot[u] # None => _window_ok(u, slot[u])'
               /\ held[u] # None =>
                    \/ u = Terminal /\ held[u] = Console
                    \/ \E j \in Slot : _window_ok(u, j)' /\ windows'[j].layer = held[u]
    <3>1. CASE u = t BY <1>1, <1>2, <3>1
    <3>2. CASE u # t
      <4>1. pc'[u] = pc[u] BY <1>1, <3>2
      <4>2. slot[u] # None => slot[u] \in Slot BY DEF ComposerInv, TypeOK
      <4>3. \A j \in Slot : _window_ok(u, j) => _window_ok(u, j)' /\ windows'[j] = windows[j]
        BY <1>6, <3>2 DEF _window_ok
      <4>4. slot[u] # None => _window_ok(u, slot[u])'
        BY <1>4, <1>6, <3>2, <4>2 DEF ComposerInv, Held, _window_ok
      <4> QED BY <4>1, <4>2, <4>3, <4>4 DEF ComposerInv, Held
    <3> QED BY <3>1, <3>2
  <2> QED BY <1>4, <2>1 DEF Held
<1>8. Open' \subseteq Open \ Owned(t) /\ \A j \in Open' : windows'[j] = windows[j]
  <2>1. Open' = {j \in Slot : windows'[j].active /\ \A u \in Tasks : slot'[u] # j}
    BY <1>7, OpenWindowsNext
  <2>2. Open = {j \in Slot : windows[j].active /\ \A u \in Tasks : slot[u] # j}
    BY OpenWindows DEF ComposerInv
  <2> QED BY <1>3, <1>4, <2>1, <2>2 DEF Free
<1>9. \A j \in Open' : windows[j].layer \notin S
  BY <1>5, <1>8 DEF S, ComposerInv, Windowed
<1> QED
  <2>1. \A u \in Tasks : pc'[u] = pc[u] \/ {pc[u], pc'[u]} \subseteq {"run", "close", "dead"}
    BY <1>1
  <2>2. \A j \in Slot : windows'[j].active => windows'[j] = windows[j] BY <1>3 DEF Free
  <2>3. slot' \in [Tasks -> Slot \union {None}] BY <1>4 DEF ComposerInv, TypeOK
  <2> QED BY <1>1, <1>3, <1>4, <1>5, <1>7, <1>8, <1>9, <2>1, <2>2, <2>3, CloseKeeps

\* sys_win_create.
LEMMA CreateStep ==
  ASSUME ComposerInv, NEW t \in Tasks, sys_win_create(t)
  PROVE  ComposerInv'
<1>1. PICK i \in Slot, l \in Addresses \ InArray, z \in ZIndices :
        /\ ~windows[i].active
        /\ composer_create_layer(l, z)
        /\ windows' = [windows EXCEPT ![i] = Window(t, l)]
  BY DEF sys_win_create
<1>2. /\ UNCHANGED <<layers_dirty, places, screen, history>>
      /\ t \in Users /\ pc[t] = "run" /\ z \in Int /\ l \in Layer
  BY ComposerAssumption, Names DEF sys_win_create, At
<1>3. /\ layer' \in [Layer -> LayerRecord]
      /\ \A k \in Layer : layer'[k] = IF k = l THEN NewLayer(z) ELSE layer[k]
  BY <1>1, <1>2, NewLayers DEF composer_create_layer, ComposerInv, TypeOK
<1>4. /\ layers' \in Seq(Layer) /\ InArray' = InArray \union {l}
      /\ \A j, k \in DOMAIN layers' : layers'[j] = layers'[k] => j = k
  <2>1. layers' = Append(layers, l) /\ layers \in Seq(Layer)
    BY <1>1 DEF composer_create_layer, ComposerInv, TypeOK
  <2>2. /\ layers' \in Seq(Layer) /\ DOMAIN layers' = 1 .. Len(layers) + 1
        /\ DOMAIN layers = 1 .. Len(layers) /\ Len(layers) \in Nat
        /\ \A j \in 1 .. Len(layers) : layers'[j] = layers[j]
        /\ layers'[Len(layers) + 1] = l
    BY <1>2, <2>1
  <2>3. InArray' = InArray \union {l}
    <3>1. \A j \in DOMAIN layers' : layers'[j] \in InArray \union {l} BY <2>2 DEF InArray
    <3>2. \A k \in InArray : \E j \in DOMAIN layers' : layers'[j] = k BY <2>2 DEF InArray
    <3>3. \E j \in DOMAIN layers' : layers'[j] = l BY <2>2
    <3> QED BY <3>1, <3>2, <3>3 DEF InArray
  <2>4. \A j \in DOMAIN layers : layers[j] # l BY <1>1 DEF InArray
  <2> QED BY <2>2, <2>3, <2>4 DEF ComposerInv, Stacked
<1>5. /\ windows' \in [Slot -> [active : BOOLEAN, owner_pid : Users \union {None},
                                layer : Addresses \union {None}]]
      /\ \A j \in Slot : windows'[j] = IF j = i THEN Window(t, l) ELSE windows[j]
  BY <1>1, <1>2 DEF ComposerInv, TypeOK, Window
<1>6. TypeOK' BY <1>2, <1>3, <1>4, <1>5 DEF ComposerInv, TypeOK, places, screen, history
<1>7. \A k \in Layer : Present(k) => Present(k)' /\ layer'[k] = layer[k]
  BY <1>1, <1>3, <1>4 DEF Present
<1>8. Stacked' BY <1>4, <1>7, Names DEF ComposerInv, Stacked
<1>9. \A j \in Slot : windows[j].active => windows'[j] = windows[j] BY <1>1, <1>5
<1>10. Held'
  <2>1. \A u \in Tasks, j \in Slot : _window_ok(u, j) => _window_ok(u, j)' /\ windows'[j] = windows[j]
    BY <1>9 DEF _window_ok
  <2>2. \A u \in Tasks : slot[u] # None => slot[u] \in Slot BY DEF ComposerInv, TypeOK
  <2>3. \A u \in Tasks : slot[u] # None => _window_ok(u, slot[u])'
    BY <1>2, <1>9, <2>2 DEF ComposerInv, Held, _window_ok, places
  <2>4. UNCHANGED <<pc, held, slot>> BY <1>2 DEF places
  <2> QED BY <2>1, <2>2, <2>3, <2>4 DEF ComposerInv, Held
<1>11. Open' = Open \union {i} /\ i \notin Open
  <2>1. Open' = {j \in Slot : windows'[j].active /\ \A u \in Tasks : slot'[u] # j}
    BY <1>10, OpenWindowsNext
  <2>2. Open = {j \in Slot : windows[j].active /\ \A u \in Tasks : slot[u] # j}
    BY OpenWindows DEF ComposerInv
  <2>3. \A u \in Tasks : slot[u] # i BY <1>1, Names DEF ComposerInv, Held, _window_ok
  <2>4. windows'[i].active BY <1>5 DEF Window
  <2> QED BY <1>1, <1>2, <1>5, <2>1, <2>2, <2>3, <2>4 DEF places
<1>12. Windowed'
  <2>1. windows'[i].owner_pid = t /\ windows'[i].layer = l BY <1>5 DEF Window
  <2>2. \A j \in Open : j # i /\ windows'[j] = windows[j] /\ windows[j].active
    BY <1>1, <1>9 DEF Open
  <2>3. Present(l)' BY <1>2, <1>3, <1>4, NewLayers DEF Present
  <2>4. \A j \in Open : windows[j].layer \in Layer /\ windows[j].layer # l
    BY <1>1, <2>2, Names DEF ComposerInv, Windowed, Open, Present
  <2>5. ASSUME NEW j \in Open' PROVE Present(windows[j].layer)'
    <3>1. PICK k \in Layer : k = windows'[j].layer BY <1>2, <1>11, <2>1, <2>2, <2>4
    <3>2. Present(k)'
      BY <1>7, <1>11, <2>1, <2>2, <2>3, <2>4, <3>1 DEF ComposerInv, Windowed
    <3> QED BY <3>1, <3>2
  <2>6. \A j, k \in Open' : windows'[j].layer = windows'[k].layer => j = k
    BY <1>11, <2>1, <2>2, <2>4 DEF ComposerInv, Windowed
  <2>7. \A j \in Slot : windows'[j].active =>
          windows'[j].owner_pid \in Users /\ windows'[j].layer \in Addresses
    BY <1>1, <1>2, <1>5, <2>1 DEF ComposerInv, Windowed
  <2> QED BY <2>5, <2>6, <2>7 DEF Windowed
<1>13. Editors(l)' = {} /\ \A k \in Layer : Editors(k)' = Editors(k)
  <2>1. \A u \in Tasks : held[u] # l
    BY <1>1, <1>2, HeldPresent, Names DEF ComposerInv, Present
  <2> QED BY <1>2, <1>10, <2>1, EditorsHold, EditorsHoldNext DEF ComposerInv, places
<1>14. InArray \subseteq Layer /\ \A k \in InArray : layer'[k] = layer[k]
  BY <1>1, <1>3, InArrayLayers DEF ComposerInv
<1>15. back[l] = Black /\ written[l] = Black /\ committed[l] = Black /\ l \notin moved
  BY <1>1, <1>2 DEF ComposerInv, Fresh
<1>16. Buffers'
  <2>1. Calm(l)' BY <1>2, <1>3, <1>15, NewLayers DEF Calm, screen, history
  <2>2. \A k \in InArray : IF Editors(k)' = {} THEN Calm(k)' ELSE Busy(k)'
    BY <1>2, <1>13, <1>14 DEF ComposerInv, Buffers, Calm, Busy, screen, history
  <2>3. ASSUME NEW u \in Tasks, pc'[u] = "end" PROVE layer'[held'[u]].buff2.own = Torn
    <3>1. pc[u] = "end" /\ held'[u] = held[u] BY <1>2, <2>3 DEF places
    <3>2. held[u] \in InArray BY <3>1, HeldPresent DEF ComposerInv, Held
    <3> QED BY <1>14, <3>1, <3>2 DEF ComposerInv, Buffers
  <2> QED BY <1>4, <1>13, <2>1, <2>2, <2>3 DEF Buffers
<1>17. Fresh' BY <1>2, <1>4 DEF ComposerInv, Fresh, screen, history
<1>18. CleanMeansShown'
  <2>1. \A k \in Layer : CursorMoving(k)' = CursorMoving(k) BY <1>2 DEF CursorMoving, At, places
  <2>2. \A k \in InArray' : k = l \/ (k \in InArray /\ Present(k)' = Present(k))
    BY <1>4, <1>14 DEF Present
  <2>3. UNCHANGED <<layers_dirty, pc, back, moved, behind, committed>>
    BY <1>2 DEF places, screen, history
  <2> QED BY <1>4, <1>13, <1>14, <1>15, <2>1, <2>2, <2>3 DEF ComposerInv, CleanMeansShown, At
<1> QED BY <1>6, <1>8, <1>10, <1>12, <1>16, <1>17, <1>18 DEF ComposerInv

\* composer_flush_prepare.
LEMMA PrepareStep ==
  ASSUME ComposerInv, NEW t \in Tasks, composer_flush_prepare(t)
  PROVE  ComposerInv'
<1> DEFINE kept == {l \in InArray : Present(l)}
<1>1. /\ pc' \in [Tasks -> Place] /\ pc[t] = "prepare"
      /\ \A u \in Tasks : pc'[u] = IF u = t THEN "flush" ELSE pc[u]
  BY Steps DEF ComposerInv, composer_flush_prepare, Place, At
<1>2. /\ layers' \in Sorted(kept)
      /\ layer' = [l \in Layer |-> IF l \in kept THEN layer[l] ELSE Destroyed]
      /\ back' = [l \in Layer |-> IF l \in kept THEN back[l] ELSE Black]
      /\ moved' = moved \intersect kept
      /\ written' = [l \in Layer |-> IF l \in kept THEN written[l] ELSE Black]
      /\ committed' = [l \in Layer |-> IF l \in kept THEN committed[l] ELSE Black]
      /\ UNCHANGED <<layers_dirty, windows, held, slot, order, behind>>
  BY DEF composer_flush_prepare
<1>3. kept \subseteq Layer /\ \A l \in Layer : Present(l) <=> l \in kept
  BY InArrayLayers DEF ComposerInv, Present
<1>4. /\ layers' \in Seq(Layer) /\ InArray' = kept
      /\ \A i, j \in DOMAIN layers' : layers'[i] = layers'[j] => i = j
  BY <1>2, Resorted DEF ComposerInv
<1> HIDE DEF kept
<1>5. \A l \in kept : /\ layer'[l] = layer[l] /\ back'[l] = back[l]
                      /\ written'[l] = written[l] /\ committed'[l] = committed[l]
  BY <1>2, <1>3
<1>6. TypeOK'
  <2>1. 0 \in Int OBVIOUS
  <2>2. \A l \in Layer : layer'[l] \in LayerRecord
    BY <1>2, <2>1, NewLayers DEF ComposerInv, TypeOK
  <2>3. layer' \in [Layer -> LayerRecord] BY <1>2, <2>2
  <2>4. back' \in [Layer -> Content] BY <1>2, Pictures DEF ComposerInv, TypeOK
  <2>5. written' \in [Layer -> Picture] /\ committed' \in [Layer -> Picture]
    BY <1>2, Pictures DEF ComposerInv, TypeOK
  <2> QED BY <1>1, <1>2, <1>4, <2>3, <2>4, <2>5 DEF ComposerInv, TypeOK
<1>7. \A l \in Layer : Present(l) => Present(l)' BY <1>3, <1>4, <1>5 DEF Present
<1>8. Stacked' BY <1>4, <1>7, Names DEF ComposerInv, Stacked
<1>9. Held' BY <1>1, <1>2 DEF ComposerInv, Held, _window_ok
<1>10. Windowed'
  <2>1. Open' = Open BY <1>2, <1>9, OpenWindows, OpenWindowsNext DEF ComposerInv
  <2>2. \A j \in Open : windows[j].layer \in Layer
    BY Names DEF ComposerInv, Windowed, Open
  <2>3. windows' = windows BY <1>2
  <2>4. ASSUME NEW j \in Open PROVE Present(windows[j].layer)'
    <3>1. PICK l \in Layer : l = windows[j].layer BY <2>2
    <3> QED BY <1>7, <2>3, <3>1 DEF ComposerInv, Windowed
  <2> QED BY <2>1, <2>3, <2>4 DEF ComposerInv, Windowed
<1>11. \A l \in Layer : Editors(l)' = Editors(l)
  BY <1>2, <1>9, EditorsHold, EditorsHoldNext DEF ComposerInv
<1>12. kept \subseteq InArray BY DEF kept
<1>13. Buffers'
  <2>1. ASSUME NEW l \in kept PROVE IF Editors(l)' = {} THEN Calm(l)' ELSE Busy(l)'
    BY <1>3, <1>5, <1>11, <1>12, <2>1 DEF ComposerInv, Buffers, Calm, Busy
  <2>2. ASSUME NEW u \in Tasks, pc'[u] = "end" PROVE layer'[held'[u]].buff2.own = Torn
    <3>1. pc[u] = "end" /\ held'[u] = held[u] BY <1>1, <1>2, <2>2
    <3>2. held[u] \in kept BY <1>3, <3>1, HeldPresent DEF ComposerInv, Held
    <3> QED BY <1>5, <3>1, <3>2 DEF ComposerInv, Buffers
  <2> QED BY <1>4, <2>1, <2>2 DEF Buffers
<1>14. Fresh' BY <1>2, <1>4 DEF Fresh
<1>15. CleanMeansShown'
  <2>1. \A l \in Layer : CursorMoving(l)' = CursorMoving(l) BY <1>1, Names DEF CursorMoving, At
  <2>2. \A u \in Tasks : At(u, "present") => At(u, "present")' BY <1>1 DEF At
  <2>3. \A l \in kept : Present(l) /\ l \in InArray /\ l \in Layer BY <1>3, <1>12
  <2>4. \A l \in moved' : l \in moved BY <1>2
  <2> QED BY <1>2, <1>4, <1>5, <1>11, <2>1, <2>2, <2>3, <2>4 DEF ComposerInv, CleanMeansShown
<1> QED BY <1>6, <1>8, <1>9, <1>10, <1>13, <1>14, <1>15 DEF ComposerInv

\* composer_flush.
LEMMA FlushStep ==
  ASSUME ComposerInv, NEW t \in Tasks, composer_flush(t)
  PROVE  ComposerInv'
<1> DEFINE drawn == {l \in InArray : Present(l)}
           after == [l \in Layer |-> IF l \in drawn THEN composer_compose_layer(layer[l])
                                                    ELSE layer[l]]
<1>1. /\ pc' \in [Tasks -> Place] /\ pc[t] = "flush"
      /\ \A u \in Tasks : pc'[u] = IF u = t THEN "present" ELSE pc[u]
  BY Steps DEF ComposerInv, composer_flush, Place, At
<1>2. /\ layer' = after
      /\ back' = [l \in Layer |-> IF l \in drawn THEN after[l].buff ELSE back[l]]
      /\ moved' = moved \ drawn
      /\ order' = [i \in DOMAIN layers |-> IF layers[i] \in drawn THEN layers[i] ELSE None]
      /\ behind' = TRUE /\ layers_dirty' = FALSE
      /\ UNCHANGED <<layers, windows, held, slot, history>>
  BY DEF composer_flush
<1>3. drawn \subseteq Layer /\ drawn \subseteq InArray /\ InArray \subseteq Layer
      /\ \A l \in Layer : Present(l) <=> l \in drawn
  BY InArrayLayers DEF ComposerInv, Present
<1>4. \A l \in Layer : layer[l] \in LayerRecord BY DEF ComposerInv, TypeOK
<1>5. \A l \in Layer : layer'[l] = IF l \in drawn THEN composer_compose_layer(layer[l])
                                                  ELSE layer[l]
  BY <1>2
<1>6. \A l \in Layer : /\ layer'[l] \in LayerRecord /\ layer'[l].buff = layer[l].buff
                       /\ layer'[l].busy_lock = layer[l].busy_lock
                       /\ "PRESENT" \in layer'[l].flags <=> "PRESENT" \in layer[l].flags
                       /\ "BUSY" \in layer'[l].flags <=> "BUSY" \in layer[l].flags
                       /\ "BUSY" \in layer[l].flags => layer'[l] = layer[l]
  BY <1>4, <1>5, Composed
<1>7. \A l \in Layer : back'[l] = IF l \in drawn THEN layer[l].buff ELSE back[l]
  BY <1>2, <1>6
<1>8. layer' \in [Layer -> LayerRecord] BY <1>2, <1>6
<1>9. order' \in Seq(Layer \union {None})
  <2>1. layers \in Seq(Layer) BY DEF ComposerInv, TypeOK
  <2>2. DOMAIN layers = 1 .. Len(layers) /\ Len(layers) \in Nat BY <2>1
  <2>3. order' \in [1 .. Len(layers) -> Layer \union {None}] BY <1>2, <1>3, <2>2
  <2> QED BY <2>2, <2>3, Sequences
<1>10. back' \in [Layer -> Content]
  <2>1. \A l \in Layer : layer[l].buff \in Content BY <1>4 DEF LayerRecord
  <2>2. \A l \in Layer : back'[l] \in Content BY <1>7, <2>1 DEF ComposerInv, TypeOK
  <2> QED BY <1>2, <2>2
<1> HIDE DEF drawn, after
<1>11. TypeOK'
  <2>1. moved' \subseteq Layer BY <1>2 DEF ComposerInv, TypeOK
  <2> QED BY <1>1, <1>2, <1>8, <1>9, <1>10, <2>1 DEF ComposerInv, TypeOK, history
<1>12. /\ InArray' = InArray
       /\ \A l \in Layer : Present(l)' = Present(l)
       /\ Stacked' /\ Held' /\ Windowed'
       /\ \A l \in Layer : Editors(l)' = Editors(l)
  BY <1>1, <1>2, <1>6, FrameKeeps
<1>13. written' = written /\ committed' = committed BY <1>2 DEF history
<1>14. Buffers'
  <2>1. ASSUME NEW l \in InArray, Editors(l) = {} PROVE Calm(l)'
    <3>1. Calm(l) /\ l \in Layer BY <1>3, <2>1 DEF ComposerInv, Buffers
    <3>2. CASE l \in drawn
      <4>1. /\ "DIRTY" \in layer[l].flags => layer'[l].buff2 = layer[l].buff
            /\ "DIRTY" \notin layer[l].flags => layer'[l] = layer[l]
        BY <1>4, <1>5, <3>1, <3>2, Composed DEF Calm
      <4> QED BY <1>6, <1>7, <1>13, <3>1, <3>2, <4>1 DEF Calm
    <3>3. CASE l \notin drawn BY <1>5, <1>7, <1>13, <3>1, <3>3 DEF Calm
    <3> QED BY <3>2, <3>3
  <2>2. ASSUME NEW l \in InArray, Editors(l) # {} PROVE Busy(l)'
    <3>1. Busy(l) /\ l \in Layer BY <1>3, <2>2 DEF ComposerInv, Buffers
    <3>2. layer'[l] = layer[l] BY <1>6, <3>1 DEF Busy
    <3>3. back'[l] = back[l] BY <1>7, <3>1 DEF Busy
    <3> QED BY <1>13, <3>1, <3>2, <3>3 DEF Busy
  <2>3. ASSUME NEW u \in Tasks, pc'[u] = "end" PROVE layer'[held'[u]].buff2.own = Torn
    <3>1. pc[u] = "end" /\ held'[u] = held[u] BY <1>1, <1>2, <2>3
    <3>2. held[u] \in InArray /\ held[u] \in Layer
      BY <3>1, HeldPresent DEF ComposerInv, Held
    <3>3. u \in Editors(held[u]) BY <3>1 DEF Editors
    <3>4. Busy(held[u]) BY <3>2, <3>3 DEF ComposerInv, Buffers
    <3>5. layer'[held[u]] = layer[held[u]] BY <1>6, <3>2, <3>4 DEF Busy
    <3> QED BY <3>1, <3>5 DEF ComposerInv, Buffers
  <2> QED BY <1>3, <1>12, <2>1, <2>2, <2>3 DEF Buffers
<1>15. Fresh'
  BY <1>2, <1>3, <1>7, <1>12, <1>13 DEF ComposerInv, Fresh
<1>16. CleanMeansShown'
  <2>1. ASSUME NEW l \in InArray, Present(l), Editors(l) = {} PROVE back'[l] = committed'[l]
    <3>1. Calm(l) /\ l \in drawn /\ l \in Layer
      BY <1>3, <2>1 DEF ComposerInv, Buffers
    <3> QED BY <1>7, <1>13, <3>1 DEF Calm
  <2>2. \A l \in InArray : Present(l) => l \notin moved' BY <1>2, <1>3
  <2>3. At(t, "present")' BY <1>1 DEF At
  <2> QED BY <1>3, <1>12, <2>1, <2>2, <2>3 DEF CleanMeansShown
<1> QED BY <1>11, <1>12, <1>14, <1>15, <1>16 DEF ComposerInv

---------------------------------------------------------------------------
(* The theorems.                                                           *)

\* The invariant holds after the boot ...
LEMMA InvInit == Init => ComposerInv
<1> SUFFICES ASSUME Init PROVE ComposerInv OBVIOUS
<1>1. TypeOK BY TypeInit
<1>2. /\ InArray = {Console, Cursor} /\ DOMAIN layers = {1, 2}
      /\ layers[1] = Console /\ layers[2] = Cursor
  BY DEF Init, InArray
<1>3. /\ \A l \in {Console, Cursor} :
           /\ layer[l].buff = Black /\ layer[l].buff2 = Black /\ layer[l].busy_lock = 0
           /\ layer[l].flags = {"PRESENT"}
      /\ \A l \in Layer : back[l] = Black /\ written[l] = Black /\ committed[l] = Black
      /\ moved = {} /\ layers_dirty = TRUE /\ behind = FALSE
  BY Names, NewLayers DEF Init
<1>4. Stacked BY <1>2, <1>3, Names DEF Stacked, Present
<1>5. \A t \in Tasks : held[t] = None /\ slot[t] = None /\ pc[t] \in {"run", "dead"}
  BY DEF Init
<1>6. \A i \in Slot : ~windows[i].active BY DEF Init, Free
<1>7. Held BY <1>5 DEF Held
<1>8. Windowed BY <1>6 DEF Windowed, Open
<1>9. Buffers
  <2>1. \A l \in Layer : Editors(l) = {} BY <1>5 DEF Editors
  <2>2. \A l \in InArray : Calm(l) BY <1>2, <1>3, Names DEF Calm
  <2> QED BY <1>2, <1>5, <2>1, <2>2, Names DEF Buffers
<1>10. Fresh BY <1>3 DEF Fresh
<1>11. CleanMeansShown BY <1>3 DEF CleanMeansShown
<1> QED BY <1>1, <1>4, <1>7, <1>8, <1>9, <1>10, <1>11 DEF ComposerInv

\* ... and every step keeps it.
LEMMA InvNext == ComposerInv /\ [Next]_vars => ComposerInv'
<1> SUFFICES ASSUME ComposerInv, [Next]_vars PROVE ComposerInv' OBVIOUS
<1>1. ASSUME NEW t \in Tasks, Calls(t) PROVE ComposerInv'
  BY <1>1, CreateStep, ExitStep, QuietStep, PutSteps, BeginSteps, SetZStep, DestroyStep DEF Calls
<1>2. ASSUME NEW t \in Tasks, Continues(t) PROVE ComposerInv'
  BY <1>2, WriteStep, EndStep, QuietStep, CloseStep, PrepareStep, FlushStep
     DEF Continues, composer_all
<1>3. CASE konsole_redraw_from_history BY <1>3, BeginSteps, Names
<1>4. CASE mouse_cursor_move \/ CursorMove \/ composer_task_wakes \/ UNCHANGED vars
  BY <1>4, QuietStep, Names
<1> QED BY <1>1, <1>2, <1>3, <1>4 DEF Next

\* The invariant that everything else follows from.
THEOREM ComposerInvariant == Spec => []ComposerInv
<1> QED BY InvInit, InvNext, PTL DEF Spec

\* Every variable keeps its type: in particular busy_lock never falls below 0.
THEOREM ComposerTypes == Spec => []TypeOK
<1>1. ComposerInv => TypeOK BY DEF ComposerInv
<1> QED BY <1>1, ComposerInvariant, PTL

\* What composer.c:187 and 188 free is used by no window and by no edit.
THEOREM LayersStayLive == Spec => []LayersLive
<1>1. ComposerInv => LayersLive
  BY HeldPresent DEF ComposerInv, LayersLive, Windowed, Stacked, Present
<1> QED BY <1>1, ComposerInvariant, PTL

\* Nothing that clears layers_dirty passes over an edit or a move.
THEOREM CleanComposerHasShown == Spec => []CleanMeansShown
<1>1. ComposerInv => CleanMeansShown BY DEF ComposerInv
<1> QED BY <1>1, ComposerInvariant, PTL

\* busy_lock counts the edits, nested ones included, that are in progress.
THEOREM EditsAreCounted == Spec => []EditsCounted
<1>1. ASSUME ComposerInv, NEW l \in InArray
      PROVE  /\ layer[l].busy_lock = Cardinality(Editors(l))
             /\ "BUSY" \in layer[l].flags <=> Editors(l) # {}
             /\ Editors(l) = {} => layer[l].buff = written[l]
  <2>1. l \in Layer BY <1>1, InArrayLayers DEF ComposerInv
  <2>2. CASE Editors(l) = {} BY <1>1, <2>2, FS_EmptySet DEF ComposerInv, Buffers, Calm
  <2>3. CASE Editors(l) # {}
    <3>1. Editors(l) = {t \in Tasks : held[t] = l}
      BY <1>1, <2>1, EditorsHold DEF ComposerInv
    <3>2. PICK t \in Tasks : held[t] = l BY <2>3, <3>1
    <3>3. Editors(l) = {t}
      BY <1>1, <2>1, <3>1, <3>2, OneEditor, Names DEF ComposerInv
    <3>4. Cardinality(Editors(l)) = 1 BY <3>3, FS_Singleton
    <3> QED BY <1>1, <2>3, <3>4 DEF ComposerInv, Buffers, Busy
  <2> QED BY <2>2, <2>3
<1>2. ComposerInv => EditsCounted BY <1>1 DEF EditsCounted
<1> QED BY <1>2, ComposerInvariant, PTL

---------------------------------------------------------------------------
(* The refinement.                                                         *)

\* The end of an outermost edit commits; that of an inner one does nothing.
LEMMA ViewCommit ==
  ASSUME ComposerInv, NEW l \in Layer, NEW r, NEW w \in Picture,
         EndsEdit(l, r, w), UNCHANGED back
  PROVE  [View!Next]_(View!vars)
<1>1. CASE r.busy_lock = 0
  <2>1. committed' = [committed EXCEPT ![l] = w] BY <1>1 DEF EndsEdit
  <2> QED BY <2>1 DEF View!Next, View!Commit
<1>2. CASE r.busy_lock # 0
  <2>1. committed' = committed BY <1>2 DEF EndsEdit, ComposerInv, TypeOK
  <2> QED BY <2>1 DEF View!vars
<1> QED BY <1>1, <1>2

\* What is destroyed is forgotten.
LEMMA ViewForget ==
  ASSUME ComposerInv, NEW t \in Tasks, composer_flush_prepare(t)
  PROVE  View!Next
<1> DEFINE kept == {l \in InArray : Present(l)}
           S == Layer \ kept
<1>1. kept \subseteq Layer BY InArrayLayers DEF ComposerInv
<1>2. /\ committed' = [l \in Layer |-> IF l \in kept THEN committed[l] ELSE Black]
      /\ back' = [l \in Layer |-> IF l \in kept THEN back[l] ELSE Black]
  BY DEF composer_flush_prepare
<1> HIDE DEF kept
<1>3. /\ committed' = [l \in Layer |-> IF l \in S THEN Black ELSE committed[l]]
      /\ back' = [l \in Layer |-> IF l \in S THEN Black ELSE back[l]]
  BY <1>2
<1>4. S \in SUBSET Layer OBVIOUS
<1> QED BY <1>3, <1>4 DEF View!Next, View!Forget

\* The picture takes what is committed, or leaves a layer under edit as it was.
LEMMA ViewDraw ==
  ASSUME ComposerInv, NEW t \in Tasks, composer_flush(t)
  PROVE  View!Next
<1> DEFINE drawn == {l \in InArray : Present(l)}
<1>1. /\ DOMAIN back' = Layer /\ committed' = committed
      /\ \A l \in Layer : back'[l] = IF l \in drawn THEN layer[l].buff ELSE back[l]
  <2>1. \A l \in Layer : layer[l] \in LayerRecord BY DEF ComposerInv, TypeOK
  <2>2. \A l \in Layer : composer_compose_layer(layer[l]).buff = layer[l].buff
    BY <2>1, Composed
  <2> QED BY <2>2 DEF composer_flush, history
<1>2. \A l \in drawn : layer[l].buff \in {back[l], committed[l]}
  BY DEF ComposerInv, Buffers, Calm, Busy
<1>3. \A l \in Layer : back'[l] \in {back[l], committed[l]} BY <1>1, <1>2
<1>4. View!Draw BY <1>1, <1>3 DEF View!Draw
<1> QED BY <1>4 DEF View!Next

\* Every step is one of LayerView or leaves its variables alone.
LEMMA ViewStep == ComposerInv /\ [Next]_vars => [View!Next]_(View!vars)
<1> SUFFICES ASSUME ComposerInv, [Next]_vars PROVE [View!Next]_(View!vars) OBVIOUS
<1>1. ASSUME UNCHANGED <<committed, back>> PROVE [View!Next]_(View!vars)
  BY <1>1 DEF View!vars
<1>2. ASSUME konsole_putch, UNCHANGED back PROVE [View!Next]_(View!vars)
  <2>1. Console \in Layer /\ written[Console] \in Picture
    BY Names DEF ComposerInv, TypeOK
  <2>2. [written[Console] EXCEPT !.put = Flip(@)] \in Picture BY <2>1 DEF Picture, Flip
  <2> QED BY <1>2, <2>1, <2>2, ViewCommit DEF konsole_putch
<1>3. ASSUME NEW t \in Tasks, Calls(t) PROVE [View!Next]_(View!vars)
  <2>1. CASE sys_win_create(t) \/ sys_exit(t) \/ sys_kill(t) \/ Spawn(t)
    BY <1>1, <2>1 DEF sys_win_create, sys_exit, sys_kill, Spawn, screen, history
  <2>2. CASE PutChar(t) \/ warning(t) BY <1>2, <2>2 DEF PutChar, warning, screen
  <2>3. ASSUME NEW i \in Slot, \/ sys_win_commit(t, i) \/ sys_win_move(t, i)
                               \/ sys_win_set_z(t, i) \/ sys_win_destroy(t, i)
        PROVE  [View!Next]_(View!vars)
    BY <1>1, <2>3
       DEF sys_win_commit, BeginEdit, sys_win_move, sys_win_set_z, sys_win_destroy, screen, history
  <2> QED BY <1>3, <2>1, <2>2, <2>3 DEF Calls
<1>4. ASSUME NEW t \in Tasks, EndEdit(t) PROVE [View!Next]_(View!vars)
  <2> DEFINE l == held[t]
             v == Flip(written[l].own)
             full == [layer[l] EXCEPT !.buff2.own = IF @ = Torn THEN v ELSE Torn]
             w == [written[l] EXCEPT !.own = v]
  <2>1. pc[t] = "end" BY <1>4 DEF EndEdit, At
  <2>2. l \in Layer BY <2>1, HeldPresent DEF ComposerInv, Held
  <2>3. w \in Picture
    <3>1. written[l] \in Picture BY <2>2 DEF ComposerInv, TypeOK
    <3> QED BY <3>1 DEF Picture, Flip
  <2>4. EndsEdit(l, layer_end_edit(full), w) /\ UNCHANGED back BY <1>4 DEF EndEdit, screen
  <2> HIDE DEF l, full, w
  <2> QED BY <2>2, <2>3, <2>4, ViewCommit
<1>5. ASSUME NEW t \in Tasks, Continues(t) PROVE [View!Next]_(View!vars)
  <2>1. CASE WriteHalf(t) \/ layer_set_z_index(t) \/ CloseWindow(t) \/ framebuffer_flush(t)
    BY <1>1, <2>1
       DEF WriteHalf, layer_set_z_index, CloseWindow, framebuffer_flush, screen, history
  <2>2. CASE composer_flush_prepare(t) BY <2>2, ViewForget
  <2>3. CASE composer_flush(t) BY <2>3, ViewDraw
  <2> QED BY <1>4, <1>5, <2>1, <2>2, <2>3 DEF Continues, composer_all
<1>6. CASE konsole_redraw_from_history \/ mouse_cursor_move \/ CursorMove \/ composer_task_wakes
  BY <1>1, <1>6 DEF konsole_redraw_from_history, BeginEdit, mouse_cursor_move, CursorMove,
                    composer_task_wakes, screen, history
<1>7. CASE UNCHANGED vars BY <1>1, <1>7 DEF vars, screen, history
<1> QED BY <1>3, <1>5, <1>6, <1>7 DEF Next

\* Whoever draws sees finished edits only, the last one or what was shown before:
\* composer.c's two buffers keep LayerView's promise.
THEOREM ComposerKeepsPromise == Spec => ViewPromise
<1>1. Init => View!Init BY DEF Init, View!Init
<1> QED BY <1>1, ViewStep, ComposerInvariant, PTL DEF Spec, ViewPromise, View!Spec
=============================================================================

------------------------------ MODULE Composer ------------------------------
(***************************************************************************)
(* The composer and its layers (gui/composer.c), the windows of user tasks *)
(* (syscall/sys_common.c), the console's drawing (gui/konsole.c,           *)
(* gui/renderer.c) and the mouse cursor (drivers/mouse.c).                 *)
(*                                                                         *)
(* What holds the task lock is one action (HoldersRunOrWait of Sched); the *)
(* stretches between two locked sections, in which another task may run,   *)
(* are told apart by pc.  A window's slot is only ever changed by its      *)
(* owner or while it is free, so _window_ok and the step that follows it   *)
(* are one action.                                                         *)
(*                                                                         *)
(* A layer's contents are a record of two parts: own, which an edit        *)
(* without the lock writes in two halves (a window's owner, the terminal   *)
(* when it scrolls), and put, which konsole_putch writes under the lock.   *)
(* Every layer is LAYER_VISIBLE.  malloc may give a freed layer's address  *)
(* to the next one; it fails for want of addresses only in the model, and  *)
(* the call then waits.                                                    *)
(***************************************************************************)
EXTENDS Integers, Sequences, FiniteSets

CONSTANTS
  Users,        \* user tasks
  Printers,     \* the tasks that write to the console
  Warners,      \* those of them that may call WARNING
  Terminal,     \* kernel_task, which scrolls the console
  composer_task,
  int_worker,   \* the task that calls the mouse's bottom half
  MouseMoves,   \* whether it does
  Addresses,    \* what malloc may return for a window's layer
  Console, Cursor,  \* konsole_layer and cursor_layer
  MAX_WINDOWS,  \* 16 in the code
  ZIndices,     \* the z indices that windows ask for
  None          \* no layer, no slot, no pid

ASSUME ComposerAssumption ==
  /\ Printers \subseteq Users \union {Terminal, int_worker}
  /\ Warners \subseteq Printers
  /\ MouseMoves \in BOOLEAN
  /\ Terminal \notin Users
  /\ composer_task \notin Users \union {Terminal}
  /\ int_worker \notin Users \union {Terminal, composer_task}
  /\ Console # Cursor
  /\ {Console, Cursor} \intersect Addresses = {}
  /\ MAX_WINDOWS \in Nat \ {0}
  /\ ZIndices \subseteq Int
  /\ None \notin Users \union Addresses \union {Console, Cursor} \union Nat

Tasks == Users \union {Terminal, composer_task, int_worker}
Layer == Addresses \union {Console, Cursor}
Slot == 0 .. MAX_WINDOWS - 1

Torn == 2  \* a part of which one half has been written
Flip(v) == 1 - v
Picture == [own : {0, 1}, put : {0, 1}]
Black == [own |-> 0, put |-> 0]

VARIABLES
  layer,        \* the fields of an allocated layer, by address
  layers,       \* the array of layers
  layers_dirty,
  windows,
  pc,           \* where a task is
  held,         \* the layer it works on there
  slot,         \* the window that sys_win_destroy is closing
  back,         \* what the back buffer shows of a layer
  moved,        \* the layers that are not where it shows them
  order,        \* the array when they were drawn, None for a layer passed over
  behind,       \* whether the screen still lacks the back buffer's contents
  written,      \* all that has been written to a layer: a history variable
  committed     \* written, as of the last moment without an edit: likewise

history == <<written, committed>>
screen == <<back, moved, order, behind>>
places == <<pc, held, slot>>
vars == <<layer, layers, layers_dirty, windows, places, screen, history>>

Place == {"run", "write", "end", "mark", "close", "prepare", "flush", "present", "move", "dead"}

InArray == {layers[i] : i \in DOMAIN layers}
Present(l) == l \in InArray /\ "PRESENT" \in layer[l].flags
At(t, p) == pc[t] = p
Goto(t, p) == pc' = [pc EXCEPT ![t] = p]

---------------------------------------------------------------------------
(* A layer and its edits.                                                  *)

NewLayer(z) ==
  [buff |-> Black, buff2 |-> Black, busy_lock |-> 0, z_index |-> z,
   flags |-> {"PRESENT"}]

\* What is left at a free address is of no matter.
Destroyed == [NewLayer(0) EXCEPT !.flags = {}]

Swapped(r) == [r EXCEPT !.buff = r.buff2, !.buff2 = r.buff]

layer_begin_edit(r) ==
  LET entered == IF r.busy_lock = 0
                 THEN [Swapped(r) EXCEPT !.flags = @ \union {"BUSY", "DIRTY"}]
                 ELSE r
  IN [entered EXCEPT !.busy_lock = @ + 1]

\* Mutant: the end of an inner edit takes the layer out of its editing state.
layer_end_edit_inner(r) == [Swapped(r) EXCEPT !.busy_lock = @ - 1, !.flags = @ \ {"BUSY"}]

layer_end_edit(r) ==
  LET left == [r EXCEPT !.busy_lock = @ - 1]
  IN IF left.busy_lock = 0
     THEN [Swapped(left) EXCEPT !.flags = @ \ {"BUSY"}]
     ELSE left

\* Mutant: buff2 is brought up to date while it is being written.
compose_layer_busy(r) ==
  IF "DIRTY" \in r.flags THEN [r EXCEPT !.buff2 = r.buff, !.flags = @ \ {"DIRTY"}] ELSE r

\* What composer_compose_layer leaves of a layer that is drawn.
composer_compose_layer(r) ==
  IF "DIRTY" \in r.flags /\ "BUSY" \notin r.flags
  THEN [r EXCEPT !.buff2 = r.buff, !.flags = @ \ {"DIRTY"}]
  ELSE r

\* Mutant: the composer is not told of the edit.
EndsEdit_unmarked(l, r, w) ==
  /\ layer' = [layer EXCEPT ![l] = r]
  /\ written' = [written EXCEPT ![l] = w]
  /\ committed' = [committed EXCEPT ![l] = IF r.busy_lock = 0 THEN w ELSE @]
  /\ UNCHANGED layers_dirty

\* The end of an edit of l, which leaves r there and has now written w.
EndsEdit(l, r, w) ==
  /\ layer' = [layer EXCEPT ![l] = r]
  /\ layers_dirty' = (layers_dirty \/ (r.busy_lock = 0 /\ "PRESENT" \in r.flags))
  /\ written' = [written EXCEPT ![l] = w]
  /\ committed' = [committed EXCEPT ![l] = IF r.busy_lock = 0 THEN w ELSE @]

\* Half of the copy into buff2: the user's memory in sys_win_commit, the pixels
\* of a character in renderer_draw_char.
WriteHalf(t) ==
  /\ At(t, "write")
  /\ layer' = [layer EXCEPT ![held[t]].buff2.own = Torn]
  /\ Goto(t, "end")
  /\ UNCHANGED <<layers, layers_dirty, windows, held, slot, screen, history>>

\* The other half, which completes the first if that is still there; then the
\* guard of LAYER_EDIT_FUNCTION closes.
EndEdit(t) ==
  /\ At(t, "end")
  /\ LET l == held[t]
         v == Flip(written[l].own)
         full == [layer[l] EXCEPT !.buff2.own = IF @ = Torn THEN v ELSE Torn]
     IN EndsEdit(l, layer_end_edit(full), [written[l] EXCEPT !.own = v])
  /\ held' = [held EXCEPT ![t] = None]
  /\ Goto(t, "run")
  /\ UNCHANGED <<layers, windows, slot, screen>>

---------------------------------------------------------------------------
(* Windows.                                                                *)

Free == [active |-> FALSE, owner_pid |-> None, layer |-> None]

Window(t, l) == [active |-> TRUE, owner_pid |-> t, layer |-> l]

\* Mutant: any task may use any window.
window_ok_anyone(t, i) == windows[i].active

_window_ok(t, i) == windows[i].active /\ windows[i].owner_pid = t

\* composer_create_layer, which does not set layers_dirty.
composer_create_layer(l, z) ==
  /\ layer' = [layer EXCEPT ![l] = NewLayer(z)]
  /\ layers' = Append(layers, l)

sys_win_create(t) ==
  /\ t \in Users /\ At(t, "run")
  /\ \E i \in Slot, l \in Addresses \ InArray, z \in ZIndices :
       /\ ~windows[i].active
       /\ \A j \in Slot : j < i => windows[j].active
       /\ composer_create_layer(l, z)
       /\ windows' = [windows EXCEPT ![i] = Window(t, l)]
  /\ UNCHANGED <<layers_dirty, places, screen, history>>

\* An edit begins: of a window, or of the console when the terminal scrolls it.
BeginEdit(t, l) ==
  /\ layer' = [layer EXCEPT ![l] = layer_begin_edit(@)]
  /\ held' = [held EXCEPT ![t] = l]
  /\ Goto(t, "write")
  /\ UNCHANGED <<layers, layers_dirty, windows, slot, screen, history>>

sys_win_commit(t, i) ==
  /\ At(t, "run") /\ _window_ok(t, i)
  /\ BeginEdit(t, windows[i].layer)

konsole_redraw_from_history ==
  /\ Terminal \in Printers /\ At(Terminal, "run")
  /\ BeginEdit(Terminal, Console)

\* Mutant: a moved layer is not drawn again.
layer_move_unmarked(l) == moved' = moved \union {l} /\ UNCHANGED layers_dirty

\* layer_move takes the lock.
layer_move(l) ==
  /\ moved' = moved \union {l}
  /\ layers_dirty' = (layers_dirty \/ "PRESENT" \in layer[l].flags)

sys_win_move(t, i) ==
  /\ At(t, "run") /\ _window_ok(t, i)
  /\ layer_move(windows[i].layer)
  /\ UNCHANGED <<layer, layers, windows, places, back, order, behind, history>>

\* layer_set_z_index does not take the lock: first the index, ...
sys_win_set_z(t, i) ==
  /\ At(t, "run") /\ _window_ok(t, i)
  /\ \E z \in ZIndices : layer' = [layer EXCEPT ![windows[i].layer].z_index = z]
  /\ Goto(t, "mark")
  /\ UNCHANGED <<layers, layers_dirty, windows, held, slot, screen, history>>

\* ... then layers_dirty.
layer_set_z_index(t) ==
  /\ At(t, "mark")
  /\ layers_dirty' = TRUE
  /\ Goto(t, "run")
  /\ UNCHANGED <<layer, layers, windows, held, slot, screen, history>>

\* composer_erase_layer of several layers at once.
composer_erase_layers(S) ==
  /\ layer' = [l \in Layer |-> IF l \in S
                               THEN [layer[l] EXCEPT !.flags = @ \ {"PRESENT"}]
                               ELSE layer[l]]
  /\ layers_dirty' = (layers_dirty \/ S # {})

\* sys_win_destroy erases the layer ...
sys_win_destroy(t, i) ==
  /\ At(t, "run") /\ _window_ok(t, i)
  /\ composer_erase_layers({windows[i].layer})
  /\ slot' = [slot EXCEPT ![t] = i]
  /\ Goto(t, "close")
  /\ UNCHANGED <<layers, windows, held, screen, history>>

\* ... and then, without the lock, gives up the slot.
CloseWindow(t) ==
  /\ At(t, "close")
  /\ windows' = [windows EXCEPT ![slot[t]] = Free]
  /\ slot' = [slot EXCEPT ![t] = None]
  /\ Goto(t, "run")
  /\ UNCHANGED <<layer, layers, layers_dirty, held, screen, history>>

Owned(t) == {i \in Slot : windows[i].active /\ windows[i].owner_pid = t}

\* sys_exit with syscall_cleanup_task, all under the lock.
sys_exit(t) ==
  /\ t \in Users /\ At(t, "run")
  /\ composer_erase_layers({windows[i].layer : i \in Owned(t)})
  /\ windows' = [i \in Slot |-> IF i \in Owned(t) THEN Free ELSE windows[i]]
  /\ Goto(t, "dead")
  /\ UNCHANGED <<layers, held, slot, screen, history>>

\* sys_kill of the caller itself, which ends without the clean-up.
sys_kill(t) ==
  /\ t \in Users /\ At(t, "run")
  /\ Goto(t, "dead")
  /\ UNCHANGED <<layer, layers, layers_dirty, windows, held, slot, screen, history>>

\* A new task gets the pid.
Spawn(t) ==
  /\ At(t, "dead")
  /\ Goto(t, "run")
  /\ UNCHANGED <<layer, layers, layers_dirty, windows, held, slot, screen, history>>

---------------------------------------------------------------------------
(* The console and the cursor.                                             *)

\* konsole_putch holds the lock from its first line to its last; its edit is
\* nested in the terminal's when there is one.
konsole_putch ==
  LET w == [written[Console] EXCEPT !.put = Flip(@)]
      r == layer_begin_edit(layer[Console])
  IN EndsEdit(Console, layer_end_edit([r EXCEPT !.buff2.put = w.put]), w)

PutChar(t) ==
  /\ t \in Printers /\ At(t, "run")
  /\ konsole_putch
  /\ UNCHANGED <<layers, windows, places, screen>>

\* A task prints a warning and goes on to composer_all.
warning(t) ==
  /\ t \in Warners /\ At(t, "run")
  /\ konsole_putch
  /\ Goto(t, "prepare")
  /\ UNCHANGED <<layers, windows, held, slot, screen>>

\* mouse_cursor_move stores the coordinates one after the other ...
mouse_cursor_move ==
  /\ MouseMoves /\ At(int_worker, "run")
  /\ moved' = moved \union {Cursor}
  /\ Goto(int_worker, "move")
  /\ UNCHANGED <<layer, layers, layers_dirty, windows, held, slot, back, order, behind, history>>

\* ... and then calls layer_move.
CursorMove ==
  /\ At(int_worker, "move")
  /\ layer_move(Cursor)
  /\ Goto(int_worker, "run")
  /\ UNCHANGED <<layer, layers, windows, held, slot, back, order, behind, history>>

---------------------------------------------------------------------------
(* The composer.                                                           *)

\* The orders in which dynamic_array_quicksort with layer_less may leave the
\* layers of S; its pivots are random, so that equal indices come in any order.
Sorted(S) ==
  {q \in [1 .. Cardinality(S) -> S] :
     /\ \A l \in S : \E i \in DOMAIN q : q[i] = l
     /\ \A i, j \in DOMAIN q : q[i] = q[j] => i = j
     /\ \A i, j \in DOMAIN q : i < j => layer[q[i]].z_index <= layer[q[j]].z_index}

\* composer_task looks at the flag without the lock.
composer_task_wakes ==
  /\ At(composer_task, "run")
  /\ layers_dirty
  /\ Goto(composer_task, "prepare")
  /\ UNCHANGED <<layer, layers, layers_dirty, windows, held, slot, screen, history>>

\* The layers that are not PRESENT are sorted to the end and destroyed.
composer_flush_prepare(t) ==
  LET kept == {l \in InArray : Present(l)}
      without(f, v) == [l \in Layer |-> IF l \in kept THEN f[l] ELSE v]
  IN /\ At(t, "prepare")
     /\ layers' \in Sorted(kept)
     /\ layer' = without(layer, Destroyed)
     /\ back' = without(back, Black)
     /\ moved' = moved \intersect kept
     /\ written' = without(written, Black)
     /\ committed' = without(committed, Black)
     /\ Goto(t, "flush")
     /\ UNCHANGED <<layers_dirty, windows, held, slot, order, behind>>

composer_flush(t) ==
  LET drawn == {l \in InArray : Present(l)}
      after == [l \in Layer |-> IF l \in drawn THEN composer_compose_layer(layer[l]) ELSE layer[l]]
  IN /\ At(t, "flush")
     /\ layer' = after
     /\ back' = [l \in Layer |-> IF l \in drawn THEN after[l].buff ELSE back[l]]
     /\ moved' = moved \ drawn
     /\ order' = [i \in DOMAIN layers |-> IF layers[i] \in drawn THEN layers[i] ELSE None]
     /\ behind' = TRUE
     /\ layers_dirty' = FALSE
     /\ Goto(t, "present")
     /\ UNCHANGED <<layers, windows, held, slot, history>>

framebuffer_flush(t) ==
  /\ At(t, "present")
  /\ behind' = FALSE
  /\ Goto(t, "run")
  /\ UNCHANGED <<layer, layers, layers_dirty, windows, held, slot, back, moved, order, history>>

composer_all(t) == composer_flush_prepare(t) \/ composer_flush(t) \/ framebuffer_flush(t)

---------------------------------------------------------------------------

\* After the boot: the console and the cursor, drawn once.
Init ==
  /\ layer = [l \in Layer |->
                CASE l = Console -> NewLayer(10)
                  [] l = Cursor -> NewLayer(1000)
                  [] OTHER -> Destroyed]
  /\ layers = <<Console, Cursor>>
  /\ layers_dirty = TRUE
  /\ windows = [i \in Slot |-> Free]
  /\ pc = [t \in Tasks |-> IF t \in Users THEN "dead" ELSE "run"]
  /\ held = [t \in Tasks |-> None]
  /\ slot = [t \in Tasks |-> None]
  /\ back = [l \in Layer |-> Black]
  /\ moved = {}
  /\ order = <<Console, Cursor>>
  /\ behind = FALSE
  /\ written = [l \in Layer |-> Black]
  /\ committed = [l \in Layer |-> Black]

\* What a program asks for ...
Calls(t) ==
  \/ sys_win_create(t) \/ sys_exit(t) \/ sys_kill(t) \/ Spawn(t) \/ PutChar(t) \/ warning(t)
  \/ \E i \in Slot : \/ sys_win_commit(t, i) \/ sys_win_move(t, i)
                     \/ sys_win_set_z(t, i) \/ sys_win_destroy(t, i)

\* ... and how the kernel goes on with it.
Continues(t) ==
  WriteHalf(t) \/ EndEdit(t) \/ layer_set_z_index(t) \/ CloseWindow(t) \/ composer_all(t)

Next ==
  \/ \E t \in Tasks : Calls(t) \/ Continues(t)
  \/ konsole_redraw_from_history \/ mouse_cursor_move \/ CursorMove
  \/ composer_task_wakes

Spec == Init /\ [][Next]_vars

\* composer_task wakes from its sleep (SleeperWakes of Sched) and is run
\* (ReadyRuns); nothing is asked of the tasks that draw.
FairSpec == Spec /\ WF_vars(composer_task_wakes \/ composer_all(composer_task))

---------------------------------------------------------------------------
(* Properties.                                                             *)

Content == [own : {0, 1, Torn}, put : {0, 1}]

LayerRecord ==
  [buff : Content, buff2 : Content, busy_lock : Nat, z_index : Int,
   flags : SUBSET {"PRESENT", "BUSY", "DIRTY"}]

\* Every variable has its type.
TypeOK ==
  /\ layer \in [Layer -> LayerRecord]
  /\ layers \in Seq(Layer)
  /\ layers_dirty \in BOOLEAN
  /\ windows \in [Slot -> [active : BOOLEAN, owner_pid : Users \union {None},
                           layer : Addresses \union {None}]]
  /\ pc \in [Tasks -> Place]
  /\ held \in [Tasks -> Layer \union {None}]
  /\ slot \in [Tasks -> Slot \union {None}]
  /\ back \in [Layer -> Content]
  /\ moved \subseteq Layer
  /\ order \in Seq(Layer \union {None})
  /\ behind \in BOOLEAN
  /\ written \in [Layer -> Picture]
  /\ committed \in [Layer -> Picture]

Editors(l) == {t \in Tasks : pc[t] \in {"write", "end"} /\ held[t] = l}

\* A layer's counter is the number of edits in progress whoever nests them, it is
\* BUSY exactly during them, and outside them its front buffer holds everything
\* that has been written to it.
EditsCounted ==
  \A l \in InArray :
    /\ layer[l].busy_lock = Cardinality(Editors(l))
    /\ "BUSY" \in layer[l].flags <=> Editors(l) # {}
    /\ Editors(l) = {} => layer[l].buff = written[l]

\* The windows that are not just being closed.
Open == {i \in Slot : windows[i].active /\ \A t \in Tasks : slot[t] # i \/ ~At(t, "close")}

\* No layer is used after the composer has destroyed it: that of every open
\* window and of every edit is in the array and PRESENT, and no two open windows,
\* of dead owners or live, share one.
LayersLive ==
  /\ \A i \in Open : windows[i].layer \in InArray /\ Present(windows[i].layer)
  /\ \A t \in Tasks : held[t] # None => Present(held[t])
  /\ \A i, j \in Open : windows[i].layer = windows[j].layer => i = j
  /\ \A i, j \in DOMAIN layers : layers[i] = layers[j] => i = j

CursorMoving(l) == l = Cursor /\ At(int_worker, "move")

\* While layers_dirty is clear there is nothing to draw: the picture has every
\* finished edit and every position; and it has reached the screen or is on its way.
CleanMeansShown ==
  /\ ~layers_dirty =>
       \A l \in InArray : Present(l) =>
         /\ Editors(l) = {} => back[l] = committed[l]
         /\ l \in moved => CursorMoving(l)
  /\ behind => \E t \in Tasks : At(t, "present")

\* Two buffers and the counter implement the promise to whoever draws.
View == INSTANCE LayerView WITH
  Layers <- Layer, Pictures <- Picture, Blank <- Black, shown <- back
ViewPromise == View!Spec

\* A finished edit is drawn, unless the layer is edited again or erased first.
EditsShown ==
  \A l \in Layer :
    Present(l) /\ Editors(l) = {} /\ back[l] # committed[l]
      ~> ~Present(l) \/ Editors(l) # {} \/ back[l] = committed[l]

\* composer.h says of z_index that the smaller one is drawn earlier: what was drawn
\* last is in order, while nothing is marked as changed.
CleanMeansOrdered ==
  ~layers_dirty /\ (\A t \in Tasks : ~At(t, "mark")) =>
    \A i, j \in DOMAIN order :
      i < j /\ Present(order[i]) /\ Present(order[j]) =>
        layer[order[i]].z_index <= layer[order[j]].z_index
=============================================================================

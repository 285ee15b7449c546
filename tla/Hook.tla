-------------------------------- MODULE Hook --------------------------------
(***************************************************************************)
(* The hook library: registration of functions to intercept, blocks of     *)
(* trampolines near the modules, installation and removal of the patches.  *)
(* What is modelled of machine code is what leads where: the entry of a    *)
(* function holds its own code or a jump to a slot of a block; a slot holds*)
(* a jump to the wrapper, a copy of the entry that was there, and a jump   *)
(* back.  Whether the copied instructions can be moved is not modelled.    *)
(***************************************************************************)
EXTENDS Integers, FiniteSets, Sequences, SequencesExt

CONSTANTS
    Module,      \* full names of loaded shared objects
    Symbol,      \* names of functions
    Code,        \* entry addresses of functions
    Wrapper,     \* the functions of the user of the library
    Pointer,     \* variables that receive the address of the original
    None,        \* no module, no address, no function
    Original,    \* the code a function was loaded with
    Astray,      \* a jump to nowhere
    Address,     \* the address of each symbol in each module, None if missing
    Near,        \* pairs of modules within NULL_RIP_VAR_OFFSET of each other
    Request,     \* the calls of register_a_hook made: mod, func, new, ptr
    MAX_MODULE,
    Capacity,    \* trampolines that fit in MIN_MEM_SIZE
    MaxRegister  \* bound: hooks registered

ASSUME HookAssumption ==
    /\ Address \in [Module -> [Symbol -> Code \cup {None}]]
    /\ \A m, n \in Module : \A f, g \in Symbol :
          Address[m][f] = Address[n][g] /\ Address[m][f] # None => m = n
    /\ None \notin Module \cup Code \cup Wrapper \cup Pointer
    /\ None \notin (1 .. MAX_MODULE) \X (0 .. Capacity - 1)
    /\ Near \subseteq Module \X Module
    /\ \A m \in Module : <<m, m>> \in Near
    /\ Request \subseteq
          [mod : Module, func : Symbol, new : Wrapper, ptr : Pointer]
    /\ IsFiniteSet(Module) /\ Cardinality(Module) <= MAX_MODULE
    /\ MAX_MODULE \in Nat \ {0}
    /\ Capacity \in Nat
    /\ MaxRegister \in Nat /\ MaxRegister <= Capacity

VARIABLES
    found_libc,
    phase,          \* what the process is doing with the library
    num_hook,
    module_list,    \* for each module: name, hooks and idx_patch_blk; for each
                    \* hook: function, wrapper, pointer, old address, whether
                    \* the patch is disabled
    num_patch_blk,
    patch_blk_list, \* for each block: the module it is next to, num_trampoline
                    \* and the slots
    idx_mod,        \* loops of installation and removal
    iFunc,
    nFunc_InBlk,
    code,           \* the entry of each function: its own code, a jump to a
                    \* slot, or a jump that misses it
    real            \* the pointers to the original functions: None or a slot

table == <<num_hook, module_list>>
block == <<num_patch_blk, patch_blk_list>>
loop  == <<idx_mod, iFunc, nFunc_InBlk>>
vars  == <<found_libc, phase, table, block, loop, code, real>>

Index == 1 .. MAX_MODULE
Slots == 0 .. Capacity - 1
Free  == [addr |-> None, new |-> None, saved |-> None]

Init ==
    /\ found_libc \in BOOLEAN
    /\ phase = "register"
    /\ num_hook = 0
    /\ module_list = <<>>
    /\ num_patch_blk = 0
    /\ patch_blk_list = [b \in Index |->
          [at |-> None, num_trampoline |-> 0, slot |-> [i \in Slots |-> Free]]]
    /\ idx_mod = 1 /\ iFunc = 1 /\ nFunc_InBlk = 0
    /\ code = [a \in Code |-> Original]
    /\ real = [p \in Pointer |-> None]

-----------------------------------------------------------------------------
(* register_a_hook                                                         *)

\* query_registered_module: the index of module m, 0 if it is not registered.
query_registered_module(m) ==
    SelectInSeq(module_list, LAMBDA e : e.name = m)

\* The table entry stays also when the number of hooks then exceeds MAX_PATCH,
\* which only changes the result.  Without libc nothing is registered.
register_a_hook(r) ==
    LET i    == query_registered_module(r.mod)
        hook == [func |-> r.func, new |-> r.new, ptr |-> r.ptr,
                 addr |-> None, disabled |-> FALSE]
    IN  /\ phase = "register" /\ found_libc
        /\ num_hook < MaxRegister
        /\ num_hook' = num_hook + 1
        /\ module_list' =
              IF i = 0
              THEN Append(module_list,
                          [name |-> r.mod, hooks |-> <<hook>>, blk |-> 1])
              ELSE [module_list EXCEPT ![i].hooks = Append(@, hook)]
        /\ UNCHANGED <<found_libc, phase, block, loop, code, real>>

-----------------------------------------------------------------------------
(* install_hook                                                            *)

Resolve(m, h) == [h EXCEPT !.addr = Address[m][h.func],
                           !.disabled = (Address[m][h.func] = None)]

\* query_all_org_func_addr; functions that are missing are not patched.
query_all_org_func_addr ==
    /\ phase = "register"
    /\ phase' = IF found_libc THEN "allocate" ELSE "run"
    /\ module_list' = [i \in DOMAIN module_list |->
          [module_list[i] EXCEPT !.hooks =
              [j \in DOMAIN @ |-> Resolve(module_list[i].name, @[j])]]]
    /\ UNCHANGED <<found_libc, num_hook, block, loop, code, real>>

\* find_usable_block: the first block close enough to module m, 0 if none is.
find_usable_block(m) ==
    SelectInSeq([b \in 1 .. num_patch_blk |-> patch_blk_list[b].at],
                LAMBDA n : <<n, m>> \in Near)

Advance(first, last, next) ==
    IF idx_mod < last
    THEN idx_mod' = idx_mod + 1 /\ UNCHANGED phase
    ELSE idx_mod' = first /\ phase' = next

\* One round of allocate_memory_block_for_patches.  A module for which a block
\* is allocated keeps the index it had, that of the first block.
allocate_memory_block_for_patches ==
    LET m == module_list[idx_mod]
        b == find_usable_block(m.name)
        n == num_patch_blk + 1
    IN  /\ phase = "allocate"
        /\ IF module_list = <<>>
           THEN phase' = "run" /\ UNCHANGED <<module_list, block, idx_mod>>
           ELSE /\ Advance(1, Len(module_list), "install")
                /\ \/ /\ \A j \in DOMAIN m.hooks : m.hooks[j].disabled
                      /\ UNCHANGED <<module_list, block>>
                   \/ /\ \E j \in DOMAIN m.hooks : ~m.hooks[j].disabled
                      /\ IF b # 0
                         THEN /\ module_list' =
                                    [module_list EXCEPT ![idx_mod].blk = b]
                              /\ UNCHANGED block
                         ELSE /\ num_patch_blk' = n
                              /\ patch_blk_list' =
                                    [patch_blk_list EXCEPT ![n].at = m.name]
                              /\ UNCHANGED module_list
        /\ UNCHANGED <<found_libc, num_hook, iFunc, nFunc_InBlk, code, real>>

\* Mutant: duplicates are patched again.
DuplicatedNever(m, i) == FALSE

\* Whether an earlier patch of module m changes the same entry as hook i.
Duplicated(m, i) ==
    \E j \in 1 .. i - 1 :
        ~m.hooks[j].disabled /\ m.hooks[j].addr = m.hooks[i].addr

\* Mutant: a slot is left free between modules.
FirstSlotNext(m) == IF iFunc = 1 THEN patch_blk_list[m.blk].num_trampoline + 1
                                 ELSE nFunc_InBlk

\* Mutant: each module starts at the first slot.
FirstSlotZero(m) == IF iFunc = 1 THEN 0 ELSE nFunc_InBlk

\* nFunc_InBlk starts behind the trampolines of earlier modules.
FirstSlot(m) == IF iFunc = 1 THEN patch_blk_list[m.blk].num_trampoline
                             ELSE nFunc_InBlk

\* One round of the inner loop for a hook that is not patched.
Skip ==
    LET m == module_list[idx_mod]
    IN  /\ phase = "install" /\ iFunc <= Len(m.hooks)
        /\ m.hooks[iFunc].disabled \/ Duplicated(m, iFunc)
        /\ module_list' = [module_list EXCEPT
              ![idx_mod].hooks[iFunc].disabled = TRUE,
              ![idx_mod].hooks[iFunc].addr = None]
        /\ iFunc' = iFunc + 1
        /\ nFunc_InBlk' = FirstSlot(m)
        /\ UNCHANGED <<found_libc, phase, num_hook, block, idx_mod, code, real>>

\* The jump of a patch has an offset of 32 bits.
JumpTo(b, i, m) == IF <<patch_blk_list[b].at, m>> \in Near THEN <<b, i>>
                                                            ELSE Astray

\* Another round: the slot is filled, the pointer to the original function is
\* set to its trampoline, and the entry of the function is patched.
Patch ==
    LET m == module_list[idx_mod]
        h == m.hooks[iFunc]
        i == FirstSlot(m)
    IN  /\ phase = "install" /\ iFunc <= Len(m.hooks)
        /\ ~h.disabled /\ ~Duplicated(m, iFunc)
        /\ patch_blk_list' = [patch_blk_list EXCEPT ![m.blk].slot[i] =
              [addr |-> h.addr, new |-> h.new, saved |-> code[h.addr]]]
        /\ real' = [real EXCEPT ![h.ptr] = <<m.blk, i>>]
        /\ code' = [code EXCEPT ![h.addr] = JumpTo(m.blk, i, m.name)]
        /\ iFunc' = iFunc + 1
        /\ nFunc_InBlk' = i + 1
        /\ UNCHANGED <<found_libc, phase, table, num_patch_blk, idx_mod>>

\* Mutant: only the patches of the last module are added.
NextModuleAssigned ==
    LET m == module_list[idx_mod]
    IN  /\ phase = "install" /\ iFunc = Len(m.hooks) + 1
        /\ patch_blk_list' = [patch_blk_list EXCEPT ![m.blk].num_trampoline =
              Len(m.hooks)]
        /\ Advance(1, Len(module_list), "run")
        /\ iFunc' = 1 /\ nFunc_InBlk' = 0
        /\ UNCHANGED <<found_libc, table, num_patch_blk, code, real>>

\* The end of the round of the outer loop: the hooks of the module are added,
\* whether patched or not.
NextModule ==
    LET m == module_list[idx_mod]
    IN  /\ phase = "install" /\ iFunc = Len(m.hooks) + 1
        /\ patch_blk_list' = [patch_blk_list EXCEPT ![m.blk].num_trampoline =
              @ + Len(m.hooks)]
        /\ Advance(1, Len(module_list), "run")
        /\ iFunc' = 1 /\ nFunc_InBlk' = 0
        /\ UNCHANGED <<found_libc, table, num_patch_blk, code, real>>

-----------------------------------------------------------------------------
(* uninstall_hook                                                          *)

\* What the entry of function a is after the slots of all blocks have been
\* copied back, blocks and slots in ascending order.  A slot that was never
\* filled is passed over.
Back(a) ==
    LET used == {s \in (1 .. num_patch_blk) \X Slots :
                    /\ s[2] < patch_blk_list[s[1]].num_trampoline
                    /\ patch_blk_list[s[1]].slot[s[2]].addr = a}
        last == CHOOSE s \in used : \A t \in used :
                    t[1] < s[1] \/ (t[1] = s[1] /\ t[2] <= s[2])
    IN  IF used = {} THEN code[a]
        ELSE patch_blk_list[last[1]].slot[last[2]].saved

\* Then the blocks are unmapped; what their slots held is gone.  A second call
\* does nothing, a call without libc neither.
uninstall_hook ==
    /\ phase = "run"
    /\ phase' = "uninstalled"
    /\ IF found_libc
       THEN /\ code' = [a \in Code |-> Back(a)]
            /\ patch_blk_list' = [b \in Index |->
                  IF b <= num_patch_blk
                  THEN [patch_blk_list[b] EXCEPT
                          !.at = None, !.slot = [i \in Slots |-> Free]]
                  ELSE patch_blk_list[b]]
       ELSE UNCHANGED <<code, patch_blk_list>>
    /\ UNCHANGED <<found_libc, table, num_patch_blk, loop, real>>

Next ==
    \/ \E r \in Request : register_a_hook(r)
    \/ query_all_org_func_addr \/ allocate_memory_block_for_patches
    \/ Skip \/ Patch \/ NextModule \/ uninstall_hook

Spec == Init /\ [][Next]_vars

-----------------------------------------------------------------------------
(* Properties.                                                             *)

Slot(s) == patch_blk_list[s[1]].slot[s[2]]
Target  == Index \X Slots

\* The types; the table of modules lists each module once, within its size, and
\* no more hooks for it than were registered; there is at most one block per
\* module, and every slot that is in use lies below the number of hooks.
TypeOK ==
    /\ found_libc \in BOOLEAN
    /\ phase \in {"register", "allocate", "install", "run", "uninstalled"}
    /\ num_hook \in 0 .. MaxRegister
    /\ module_list \in Seq(
          [name : Module, blk : Index, hooks : Seq(
              [func : Symbol, new : Wrapper, ptr : Pointer,
               addr : Code \cup {None}, disabled : BOOLEAN])])
    /\ Len(module_list) <= MAX_MODULE
    /\ \A i, j \in DOMAIN module_list :
          module_list[i].name = module_list[j].name => i = j
    /\ \A i \in DOMAIN module_list : Len(module_list[i].hooks) <= num_hook
    /\ num_patch_blk \in 0 .. Len(module_list)
    /\ \A b \in Index :
          /\ patch_blk_list[b].at \in Module \cup {None}
          /\ patch_blk_list[b].num_trampoline \in 0 .. num_hook
          /\ \A i \in Slots : patch_blk_list[b].slot[i].addr # None =>
                                b <= num_patch_blk /\ i < num_hook
    /\ code \in [Code -> {Original, Astray} \cup Target]
    /\ real \in [Pointer -> {None} \cup Target]

Hooks == {s \in (1 .. Len(module_list)) \X (1 .. MaxRegister) :
             s[2] \in DOMAIN module_list[s[1]].hooks}

\* All modules used are within reach of the first block, as ld, libc and
\* libpthread are.
OneBlock == num_patch_blk <= 1

\* Once the hooks are installed, a call of a function that was registered, and
\* exists, meets the wrapper that was registered for it first, if the modules
\* are near each other (slots, blocks and duplicates in install_hook).
CallMeetsWrapper ==
    phase = "run" /\ found_libc /\ OneBlock =>
        \A s \in Hooks :
            LET m == module_list[s[1]]
                a == Address[m.name][m.hooks[s[2]].func]
                j == CHOOSE k \in DOMAIN m.hooks :
                        /\ Address[m.name][m.hooks[k].func] = a
                        /\ \A l \in 1 .. k - 1 :
                              Address[m.name][m.hooks[l].func] # a
            IN  a # None =>
                    /\ code[a] \in Target
                    /\ Slot(code[a]).addr = a
                    /\ Slot(code[a]).new = m.hooks[j].new

\* Then the wrapper that is called finds its pointer set, and every pointer that
\* is set leads to the unpatched code of a function registered with it: a
\* wrapper never calls itself.
PointerMeetsOriginal ==
    phase = "run" /\ OneBlock =>
        /\ \A s \in Hooks :
              LET h == module_list[s[1]].hooks[s[2]]
              IN  ~h.disabled => real[h.ptr] # None
        /\ \A p \in Pointer :
              real[p] # None =>
                  /\ Slot(real[p]).saved = Original
                  /\ \E s \in Hooks :
                        LET h == module_list[s[1]].hooks[s[2]]
                        IN  h.ptr = p /\ h.addr = Slot(real[p]).addr

\* After uninstall_hook every function is as it was, however many modules and
\* blocks there were: no jump is left into the memory that was unmapped.
Restored == phase = "uninstalled" => \A a \in Code : code[a] = Original

\* A slot keeps its function until uninstall_hook.
SlotKept ==
    [][phase = "install" =>
          \A b \in Index, i \in Slots :
              patch_blk_list[b].slot[i].addr # None =>
                  patch_blk_list'[b].slot[i] = patch_blk_list[b].slot[i]]_vars

=============================================================================

----------------------------- MODULE HookProofs -----------------------------
(***************************************************************************)
(* Theorems about Hook for any modules, functions, requests and number of  *)
(* blocks: the types, what a call of a patched function meets, that a slot *)
(* is filled once, and that removing the patches leaves nothing behind.    *)
(***************************************************************************)
EXTENDS Hook, DataProofs, SequenceTheorems

-----------------------------------------------------------------------------
(* The inductive invariant.                                                *)

HookType == [func : Symbol, new : Wrapper, ptr : Pointer,
             addr : Code \cup {None}, disabled : BOOLEAN]
EntryType == [name : Module, blk : Index, hooks : Seq(HookType)]
SlotType == [addr : Code \cup {None}, new : Wrapper \cup {None},
             saved : {None, Original}]

HookAt(s)    == module_list[s[1]].hooks[s[2]]
AddressAt(s) == Address[module_list[s[1]].name][HookAt(s).func]
InUse(i)     == \E j \in DOMAIN module_list[i].hooks :
                   ~module_list[i].hooks[j].disabled

\* The hooks that installation is through with.
Done == {s \in Hooks : \/ phase \in {"run", "uninstalled"}
                       \/ phase = "install" /\ s[1] < idx_mod
                       \/ phase = "install" /\ s[1] = idx_mod /\ s[2] < iFunc}

\* The hooks of the modules of block b that are counted in num_trampoline.
Counted(b) == {s \in Hooks : s[1] < idx_mod /\ module_list[s[1]].blk = b}

\* The first slot of block b behind the ones that may be filled.
Limit(b) == IF phase = "install" /\ iFunc > 1 /\ module_list[idx_mod].blk = b
            THEN nFunc_InBlk ELSE patch_blk_list[b].num_trampoline

\* The types that TypeOK leaves open, and where the loops are.
Types ==
    /\ found_libc \in BOOLEAN
    /\ phase \in {"register", "allocate", "install", "run", "uninstalled"}
    /\ num_hook \in 0 .. MaxRegister
    /\ module_list \in Seq(EntryType)
    /\ num_patch_blk \in Nat
    /\ patch_blk_list \in
          [Index -> [at : Module \cup {None}, num_trampoline : Nat,
                     slot : [Slots -> SlotType]]]
    /\ code \in [Code -> {Original, Astray} \cup Target]
    /\ real \in [Pointer -> {None} \cup Target]

Loops ==
    /\ idx_mod \in Nat \ {0} /\ iFunc \in Nat \ {0} /\ nFunc_InBlk \in Nat
    /\ phase \in {"register", "run"} => idx_mod = 1
    /\ phase = "allocate" => idx_mod <= Len(module_list) \/ idx_mod = 1
    /\ phase # "install" => iFunc = 1 /\ nFunc_InBlk = 0
    /\ phase = "install" =>
          /\ idx_mod <= Len(module_list)
          /\ iFunc <= Len(module_list[idx_mod].hooks) + 1
          /\ iFunc > 1 =>
                LET n == patch_blk_list[module_list[idx_mod].blk].num_trampoline
                IN  n <= nFunc_InBlk /\ nFunc_InBlk <= n + iFunc - 1

\* Each module is listed once, with libc only; its hooks are counted.
Registered ==
    /\ \A i, j \in DOMAIN module_list :
          module_list[i].name = module_list[j].name => i = j
    /\ \A i \in DOMAIN module_list : Len(module_list[i].hooks) <= num_hook
    /\ ~found_libc => module_list = << >>
    /\ IsFiniteSet(Hooks) /\ Cardinality(Hooks) = num_hook

\* A hook is disabled if its function is missing or an earlier one has it.
Looked ==
    phase # "register" =>
        \A s \in Hooks :
            LET h == HookAt(s)
            IN  /\ ~h.disabled => h.addr = AddressAt(s) /\ h.addr # None
                /\ h.disabled => h.addr = None
                /\ h.disabled /\ AddressAt(s) # None =>
                      /\ s \in Done
                      /\ \E l \in 1 .. s[2] - 1 :
                            /\ ~HookAt(<<s[1], l>>).disabled
                            /\ HookAt(<<s[1], l>>).addr = AddressAt(s)

\* A module with functions to patch has a block; there is at most one block for
\* each module, and the only block is near all modules.
Allocated ==
    /\ phase = "register" => num_patch_blk = 0
    /\ phase = "allocate" => num_patch_blk < idx_mod
    /\ phase \in {"register", "allocate"} =>
          \A i \in DOMAIN module_list :
              i >= idx_mod => module_list[i].blk = 1
    /\ num_patch_blk <= Len(module_list)
    /\ phase # "register" =>
          \A i \in DOMAIN module_list :
              InUse(i) /\ (phase = "allocate" => i < idx_mod) =>
                  /\ module_list[i].blk <= num_patch_blk
                  /\ OneBlock /\ phase # "uninstalled" =>
                        <<patch_blk_list[module_list[i].blk].at,
                          module_list[i].name>> \in Near

\* num_trampoline is the number of hooks of the modules that are installed.
Trampolines ==
    \A b \in Index :
        /\ phase \in {"register", "allocate"} =>
              patch_blk_list[b].num_trampoline = 0
        /\ phase = "install" =>
              patch_blk_list[b].num_trampoline = Cardinality(Counted(b))
        /\ patch_blk_list[b].num_trampoline <= num_hook

\* Which slots are filled, with what, and what leads to them.
Empty ==
    phase \in {"register", "allocate"} =>
        /\ \A t \in Target : Slot(t).addr = None
        /\ code = [a \in Code |-> Original]
        /\ real = [p \in Pointer |-> None]

Emptied == phase = "uninstalled" => \A t \in Target : Slot(t).addr = None

Filled ==
    \A t \in Target : Slot(t).addr # None =>
        /\ t[1] <= num_patch_blk /\ t[2] < Limit(t[1])
        /\ Slot(t).saved = Original
        /\ \E s \in Done :
              /\ ~HookAt(s).disabled /\ HookAt(s).addr = Slot(t).addr
              /\ \A u \in Target : Slot(u).addr = Slot(t).addr => u = t

Patched ==
    phase # "uninstalled" =>
        \A s \in Done : ~HookAt(s).disabled =>
            /\ real[HookAt(s).ptr] # None
            /\ \E t \in Target :
                  /\ t[1] = module_list[s[1]].blk
                  /\ Slot(t).addr = HookAt(s).addr
                  /\ Slot(t).new = HookAt(s).new
                  /\ code[HookAt(s).addr] =
                        JumpTo(t[1], t[2], module_list[s[1]].name)

Jumps ==
    \A a \in Code : code[a] # Original =>
        \E t \in Target : Slot(t).addr = a

Pointers ==
    phase # "uninstalled" =>
        \A p \in Pointer : real[p] # None =>
            /\ Slot(real[p]).addr # None
            /\ \E s \in Done : /\ ~HookAt(s).disabled /\ HookAt(s).ptr = p
                               /\ HookAt(s).addr = Slot(real[p]).addr

IInv ==
    /\ Types /\ Loops /\ Registered /\ Looked /\ Allocated /\ Trampolines
    /\ Empty /\ Emptied /\ Filled /\ Patched /\ Jumps /\ Pointers

-----------------------------------------------------------------------------
(* Lemmas about numbers, sequences and the operators of the model.         *)

\* query_registered_module is an index of the module, or 0 if there is none.
LEMMA QueryFinds ==
    ASSUME Types, NEW m
    PROVE  LET i == query_registered_module(m)
           IN  \/ i \in 1 .. Len(module_list) /\ module_list[i].name = m
               \/ /\ i = 0
                  /\ \A k \in 1 .. Len(module_list) : module_list[k].name # m
PROOF
<1> DEFINE S == {k \in 1 .. Len(module_list) : module_list[k].name = m}
<1>0. Len(module_list) \in Nat
  BY LenProperties DEF Types
<1>1. query_registered_module(m) = IF S # {} THEN Min(S) ELSE 0
  BY DEF query_registered_module, SelectInSeq
<1>2. CASE S = {}
  BY <1>1, <1>2
<1>3. CASE S # {}
  <2>1. S \subseteq Nat
    BY <1>0
  <2>2. \E x \in S : \A y \in S : x <= y
    BY <1>3, <2>1, LeastExists
  <2>3. Min(S) \in S
    BY <2>2 DEF Min
  <2> QED  BY <1>1, <1>3, <2>3
<1> QED  BY <1>2, <1>3

\* find_usable_block is a block near the module, or 0 if there is none.
LEMMA BlockFound ==
    ASSUME Types, NEW m
    PROVE  LET b == find_usable_block(m)
           IN  \/ b = 0
               \/ b \in 1 .. num_patch_blk /\ <<patch_blk_list[b].at, m>> \in Near
PROOF
<1> DEFINE q == [b \in 1 .. num_patch_blk |-> patch_blk_list[b].at]
           S == {k \in 1 .. Len(q) : <<q[k], m>> \in Near}
<1>0. num_patch_blk \in Nat /\ Len(q) = num_patch_blk
  BY DEF Types
<1>1. find_usable_block(m) = IF S # {} THEN Min(S) ELSE 0
  BY DEF find_usable_block, SelectInSeq
<1>2. CASE S = {}
  BY <1>1, <1>2
<1>3. CASE S # {}
  <2>1. S \subseteq Nat
    BY <1>0
  <2>2. \E x \in S : \A y \in S : x <= y
    BY <1>3, <2>1, LeastExists
  <2>3. Min(S) \in S
    BY <2>2 DEF Min
  <2> QED  BY <1>0, <1>1, <1>3, <2>3
<1> QED  BY <1>2, <1>3

\* What the list of modules is made of.
LEMMA ListFacts ==
    ASSUME module_list \in Seq(EntryType)
    PROVE  /\ Len(module_list) \in Nat
           /\ DOMAIN module_list = 1 .. Len(module_list)
           /\ \A i \in 1 .. Len(module_list) :
                 /\ module_list[i] \in EntryType
                 /\ module_list[i].name \in Module
                 /\ module_list[i].blk \in Index
                 /\ module_list[i].hooks \in Seq(HookType)
                 /\ Len(module_list[i].hooks) \in Nat
                 /\ DOMAIN module_list[i].hooks =
                       1 .. Len(module_list[i].hooks)
                 /\ \A j \in 1 .. Len(module_list[i].hooks) :
                       module_list[i].hooks[j] \in HookType
PROOF
<1>1. /\ Len(module_list) \in Nat
      /\ DOMAIN module_list = 1 .. Len(module_list)
      /\ \A i \in 1 .. Len(module_list) : module_list[i] \in EntryType
  BY LenProperties
<1>2. ASSUME NEW i \in 1 .. Len(module_list)
      PROVE  /\ module_list[i].name \in Module
             /\ module_list[i].blk \in Index
             /\ module_list[i].hooks \in Seq(HookType)
  BY <1>1 DEF EntryType
<1>3. ASSUME NEW q \in Seq(HookType)
      PROVE  /\ Len(q) \in Nat /\ DOMAIN q = 1 .. Len(q)
             /\ \A j \in 1 .. Len(q) : q[j] \in HookType
  BY LenProperties
<1> QED  BY <1>1, <1>2, <1>3

\* A pair of Hooks is an index of a module and one of a hook of it.
LEMMA HooksFacts ==
    ASSUME Types, Registered
    PROVE  /\ \A s \in Hooks : /\ s[1] \in 1 .. Len(module_list)
                               /\ s[2] \in 1 .. Len(module_list[s[1]].hooks)
                               /\ s = <<s[1], s[2]>>
                               /\ HookAt(s) \in HookType
                               /\ AddressAt(s) \in Code \cup {None}
           /\ \A i \in 1 .. Len(module_list) :
                 \A j \in 1 .. Len(module_list[i].hooks) : <<i, j>> \in Hooks
PROOF
<1> USE DEF Types
<1>0. module_list \in Seq(EntryType)
  OBVIOUS
<1>1. ASSUME NEW s \in Hooks
      PROVE  /\ s[1] \in 1 .. Len(module_list)
             /\ s[2] \in 1 .. Len(module_list[s[1]].hooks)
             /\ s = <<s[1], s[2]>>
  BY <1>0, ListFacts DEF Hooks
<1>2. ASSUME NEW s \in Hooks
      PROVE  HookAt(s) \in HookType /\ AddressAt(s) \in Code \cup {None}
  <2>1. HookAt(s) \in HookType /\ module_list[s[1]].name \in Module
    BY <1>0, <1>1, ListFacts DEF HookAt
  <2>2. HookAt(s).func \in Symbol
    BY <2>1 DEF HookType
  <2> QED  BY <2>1, <2>2, HookAssumption DEF AddressAt
<1>3. ASSUME NEW i \in 1 .. Len(module_list),
             NEW j \in 1 .. Len(module_list[i].hooks)
      PROVE  <<i, j>> \in Hooks
  <2>1. j \in 1 .. MaxRegister
    BY <1>0, ListFacts, HookAssumption DEF Registered
  <2> QED  BY <1>0, <2>1, ListFacts DEF Hooks
<1> QED  BY <1>1, <1>2, <1>3

-----------------------------------------------------------------------------
(* The initial states and register_a_hook.                                 *)

\* Nothing is registered, no block allocated and no code patched.
LEMMA InitInv == Init => IInv
PROOF
<1> SUFFICES ASSUME Init PROVE IInv
  OBVIOUS
<1>0. Hooks = {} /\ Done = {}
  BY DEF Init, Hooks, Done
<1>1. Types
  <2>1. module_list \in Seq(EntryType)
    BY DEF Init
  <2>2. Free \in SlotType
    BY DEF Free, SlotType
  <2> QED  BY <2>1, <2>2, HookAssumption DEF Init, Types
<1>2. Loops /\ Registered /\ Looked /\ Allocated /\ Trampolines
  BY <1>0, FS_EmptySet, HookAssumption
  DEF Init, Loops, Registered, Looked, Allocated, Trampolines
<1>3. \A t \in Target : Slot(t).addr = None
  BY DEF Init, Slot, Target, Free
<1>4. Empty /\ Emptied /\ Filled /\ Patched /\ Jumps /\ Pointers
  BY <1>0, <1>3 DEF Init, Empty, Emptied, Filled, Patched, Jumps, Pointers
<1> QED  BY <1>1, <1>2, <1>4 DEF IInv

\* A registration adds one hook, at the end of those of its module.
LEMMA RegisterAdds ==
    ASSUME Types, Registered, NEW r \in Request, register_a_hook(r)
    PROVE  /\ module_list' \in Seq(EntryType)
           /\ \A i, j \in DOMAIN module_list' :
                 module_list'[i].name = module_list'[j].name => i = j
           /\ \A i \in DOMAIN module_list' :
                 Len(module_list'[i].hooks) <= num_hook + 1
           /\ \A i \in DOMAIN module_list' :
                 module_list'[i].blk = IF i \in DOMAIN module_list
                                         THEN module_list[i].blk ELSE 1
           /\ \E s : s \notin Hooks /\ Hooks' = Hooks \cup {s}
PROOF
<1> USE DEF Types
<1> DEFINE i == query_registered_module(r.mod)
           hook == [func |-> r.func, new |-> r.new, ptr |-> r.ptr,
                    addr |-> None, disabled |-> FALSE]
           d == [name |-> r.mod, hooks |-> <<hook>>, blk |-> 1]
           e == [module_list[i] EXCEPT !.hooks = Append(@, hook)]
<1>0. /\ module_list \in Seq(EntryType) /\ hook \in HookType
      /\ r.mod \in Module /\ 1 \in Index /\ num_hook + 1 \in 1 .. MaxRegister
  BY HookAssumption DEF HookType, Index, register_a_hook
<1>1. module_list' = IF i = 0 THEN Append(module_list, d)
                              ELSE [module_list EXCEPT ![i].hooks = Append(@, hook)]
  BY DEF register_a_hook
<1>2. CASE i = 0
  <2> HIDE DEF i, hook
  <2>2. /\ <<hook>> \in Seq(HookType)
        /\ Len(<<hook>>) = 1 /\ DOMAIN <<hook>> = {1}
    BY <1>0
  <2>1. d \in EntryType /\ d.hooks = <<hook>> /\ d.name = r.mod
    BY <1>0, <2>2 DEF EntryType
  <2> HIDE DEF d
  <2>3. /\ module_list' \in Seq(EntryType)
        /\ Len(module_list') = Len(module_list) + 1
        /\ \A k \in 1 .. Len(module_list) : module_list'[k] = module_list[k]
        /\ module_list'[Len(module_list) + 1] = d
        /\ DOMAIN module_list' = 1 .. Len(module_list) + 1
    BY <1>0, <1>1, <1>2, <2>1, AppendProperties, LenProperties
  <2>4. \A k \in 1 .. Len(module_list) : module_list[k].name # r.mod
    BY <1>0, <1>2, QueryFinds, ListFacts DEF i
  <2>5. \A k, l \in DOMAIN module_list' :
           module_list'[k].name = module_list'[l].name => k = l
    BY <1>0, <2>1, <2>3, <2>4, ListFacts DEF Registered
  <2>6. \A k \in DOMAIN module_list' : Len(module_list'[k].hooks) <= num_hook + 1
    <3>1. num_hook \in Nat /\ Len(module_list) \in Nat
      BY <1>0, ListFacts, HookAssumption
    <3>3. Len(module_list'[Len(module_list) + 1].hooks) = 1
      BY <2>1, <2>2, <2>3
    <3>2. \A k \in 1 .. Len(module_list) :
             /\ Len(module_list'[k].hooks) \in Nat
             /\ Len(module_list'[k].hooks) <= num_hook
      BY <1>0, <2>3, ListFacts DEF Registered
    <3>4. \A k \in DOMAIN module_list' :
             k \in 1 .. Len(module_list) \/ k = Len(module_list) + 1
      BY <2>3, <3>1
    <3>5. ASSUME NEW k \in DOMAIN module_list'
          PROVE  Len(module_list'[k].hooks) <= num_hook + 1
      <4>1. CASE k \in 1 .. Len(module_list)
        <5> DEFINE m == Len(module_list'[k].hooks)
        <5>1. m \in Nat /\ m <= num_hook
          BY <3>2, <4>1
        <5> HIDE DEF m
        <5>2. m <= num_hook + 1
          BY <3>1, <5>1
        <5> QED  BY <5>2 DEF m
      <4>2. CASE k = Len(module_list) + 1
        <5>1. Len(module_list'[k].hooks) = 1
          BY <3>3, <4>2
        <5>2. 1 <= num_hook + 1
          BY <3>1
        <5> QED  BY <5>1, <5>2
      <4> QED  BY <3>4, <4>1, <4>2
    <3> QED  BY <3>5
  <2>7. <<Len(module_list) + 1, 1>> \notin Hooks
    BY <1>0, ListFacts DEF Hooks
  <2>8. Hooks' = Hooks \cup {<<Len(module_list) + 1, 1>>}
    <3> DEFINE n == Len(module_list)
    <3>1. n \in Nat /\ 1 \in 1 .. MaxRegister
      BY <1>0, ListFacts, HookAssumption
    <3>2. \A k \in 1 .. n + 1 : \A l :
             l \in DOMAIN module_list'[k].hooks <=>
                IF k = n + 1 THEN l = 1 ELSE l \in DOMAIN module_list[k].hooks
      BY <2>1, <2>2, <2>3, <3>1
    <3>3. Len(module_list') = n + 1 /\ Len(module_list) = n
      BY <2>3
    <3> HIDE DEF n
    <3>4. Hooks' = Hooks \cup {<<n + 1, 1>>}
      BY <3>1, <3>2, <3>3 DEF Hooks
    <3> QED  BY <3>4 DEF n
  <2>9. \A k \in DOMAIN module_list' :
           module_list'[k].blk = IF k \in DOMAIN module_list
                                   THEN module_list[k].blk ELSE 1
    <3>1. d.blk = 1
      BY DEF d
    <3> QED  BY <1>0, <2>3, <3>1, ListFacts
  <2> QED  BY <2>3, <2>5, <2>6, <2>7, <2>8, <2>9
<1>3. CASE i # 0
  <2>1. /\ i \in 1 .. Len(module_list) /\ module_list[i] \in EntryType
        /\ module_list[i].hooks \in Seq(HookType)
    BY <1>0, <1>3, QueryFinds, ListFacts
  <2> DEFINE n == Len(module_list[i].hooks)
  <2>2. /\ Append(module_list[i].hooks, hook) \in Seq(HookType)
        /\ Len(Append(module_list[i].hooks, hook)) = n + 1
        /\ DOMAIN Append(module_list[i].hooks, hook) = 1 .. n + 1
        /\ n \in Nat /\ n <= num_hook
        /\ DOMAIN module_list[i].hooks = 1 .. n
    BY <1>0, <2>1, AppendProperties, LenProperties, ListFacts DEF Registered
  <2> HIDE DEF i, hook
  <2>3. /\ e \in EntryType /\ e.name = module_list[i].name
        /\ e.blk = module_list[i].blk
        /\ e.hooks = Append(module_list[i].hooks, hook)
    BY <2>1, <2>2 DEF EntryType
  <2>4. module_list' = [module_list EXCEPT ![i] = e]
    BY <1>1, <1>3
  <2> HIDE DEF e, n
  <2>5. /\ module_list' \in Seq(EntryType)
        /\ Len(module_list') = Len(module_list)
        /\ \A k \in 1 .. Len(module_list) :
              module_list'[k] = IF k = i THEN e ELSE module_list[k]
        /\ DOMAIN module_list' = 1 .. Len(module_list)
    BY <1>0, <2>1, <2>3, <2>4, ExceptSeq, LenProperties
  <2>6. \A k, l \in DOMAIN module_list' :
           module_list'[k].name = module_list'[l].name => k = l
    BY <1>0, <2>1, <2>3, <2>5, ListFacts DEF Registered
  <2>7. \A k \in DOMAIN module_list' : Len(module_list'[k].hooks) <= num_hook + 1
    <3>1. ASSUME NEW k \in DOMAIN module_list'
          PROVE  /\ k # i => /\ module_list'[k].hooks = module_list[k].hooks
                             /\ Len(module_list[k].hooks) \in Nat
                             /\ Len(module_list[k].hooks) <= num_hook
                 /\ k = i => Len(module_list'[k].hooks) = n + 1
      BY <1>0, <2>2, <2>3, <2>5, ListFacts DEF Registered
    <3>2. num_hook \in Nat
      BY <1>0
    <3>3. ASSUME NEW k \in DOMAIN module_list', k # i
          PROVE  Len(module_list'[k].hooks) <= num_hook + 1
      <4> DEFINE l == Len(module_list'[k].hooks)
      <4>1. l \in Nat /\ l <= num_hook
        BY <3>1, <3>3
      <4> HIDE DEF l
      <4>2. l <= num_hook + 1
        BY <3>2, <4>1
      <4> QED  BY <4>2 DEF l
    <3>4. ASSUME NEW k \in DOMAIN module_list', k = i
          PROVE  Len(module_list'[k].hooks) <= num_hook + 1
      <4>1. n + 1 <= num_hook + 1
        BY <2>2, <3>2
      <4> QED  BY <3>1, <3>4, <4>1
    <3> QED  BY <3>3, <3>4
  <2>8. <<i, n + 1>> \notin Hooks
    BY <1>0, <2>2, ListFacts, HooksFacts DEF n
  <2>9. Hooks' = Hooks \cup {<<i, n + 1>>}
    <3>1. n + 1 \in 1 .. MaxRegister
      BY <1>0, <2>2, HookAssumption
    <3>2. ASSUME NEW k \in 1 .. Len(module_list), NEW l
          PROVE  l \in DOMAIN module_list'[k].hooks <=>
                   l \in DOMAIN module_list[k].hooks \/ (k = i /\ l = n + 1)
      <4>1. CASE k = i
        <5>1. /\ DOMAIN module_list'[k].hooks = 1 .. n + 1
              /\ DOMAIN module_list[k].hooks = 1 .. n
          BY <2>1, <2>2, <2>3, <2>5, <4>1
        <5> QED  BY <2>2, <4>1, <5>1
      <4>2. CASE k # i
        BY <2>5, <4>2
      <4> QED  BY <4>1, <4>2
    <3> QED  BY <2>1, <2>5, <3>1, <3>2 DEF Hooks
  <2>10. \A k \in DOMAIN module_list' :
            module_list'[k].blk = IF k \in DOMAIN module_list
                                    THEN module_list[k].blk ELSE 1
    BY <1>0, <2>3, <2>5, ListFacts
  <2> QED  BY <2>5, <2>6, <2>7, <2>8, <2>9, <2>10
<1> QED  BY <1>2, <1>3

\* A hook is added to its module, the module with it when it is new.
LEMMA RegisterInv ==
    ASSUME IInv, NEW r \in Request, register_a_hook(r)
    PROVE  IInv'
PROOF
<1> USE DEF IInv
<1>1. /\ module_list' \in Seq(EntryType)
      /\ \A i, j \in DOMAIN module_list' :
            module_list'[i].name = module_list'[j].name => i = j
      /\ \A i \in DOMAIN module_list' :
            Len(module_list'[i].hooks) <= num_hook + 1
      /\ \A i \in DOMAIN module_list' :
            module_list'[i].blk = IF i \in DOMAIN module_list
                                    THEN module_list[i].blk ELSE 1
      /\ \E s : s \notin Hooks /\ Hooks' = Hooks \cup {s}
  BY RegisterAdds
<1>2. /\ phase = "register" /\ phase' = "register" /\ found_libc
      /\ num_hook' = num_hook + 1 /\ num_hook < MaxRegister
      /\ UNCHANGED <<found_libc, num_patch_blk, patch_blk_list, idx_mod, iFunc,
                     nFunc_InBlk, code, real>>
  BY DEF register_a_hook, block, loop
<1>3. Types'
  BY <1>1, <1>2, HookAssumption DEF Types
<1>4. Loops'
  BY <1>2 DEF Loops
<1>5. Registered'
  <2>1. IsFiniteSet(Hooks') /\ Cardinality(Hooks') = num_hook'
    <3>1. PICK s : s \notin Hooks /\ Hooks' = Hooks \cup {s}
      BY <1>1
    <3> QED  BY <1>2, <3>1, FS_AddElement DEF Registered
  <2> QED  BY <1>1, <1>2, <2>1 DEF Registered
<1>6. Done' = {}
  BY <1>2 DEF Done
<1>7. \A t \in Target : Slot(t)' = Slot(t)
  BY <1>2 DEF Slot
<1>8. Looked' /\ Trampolines'
  BY <1>2 DEF Types, Looked, Trampolines
<1>10. Allocated'
  <2>1. Len(module_list') \in Nat /\ num_patch_blk = 0
    BY <1>1, <1>2, LenProperties DEF Allocated
  <2>2. \A i \in DOMAIN module_list' : i >= idx_mod => module_list'[i].blk = 1
    BY <1>1, <1>2 DEF Allocated
  <2> QED  BY <1>2, <2>1, <2>2 DEF Allocated
<1>9. Empty' /\ Emptied' /\ Filled' /\ Patched' /\ Jumps' /\ Pointers'
  BY <1>2, <1>6, <1>7
  DEF Empty, Emptied, Filled, Patched, Jumps, Pointers
<1> QED  BY <1>3, <1>4, <1>5, <1>8, <1>9, <1>10

-----------------------------------------------------------------------------
(* query_all_org_func_addr.                                                *)

\* A list with the same modules and as many hooks has the same pairs.
LEMMA HooksSame ==
    ASSUME module_list \in Seq(EntryType), module_list' \in Seq(EntryType),
           Len(module_list') = Len(module_list),
           \A i \in 1 .. Len(module_list) :
              Len(module_list'[i].hooks) = Len(module_list[i].hooks)
    PROVE  Hooks' = Hooks
PROOF
<1>1. /\ Len(module_list) \in Nat
      /\ \A i \in 1 .. Len(module_list) :
            DOMAIN module_list'[i].hooks = DOMAIN module_list[i].hooks
  <2>1. /\ Len(module_list) \in Nat
        /\ \A i \in 1 .. Len(module_list) :
              module_list[i] \in EntryType /\ module_list'[i] \in EntryType
    BY LenProperties
  <2>2. \A i \in 1 .. Len(module_list) :
           /\ module_list[i].hooks \in Seq(HookType)
           /\ module_list'[i].hooks \in Seq(HookType)
    BY <2>1 DEF EntryType
  <2> QED  BY <2>1, <2>2, LenProperties
<1> QED  BY <1>1 DEF Hooks

\* What query_all_org_func_addr does to the table: it disables the hooks whose
\* function is missing or was found before, and fills the addresses of the rest.
LEMMA QueryResolves ==
    ASSUME module_list \in Seq(EntryType), query_all_org_func_addr
    PROVE  /\ module_list' \in Seq(EntryType)
           /\ Len(module_list') = Len(module_list)
           /\ DOMAIN module_list' = DOMAIN module_list
           /\ \A i \in 1 .. Len(module_list) :
                 /\ module_list'[i].name = module_list[i].name
                 /\ module_list'[i].blk = module_list[i].blk
                 /\ Len(module_list'[i].hooks) = Len(module_list[i].hooks)
                 /\ \A j \in 1 .. Len(module_list[i].hooks) :
                       module_list'[i].hooks[j] =
                          Resolve(module_list[i].name, module_list[i].hooks[j])
PROOF
<1> DEFINE Q(i) == [j \in DOMAIN module_list[i].hooks |->
                       Resolve(module_list[i].name, module_list[i].hooks[j])]
           E(i) == [module_list[i] EXCEPT !.hooks = Q(i)]
<1>1. /\ Len(module_list) \in Nat
      /\ DOMAIN module_list = 1 .. Len(module_list)
      /\ module_list' = [i \in 1 .. Len(module_list) |-> E(i)]
  BY ListFacts DEF query_all_org_func_addr
<1>2. ASSUME NEW i \in 1 .. Len(module_list)
      PROVE  /\ E(i) \in EntryType /\ E(i).name = module_list[i].name
             /\ E(i).blk = module_list[i].blk /\ E(i).hooks = Q(i)
             /\ Len(Q(i)) = Len(module_list[i].hooks)
             /\ DOMAIN Q(i) = 1 .. Len(module_list[i].hooks)
  <2> DEFINE n == Len(module_list[i].hooks)
  <2>1. /\ module_list[i] \in EntryType /\ n \in Nat
        /\ module_list[i].name \in Module
        /\ DOMAIN module_list[i].hooks = 1 .. n
        /\ \A j \in 1 .. n : module_list[i].hooks[j] \in HookType
    BY ListFacts
  <2>2. \A j \in 1 .. n :
           Resolve(module_list[i].name, module_list[i].hooks[j]) \in HookType
    <3> TAKE j \in 1 .. n
    <3> DEFINE h == module_list[i].hooks[j]
    <3>1. h \in HookType /\ h.func \in Symbol
      BY <2>1 DEF HookType
    <3>2. Address[module_list[i].name][h.func] \in Code \cup {None}
      BY <2>1, <3>1, HookAssumption
    <3> HIDE DEF h
    <3>3. Resolve(module_list[i].name, h) \in HookType
      BY <3>1, <3>2 DEF Resolve, HookType
    <3> QED  BY <3>3 DEF h
  <2>3. Q(i) \in [1 .. n -> HookType]
    BY <2>1, <2>2
  <2>4. Q(i) \in Seq(HookType) /\ Len(Q(i)) = n /\ DOMAIN Q(i) = 1 .. n
    BY <2>1, <2>3
  <2> HIDE DEF Q
  <2>5. /\ E(i) \in EntryType /\ E(i).name = module_list[i].name
        /\ E(i).blk = module_list[i].blk /\ E(i).hooks = Q(i)
    BY <2>1, <2>4 DEF EntryType
  <2> QED  BY <2>4, <2>5
<1> HIDE DEF E
<1>3. module_list' \in [1 .. Len(module_list) -> EntryType]
  BY <1>1, <1>2
<1>4. /\ module_list' \in Seq(EntryType)
      /\ Len(module_list') = Len(module_list)
      /\ DOMAIN module_list' = DOMAIN module_list
      /\ \A i \in 1 .. Len(module_list) : module_list'[i] = E(i)
  BY <1>1, <1>3
<1>5. ASSUME NEW i \in 1 .. Len(module_list),
             NEW j \in 1 .. Len(module_list[i].hooks)
      PROVE  Q(i)[j] = Resolve(module_list[i].name, module_list[i].hooks[j])
  BY ListFacts
<1> HIDE DEF Q
<1> QED  BY <1>2, <1>4, <1>5

\* After the resolution every enabled hook has an address of its own.
LEMMA QueryInv ==
    ASSUME IInv, query_all_org_func_addr
    PROVE  IInv'
PROOF
<1> USE DEF IInv
<1>0. module_list \in Seq(EntryType)
  BY DEF Types
<1>1. /\ module_list' \in Seq(EntryType)
      /\ Len(module_list') = Len(module_list)
      /\ DOMAIN module_list' = DOMAIN module_list
      /\ \A i \in 1 .. Len(module_list) :
            /\ module_list'[i].name = module_list[i].name
            /\ module_list'[i].blk = module_list[i].blk
            /\ Len(module_list'[i].hooks) = Len(module_list[i].hooks)
            /\ \A j \in 1 .. Len(module_list[i].hooks) :
                  module_list'[i].hooks[j] =
                     Resolve(module_list[i].name, module_list[i].hooks[j])
  BY <1>0, QueryResolves
<1>2. /\ phase = "register" /\ phase' \in {"allocate", "run"}
      /\ found_libc' = found_libc
      /\ phase' = "run" => ~found_libc
      /\ UNCHANGED <<num_hook, num_patch_blk, patch_blk_list, idx_mod, iFunc,
                     nFunc_InBlk, code, real>>
  BY DEF query_all_org_func_addr, block, loop
<1>3. Hooks' = Hooks
  BY <1>0, <1>1, HooksSame
<1>4. /\ Len(module_list) \in Nat /\ DOMAIN module_list = 1 .. Len(module_list)
      /\ ~found_libc => Len(module_list) = 0 /\ Hooks = {}
  BY <1>0, ListFacts DEF Registered, Hooks
<1>5. Types'
  BY <1>1, <1>2 DEF Types
<1>6. Loops'
  BY <1>2 DEF Loops
<1>7. Registered'
  <2>1. ~found_libc' => module_list' = << >>
    BY <1>1, <1>2, <1>4
  <2> QED  BY <1>1, <1>2, <1>3, <1>4, <2>1 DEF Registered
<1>8. Done' = {}
  BY <1>2, <1>3, <1>4 DEF Done
<1>9. \A t \in Target : Slot(t)' = Slot(t)
  BY <1>2 DEF Slot
<1>10. Looked'
  <2>1. ASSUME NEW s \in Hooks
        PROVE  /\ HookAt(s)' = Resolve(module_list[s[1]].name, HookAt(s))
               /\ AddressAt(s)' = Address[module_list[s[1]].name][HookAt(s).func]
               /\ HookAt(s) \in HookType
    <3>1. /\ s[1] \in 1 .. Len(module_list)
          /\ s[2] \in 1 .. Len(module_list[s[1]].hooks)
          /\ HookAt(s) \in HookType
      BY HooksFacts
    <3>2. HookAt(s)' = Resolve(module_list[s[1]].name, HookAt(s))
      BY <1>1, <3>1 DEF HookAt
    <3>3. HookAt(s)'.func = HookAt(s).func
      BY <3>1, <3>2 DEF Resolve, HookType
    <3> QED  BY <1>1, <3>1, <3>2, <3>3 DEF AddressAt
  <2>2. ASSUME NEW s \in Hooks
        PROVE  /\ HookAt(s)'.addr = AddressAt(s)'
               /\ HookAt(s)'.disabled = (AddressAt(s)' = None)
    BY <2>1 DEF Resolve, HookType
  <2> QED  BY <1>3, <2>2 DEF Looked
<1>11. Allocated'
  <2>1. num_patch_blk' = 0 /\ idx_mod' = 1
    BY <1>2 DEF Allocated, Loops
  <2>2. ASSUME NEW i \in DOMAIN module_list'
        PROVE  phase' = "allocate" /\ ~(i < idx_mod')
    BY <1>1, <1>2, <1>4, <2>1
  <2> QED  BY <1>1, <1>2, <1>4, <2>1, <2>2 DEF Allocated
<1>13. Trampolines'
  BY <1>2 DEF Trampolines
<1>12. Empty' /\ Emptied' /\ Filled' /\ Patched' /\ Jumps' /\ Pointers'
  BY <1>2, <1>8, <1>9
  DEF Empty, Emptied, Filled, Patched, Jumps, Pointers
<1> QED  BY <1>5, <1>6, <1>7, <1>10, <1>11, <1>12, <1>13

-----------------------------------------------------------------------------
(* allocate_memory_block_for_patches.                                      *)

\* There is room for all modules in patch_blk_list.
LEMMA ModulesFit ==
    ASSUME Types, Registered
    PROVE  Len(module_list) \in Nat /\ Len(module_list) <= MAX_MODULE
PROOF
<1> DEFINE n == Len(module_list)
           f == [i \in 1 .. n |-> module_list[i].name]
<1>1. /\ n \in Nat /\ DOMAIN module_list = 1 .. n
      /\ \A i \in 1 .. n : module_list[i].name \in Module
  BY ListFacts DEF Types
<1>2. f \in Injection(1 .. n, Module)
  BY <1>1 DEF Registered, Injection, IsInjective
<1> HIDE DEF f
<1>3. IsFiniteSet(Module)
  BY HookAssumption
<1> HIDE DEF n
<1>4. Cardinality(1 .. n) = n /\ Cardinality(Module) \in Nat
  BY <1>1, <1>3, FS_Interval, FS_CardinalityType
<1>5. Cardinality(1 .. n) <= Cardinality(Module)
  BY <1>2, <1>3, FS_Injection
<1>6. n <= MAX_MODULE
  BY <1>1, <1>4, <1>5, HookAssumption
<1> QED  BY <1>1, <1>6 DEF n

\* Allocation changes the block numbers of the table and nothing else of it.
LEMMA AllocateKeeps ==
    ASSUME IInv, allocate_memory_block_for_patches
    PROVE  /\ module_list' \in Seq(EntryType)
           /\ Len(module_list') = Len(module_list)
           /\ DOMAIN module_list' = 1 .. Len(module_list)
           /\ \A i \in 1 .. Len(module_list) :
                 /\ module_list'[i].name = module_list[i].name
                 /\ module_list'[i].hooks = module_list[i].hooks
                 /\ i # idx_mod => module_list'[i].blk = module_list[i].blk
PROOF
<1> USE DEF IInv
<1> DEFINE m == module_list[idx_mod]
           b == find_usable_block(m.name)
<1>1. /\ module_list \in Seq(EntryType) /\ Len(module_list) \in Nat
      /\ DOMAIN module_list = 1 .. Len(module_list)
  BY ListFacts DEF Types
<1>2. CASE module_list' = module_list
  BY <1>1, <1>2
<1>3. CASE module_list' # module_list
  <2>1. /\ module_list # << >> /\ b # 0 /\ phase = "allocate"
        /\ module_list' = [module_list EXCEPT ![idx_mod].blk = b]
    BY <1>3 DEF allocate_memory_block_for_patches
  <2>2. idx_mod \in 1 .. Len(module_list)
    BY <1>1, <2>1 DEF Loops
  <2>3. b \in Index
    <3>1. b \in 1 .. num_patch_blk
      BY <2>1, BlockFound
    <3>2. /\ num_patch_blk \in Nat /\ num_patch_blk <= MAX_MODULE
          /\ MAX_MODULE \in Nat
      BY <1>1, ModulesFit, HookAssumption DEF Types, Allocated
    <3> HIDE DEF b
    <3> QED  BY <3>1, <3>2 DEF Index
  <2> DEFINE e == [m EXCEPT !.blk = b]
  <2>4. m \in EntryType
    BY <1>1, <2>2, ListFacts
  <2> HIDE DEF b, m
  <2>5. e \in EntryType /\ e.name = m.name /\ e.hooks = m.hooks
    BY <2>3, <2>4 DEF EntryType
  <2>6. module_list' = [module_list EXCEPT ![idx_mod] = e]
    BY <2>1 DEF m
  <2> HIDE DEF e
  <2>7. /\ module_list' \in Seq(EntryType)
        /\ Len(module_list') = Len(module_list)
        /\ \A j \in 1 .. Len(module_list) :
              module_list'[j] = IF j = idx_mod THEN e ELSE module_list[j]
    BY <1>1, <2>2, <2>5, <2>6, ExceptSeq
  <2>8. DOMAIN module_list' = 1 .. Len(module_list)
    BY <1>1, <2>6
  <2> QED  BY <2>2, <2>5, <2>7, <2>8 DEF m
<1> QED  BY <1>2, <1>3

\* What a round of allocation does to the blocks and to the loop.
LEMMA AllocateBlocks ==
    ASSUME IInv, allocate_memory_block_for_patches
    PROVE  \/ /\ module_list = << >> /\ module_list' = << >>
              /\ phase' = "run" /\ idx_mod = 1 /\ idx_mod' = 1
              /\ UNCHANGED block
           \/ /\ idx_mod \in 1 .. Len(module_list)
              /\ \/ /\ idx_mod < Len(module_list)
                    /\ idx_mod' = idx_mod + 1 /\ phase' = "allocate"
                 \/ /\ idx_mod = Len(module_list)
                    /\ idx_mod' = 1 /\ phase' = "install"
              /\ \/ UNCHANGED <<module_list, block>> /\ ~InUse(idx_mod)
                 \/ /\ module_list'[idx_mod].blk \in 1 .. num_patch_blk
                    /\ <<patch_blk_list[module_list'[idx_mod].blk].at,
                         module_list[idx_mod].name>> \in Near
                    /\ UNCHANGED block
                 \/ /\ num_patch_blk' = num_patch_blk + 1
                    /\ num_patch_blk + 1 \in Index
                    /\ patch_blk_list' =
                          [patch_blk_list EXCEPT ![num_patch_blk + 1].at =
                              module_list[idx_mod].name]
                    /\ UNCHANGED module_list
PROOF
<1> USE DEF IInv
<1> DEFINE m == module_list[idx_mod]
           b == find_usable_block(m.name)
<1>0. /\ phase = "allocate" /\ idx_mod \in Nat \ {0}
      /\ module_list \in Seq(EntryType) /\ Len(module_list) \in Nat
      /\ DOMAIN module_list = 1 .. Len(module_list)
  BY ListFacts DEF allocate_memory_block_for_patches, Loops, Types
<1>1. CASE module_list = << >>
  <2>1. idx_mod = 1
    BY <1>0, <1>1 DEF Loops
  <2> QED  BY <1>1, <2>1 DEF allocate_memory_block_for_patches
<1>2. CASE module_list # << >>
  <2>1. idx_mod \in 1 .. Len(module_list)
    BY <1>0, <1>2 DEF Loops
  <2>2. \/ /\ idx_mod < Len(module_list)
           /\ idx_mod' = idx_mod + 1 /\ phase' = "allocate"
        \/ /\ idx_mod = Len(module_list)
           /\ idx_mod' = 1 /\ phase' = "install"
    BY <1>0, <1>2, <2>1 DEF allocate_memory_block_for_patches, Advance
  <2>3. \/ UNCHANGED <<module_list, block>> /\ ~InUse(idx_mod)
        \/ /\ b # 0
           /\ module_list' = [module_list EXCEPT ![idx_mod].blk = b]
           /\ UNCHANGED block
        \/ /\ num_patch_blk' = num_patch_blk + 1
           /\ patch_blk_list' =
                 [patch_blk_list EXCEPT ![num_patch_blk + 1].at =
                     module_list[idx_mod].name]
           /\ UNCHANGED module_list
    BY <1>0, <1>2, <2>1 DEF allocate_memory_block_for_patches, InUse
  <2>4. ASSUME b # 0, module_list' = [module_list EXCEPT ![idx_mod].blk = b]
        PROVE  /\ module_list'[idx_mod].blk \in 1 .. num_patch_blk
               /\ <<patch_blk_list[module_list'[idx_mod].blk].at,
                    module_list[idx_mod].name>> \in Near
    <3>1. b \in 1 .. num_patch_blk /\ <<patch_blk_list[b].at, m.name>> \in Near
      BY <2>4, BlockFound
    <3>2. m \in EntryType
      BY <1>0, <2>1, ListFacts
    <3> HIDE DEF b
    <3>3. module_list'[idx_mod] = [m EXCEPT !.blk = b]
      BY <1>0, <2>1, <2>4
    <3>4. module_list'[idx_mod].blk = b
      BY <3>2, <3>3 DEF EntryType
    <3> QED  BY <3>1, <3>4
  <2>5. num_patch_blk + 1 \in Index
    <3>1. /\ num_patch_blk \in Nat /\ num_patch_blk < idx_mod
          /\ Len(module_list) <= MAX_MODULE /\ MAX_MODULE \in Nat
      BY <1>0, ModulesFit, HookAssumption DEF Types, Allocated
    <3> QED  BY <1>0, <2>1, <3>1 DEF Index
  <2> QED  BY <2>1, <2>2, <2>3, <2>4, <2>5
<1> QED  BY <1>1, <1>2

\* A module that needs a block has got one that is there, and near if it is the
\* only one.
LEMMA AllocateInv ==
    ASSUME IInv, allocate_memory_block_for_patches
    PROVE  IInv'
PROOF
<1> USE DEF IInv
<1>0. /\ phase = "allocate" /\ idx_mod \in Nat \ {0}
      /\ module_list \in Seq(EntryType) /\ Len(module_list) \in Nat
      /\ DOMAIN module_list = 1 .. Len(module_list)
      /\ num_patch_blk \in Nat /\ num_patch_blk < idx_mod
  BY ListFacts DEF allocate_memory_block_for_patches, Loops, Types, Allocated
<1>1. /\ module_list' \in Seq(EntryType)
      /\ Len(module_list') = Len(module_list)
      /\ DOMAIN module_list' = 1 .. Len(module_list)
      /\ \A i \in 1 .. Len(module_list) :
            /\ module_list'[i].name = module_list[i].name
            /\ module_list'[i].hooks = module_list[i].hooks
            /\ i # idx_mod => module_list'[i].blk = module_list[i].blk
  BY AllocateKeeps
<1>2. UNCHANGED <<found_libc, num_hook, iFunc, nFunc_InBlk, code, real>>
  BY DEF allocate_memory_block_for_patches
<1>3. \/ /\ module_list = << >> /\ module_list' = << >>
         /\ phase' = "run" /\ idx_mod = 1 /\ idx_mod' = 1
         /\ UNCHANGED block
      \/ /\ idx_mod \in 1 .. Len(module_list)
         /\ \/ /\ idx_mod < Len(module_list)
               /\ idx_mod' = idx_mod + 1 /\ phase' = "allocate"
            \/ /\ idx_mod = Len(module_list)
               /\ idx_mod' = 1 /\ phase' = "install"
         /\ \/ UNCHANGED <<module_list, block>> /\ ~InUse(idx_mod)
            \/ /\ module_list'[idx_mod].blk \in 1 .. num_patch_blk
               /\ <<patch_blk_list[module_list'[idx_mod].blk].at,
                    module_list[idx_mod].name>> \in Near
               /\ UNCHANGED block
            \/ /\ num_patch_blk' = num_patch_blk + 1
               /\ num_patch_blk + 1 \in Index
               /\ patch_blk_list' =
                     [patch_blk_list EXCEPT ![num_patch_blk + 1].at =
                         module_list[idx_mod].name]
               /\ UNCHANGED module_list
  BY AllocateBlocks
<1>4. Hooks' = Hooks
  BY <1>0, <1>1, HooksSame
<1>5. Done' = {}
  <2>1. CASE phase' = "run"
    BY <1>3, <1>4, <2>1 DEF Done, Hooks
  <2>2. CASE phase' # "run"
    <3>1. iFunc' = 1
      BY <1>0, <1>2 DEF Loops
    <3>2. \A s \in Hooks : s[1] \in Nat \ {0} /\ s[2] \in Nat \ {0}
      BY <1>0, ListFacts, HooksFacts
    <3> QED  BY <1>3, <1>4, <2>2, <3>1, <3>2 DEF Done
  <2> QED  BY <2>1, <2>2
<1>6. /\ patch_blk_list' \in
            [Index -> [at : Module \cup {None}, num_trampoline : Nat,
                       slot : [Slots -> SlotType]]]
      /\ num_patch_blk' \in Nat
      /\ \A c \in Index :
            /\ patch_blk_list'[c].num_trampoline =
                  patch_blk_list[c].num_trampoline
            /\ patch_blk_list'[c].slot = patch_blk_list[c].slot
  <2>1. CASE UNCHANGED block
    BY <2>1 DEF Types, block
  <2>2. CASE /\ idx_mod \in 1 .. Len(module_list)
             /\ num_patch_blk' = num_patch_blk + 1
             /\ num_patch_blk + 1 \in Index
             /\ patch_blk_list' =
                   [patch_blk_list EXCEPT ![num_patch_blk + 1].at =
                       module_list[idx_mod].name]
    <3>1. module_list[idx_mod].name \in Module
      BY <1>0, <2>2, ListFacts
    <3> DEFINE n == num_patch_blk + 1
               e == [patch_blk_list[n] EXCEPT !.at = module_list[idx_mod].name]
               B == [at : Module \cup {None}, num_trampoline : Nat,
                     slot : [Slots -> SlotType]]
    <3>2. patch_blk_list \in [Index -> B] /\ patch_blk_list[n] \in B
      BY <2>2 DEF Types
    <3>3. /\ e \in B /\ e.slot = patch_blk_list[n].slot
          /\ e.num_trampoline = patch_blk_list[n].num_trampoline
      BY <3>1, <3>2
    <3>4. patch_blk_list' = [patch_blk_list EXCEPT ![n] = e]
      BY <2>2
    <3> HIDE DEF e, B
    <3>5. /\ patch_blk_list' \in [Index -> B]
          /\ \A c \in Index :
                patch_blk_list'[c] = IF c = n THEN e ELSE patch_blk_list[c]
      BY <2>2, <3>2, <3>3, <3>4
    <3> QED  BY <1>0, <2>2, <3>3, <3>5 DEF B
  <2> QED  BY <1>3, <2>1, <2>2 DEF block
<1>7. Types'
  BY <1>1, <1>2, <1>3, <1>6 DEF Types
<1>8. Loops'
  BY <1>0, <1>1, <1>2, <1>3 DEF Loops
<1>9. Registered'
  <2>1. ~found_libc' => module_list' = << >>
    BY <1>0, <1>1, <1>2 DEF Registered
  <2> QED  BY <1>0, <1>1, <1>2, <1>4, <2>1 DEF Registered
<1>10. Looked'
  <2>1. \A s \in Hooks : HookAt(s)' = HookAt(s) /\ AddressAt(s)' = AddressAt(s)
    BY <1>1, HooksFacts DEF HookAt, AddressAt
  <2>2. Done = {}
    BY <1>0 DEF Done
  <2> QED  BY <1>0, <1>4, <1>5, <2>1, <2>2 DEF Looked
<1>11. \A t \in Target : Slot(t)' = Slot(t)
  BY <1>6 DEF Slot, Target
<1>12. Empty' /\ Emptied' /\ Filled' /\ Patched' /\ Jumps' /\ Pointers'
  BY <1>0, <1>2, <1>3, <1>5, <1>11
  DEF Empty, Emptied, Filled, Patched, Jumps, Pointers
<1>13. Trampolines'
  <2>1. \A c \in Index : patch_blk_list'[c].num_trampoline = 0
    BY <1>0, <1>6 DEF Trampolines
  <2>2. phase' = "install" => \A c \in Index : Counted(c)' = {}
    BY <1>0, <1>3, <1>4, HooksFacts, ListFacts DEF Counted
  <2>3. num_hook' \in Nat /\ phase' \in {"run", "allocate", "install"}
    BY <1>2, <1>3, HookAssumption DEF Types
  <2> QED  BY <2>1, <2>2, <2>3, FS_EmptySet DEF Trampolines
<1>14. Allocated'
  <2>1. CASE module_list = << >>
    BY <1>0, <1>1, <1>3, <2>1 DEF Allocated, block
  <2>2. CASE module_list # << >>
    <3> DEFINE n == num_patch_blk + 1
    <3>0. /\ idx_mod \in 1 .. Len(module_list)
          /\ phase' \in {"allocate", "install"}
          /\ phase' = "allocate" => idx_mod' = idx_mod + 1
          /\ phase' = "install" => idx_mod = Len(module_list)
      BY <1>3, <2>2
    <3>1. /\ num_patch_blk' \in Nat
          /\ num_patch_blk' \in {num_patch_blk, n}
          /\ phase' = "allocate" => num_patch_blk' < idx_mod'
          /\ num_patch_blk' <= Len(module_list')
      BY <1>0, <1>1, <1>3, <1>6, <2>2 DEF block
    <3>2. phase' = "allocate" =>
             \A i \in DOMAIN module_list' :
                i >= idx_mod' => module_list'[i].blk = 1
      BY <1>0, <1>1, <3>0 DEF Allocated
    <3>3. ASSUME NEW i \in 1 .. Len(module_list), i < idx_mod, InUse(i)'
          PROVE  /\ module_list'[i].blk <= num_patch_blk'
                 /\ OneBlock' =>
                       <<patch_blk_list'[module_list'[i].blk].at,
                         module_list'[i].name>> \in Near
      <4>1. InUse(i) /\ module_list[i].blk \in Index
        BY <1>0, <1>1, <3>3, ListFacts DEF InUse
      <4>2. /\ module_list[i].blk <= num_patch_blk
            /\ OneBlock => <<patch_blk_list[module_list[i].blk].at,
                             module_list[i].name>> \in Near
        BY <1>0, <3>3, <4>1 DEF Allocated
      <4>3. module_list'[i].blk = module_list[i].blk
        BY <1>0, <1>1, <3>3
      <4>4. num_patch_blk' = n => ~OneBlock'
        BY <1>0, <4>1, <4>2 DEF OneBlock, Index
      <4>5. num_patch_blk' = num_patch_blk => UNCHANGED block
        BY <1>0, <1>3, <2>2 DEF block
      <4>6. module_list'[i].blk <= num_patch_blk'
        BY <1>0, <3>1, <4>1, <4>2, <4>3 DEF Index
      <4> QED  BY <1>1, <3>1, <4>2, <4>3, <4>4, <4>5, <4>6 DEF OneBlock, block
    <3>4. ASSUME NEW i \in 1 .. Len(module_list), i = idx_mod, InUse(i)'
          PROVE  /\ module_list'[i].blk <= num_patch_blk'
                 /\ OneBlock' =>
                       <<patch_blk_list'[module_list'[i].blk].at,
                         module_list'[i].name>> \in Near
      <4>1. InUse(idx_mod)
        BY <1>1, <3>4 DEF InUse
      <4>2. CASE /\ module_list'[i].blk \in 1 .. num_patch_blk
                 /\ <<patch_blk_list[module_list'[i].blk].at,
                      module_list[idx_mod].name>> \in Near
                 /\ UNCHANGED block
        <5>1. /\ patch_blk_list' = patch_blk_list
              /\ num_patch_blk' = num_patch_blk
              /\ module_list'[i].name = module_list[idx_mod].name
          BY <1>1, <3>4, <4>2 DEF block
        <5>2. module_list'[i].blk <= num_patch_blk
          BY <1>0, <4>2
        <5> QED  BY <4>2, <5>1, <5>2
      <4>3. CASE /\ num_patch_blk' = n /\ n \in Index
                 /\ patch_blk_list' =
                       [patch_blk_list EXCEPT ![n].at = module_list[idx_mod].name]
                 /\ UNCHANGED module_list
        <5>1. module_list[i].blk = 1
          BY <1>0, <3>4 DEF Allocated
        <5>2. OneBlock' => n = 1
          BY <1>0, <4>3 DEF OneBlock
        <5>3. patch_blk_list'[n].at = module_list[idx_mod].name
          BY <4>3 DEF Types
        <5>4. <<module_list[idx_mod].name, module_list[idx_mod].name>> \in Near
          BY <1>0, <3>0, ListFacts, HookAssumption
        <5> QED  BY <1>0, <3>4, <4>3, <5>1, <5>2, <5>3, <5>4
      <4> QED  BY <1>3, <2>2, <3>4, <4>1, <4>2, <4>3
    <3>5. \A i \in DOMAIN module_list' :
             /\ i \in 1 .. Len(module_list)
             /\ (phase' = "allocate" => i < idx_mod')
                   => i < idx_mod \/ i = idx_mod
      <4>1. CASE phase' = "allocate"
        BY <1>0, <1>1, <3>0, <4>1
      <4>2. CASE phase' = "install"
        BY <1>0, <1>1, <3>0, <4>2
      <4> QED  BY <3>0, <4>1, <4>2
    <3> QED  BY <1>1, <3>0, <3>1, <3>2, <3>3, <3>4, <3>5 DEF Allocated
  <2> QED  BY <2>1, <2>2
<1> QED  BY <1>7, <1>8, <1>9, <1>10, <1>12, <1>13, <1>14

-----------------------------------------------------------------------------
(* The trampolines of a block.                                             *)

\* The hooks of module i, of which there are as many as it has.
LEMMA HooksOfModule ==
    ASSUME Types, Registered, NEW i \in 1 .. Len(module_list)
    PROVE  LET n == Len(module_list[i].hooks)
           IN  /\ n \in Nat /\ {i} \X (1 .. n) \subseteq Hooks
               /\ IsFiniteSet({i} \X (1 .. n))
               /\ Cardinality({i} \X (1 .. n)) = n
PROOF
<1> DEFINE n == Len(module_list[i].hooks)
<1>1. n \in Nat
  BY ListFacts DEF Types
<1>2. {i} \X (1 .. n) \subseteq Hooks
  BY HooksFacts
<1> HIDE DEF n
<1>3. IsFiniteSet(1 .. n) /\ Cardinality(1 .. n) = n
  BY <1>1, FS_Interval
<1>4. IsFiniteSet({i}) /\ Cardinality({i}) = 1
  BY FS_Singleton
<1>5. /\ IsFiniteSet({i} \X (1 .. n))
      /\ Cardinality({i} \X (1 .. n)) = 1 * n
  BY <1>3, <1>4, FS_Product
<1> QED  BY <1>1, <1>2, <1>5 DEF n

\* The trampolines of the modules installed before and of this one fit.
LEMMA TrampolinesFit ==
    ASSUME IInv, phase = "install"
    PROVE  LET m == module_list[idx_mod]
               n == patch_blk_list[m.blk].num_trampoline
           IN  /\ idx_mod \in 1 .. Len(module_list) /\ m.blk \in Index
               /\ n \in Nat /\ Len(m.hooks) \in Nat
               /\ n + Len(m.hooks) <= num_hook
               /\ IsFiniteSet(Counted(m.blk))
               /\ Cardinality(Counted(m.blk) \cup
                     ({idx_mod} \X (1 .. Len(m.hooks)))) = n + Len(m.hooks)
PROOF
<1> USE DEF IInv
<1> DEFINE m == module_list[idx_mod]
           n == patch_blk_list[m.blk].num_trampoline
           l == Len(m.hooks)
           C == Counted(m.blk)
           D == {idx_mod} \X (1 .. l)
<1>1. idx_mod \in 1 .. Len(module_list)
  BY ListFacts DEF Types, Loops
<1>2. m.blk \in Index
  BY <1>1, ListFacts DEF Types
<1>3. n \in Nat /\ n = Cardinality(C)
  BY <1>2 DEF Types, Trampolines
<1>4. l \in Nat /\ D \subseteq Hooks /\ IsFiniteSet(D) /\ Cardinality(D) = l
  BY <1>1, HooksOfModule
<1>5. C \subseteq Hooks /\ IsFiniteSet(C)
  <2>1. C \subseteq Hooks
    BY DEF Counted
  <2> QED  BY <2>1, FS_Subset DEF Registered
<1>6. C \cap D = {}
  BY <1>1, ListFacts DEF Counted, Types
<1> HIDE DEF C, D, l, n, m
<1>7. Cardinality(C \cup D) = n + l
  <2>1. Cardinality(C \cup D) = Cardinality(C) + Cardinality(D) - Cardinality({})
    BY <1>4, <1>5, <1>6, FS_Union
  <2>2. Cardinality({}) = 0
    BY FS_EmptySet
  <2> QED  BY <1>3, <1>4, <2>1, <2>2
<1>8. n + l <= num_hook
  <2>1. C \cup D \subseteq Hooks
    BY <1>4, <1>5
  <2>2. Cardinality(C \cup D) <= Cardinality(Hooks)
    BY <2>1, FS_Subset DEF Registered
  <2> QED  BY <1>7, <2>2 DEF Registered
<1> QED  BY <1>1, <1>2, <1>3, <1>4, <1>5, <1>7, <1>8 DEF C, D, l, n, m

\* The slot for the next patch exists, and lies just behind those that may be
\* filled.
LEMMA NextSlot ==
    ASSUME IInv, phase = "install",
           iFunc <= Len(module_list[idx_mod].hooks)
    PROVE  LET m == module_list[idx_mod]
               n == patch_blk_list[m.blk].num_trampoline
           IN  /\ FirstSlot(m) \in Slots /\ FirstSlot(m) = Limit(m.blk)
               /\ n <= FirstSlot(m) /\ FirstSlot(m) <= n + iFunc - 1
PROOF
<1> USE DEF IInv
<1> DEFINE m == module_list[idx_mod]
           n == patch_blk_list[m.blk].num_trampoline
           l == Len(m.hooks)
           f == FirstSlot(m)
<1>1. n \in Nat /\ l \in Nat /\ n + l <= num_hook /\ iFunc <= l
  BY TrampolinesFit
<1>2. /\ iFunc \in Nat \ {0} /\ nFunc_InBlk \in Nat
      /\ iFunc > 1 => n <= nFunc_InBlk /\ nFunc_InBlk <= n + iFunc - 1
  BY DEF Loops
<1>3. f = IF iFunc = 1 THEN n ELSE nFunc_InBlk
  BY DEF FirstSlot
<1>4. f = Limit(m.blk)
  BY <1>2, <1>3 DEF Limit
<1>5. num_hook \in Nat /\ num_hook <= Capacity /\ Capacity \in Nat
  BY HookAssumption DEF Types
<1> HIDE DEF f, n, l, m
<1>6. f \in Nat /\ n <= f /\ f <= n + iFunc - 1
  BY <1>1, <1>2, <1>3
<1>7. f \in Slots
  BY <1>1, <1>2, <1>5, <1>6 DEF Slots
<1> QED  BY <1>4, <1>6, <1>7 DEF f, n, m

-----------------------------------------------------------------------------
(* install_hook.                                                           *)

\* The hook that the inner loop is at.
Current == <<idx_mod, iFunc>>

\* It is one of the hooks, and installation is not through with it.
LEMMA CurrentFacts ==
    ASSUME IInv, phase = "install",
           iFunc <= Len(module_list[idx_mod].hooks)
    PROVE  /\ Current \in Hooks /\ Current \notin Done
           /\ idx_mod \in 1 .. Len(module_list)
           /\ iFunc \in 1 .. Len(module_list[idx_mod].hooks)
           /\ HookAt(Current) = module_list[idx_mod].hooks[iFunc]
           /\ HookAt(Current) \in HookType
PROOF
<1> USE DEF IInv
<1>1. idx_mod \in 1 .. Len(module_list)
  BY TrampolinesFit
<1>2. iFunc \in 1 .. Len(module_list[idx_mod].hooks)
  BY TrampolinesFit DEF Loops
<1>3. Current \in Hooks
  BY <1>1, <1>2, HooksFacts DEF Current
<1>4. Current \notin Done
  BY <1>1, <1>2, TrampolinesFit, ListFacts DEF Done, Current, Types
<1> QED  BY <1>1, <1>2, <1>3, <1>4, HooksFacts DEF Current, HookAt

\* After a round of the inner loop it is through with it, and with no other.
LEMMA DoneGrows ==
    ASSUME IInv, phase = "install",
           iFunc <= Len(module_list[idx_mod].hooks),
           phase' = phase, idx_mod' = idx_mod, iFunc' = iFunc + 1,
           Hooks' = Hooks
    PROVE  Done' = Done \cup {Current}
PROOF
<1> USE DEF IInv
<1>1. /\ idx_mod \in Nat /\ iFunc \in Nat /\ Current \in Hooks
      /\ \A s \in Hooks : /\ s[1] \in Nat /\ s[2] \in Nat
                          /\ s = <<s[1], s[2]>>
  BY CurrentFacts, HooksFacts, ListFacts DEF Loops, Types
<1>2. \A s \in Hooks : s = Current <=> s[1] = idx_mod /\ s[2] = iFunc
  BY <1>1 DEF Current
<1> QED  BY <1>1, <1>2 DEF Done

\* Skip disables the current hook and changes nothing else of the list.
LEMMA SkipDisables ==
    ASSUME IInv, Skip
    PROVE  /\ module_list' \in Seq(EntryType)
           /\ Len(module_list') = Len(module_list)
           /\ DOMAIN module_list' = 1 .. Len(module_list)
           /\ \A i \in 1 .. Len(module_list) :
                 /\ module_list'[i].name = module_list[i].name
                 /\ module_list'[i].blk = module_list[i].blk
                 /\ Len(module_list'[i].hooks) = Len(module_list[i].hooks)
                 /\ DOMAIN module_list'[i].hooks = DOMAIN module_list[i].hooks
                 /\ \A j \in DOMAIN module_list[i].hooks :
                       module_list'[i].hooks[j] =
                          IF i = idx_mod /\ j = iFunc
                          THEN [module_list[i].hooks[j] EXCEPT
                                   !.disabled = TRUE, !.addr = None]
                          ELSE module_list[i].hooks[j]
PROOF
<1> USE DEF IInv
<1> DEFINE m == module_list[idx_mod]
           h == m.hooks[iFunc]
           g == [h EXCEPT !.disabled = TRUE, !.addr = None]
           q == [m.hooks EXCEPT ![iFunc] = g]
           e == [m EXCEPT !.hooks = q]
<1>1. /\ module_list \in Seq(EntryType)
      /\ DOMAIN module_list = 1 .. Len(module_list)
      /\ phase = "install" /\ iFunc <= Len(m.hooks)
  BY ListFacts DEF Types, Skip
<1>2. /\ idx_mod \in 1 .. Len(module_list)
      /\ iFunc \in 1 .. Len(m.hooks) /\ h \in HookType
  BY <1>1, CurrentFacts
<1>3. /\ m \in EntryType /\ m.hooks \in Seq(HookType)
      /\ DOMAIN m.hooks = 1 .. Len(m.hooks)
  BY <1>1, <1>2, ListFacts
<1>4. module_list' = [module_list EXCEPT ![idx_mod] = e]
  <2>1. module_list' = [module_list EXCEPT
                          ![idx_mod].hooks[iFunc].disabled = TRUE,
                          ![idx_mod].hooks[iFunc].addr = None]
    BY DEF Skip
  <2> DEFINE h1 == [h EXCEPT !.disabled = TRUE]
             q1 == [m.hooks EXCEPT ![iFunc] = h1]
             e1 == [m EXCEPT !.hooks = q1]
             l1 == [module_list EXCEPT ![idx_mod] = e1]
  <2>2. module_list' = [l1 EXCEPT ![idx_mod].hooks[iFunc].addr = None]
    BY <2>1
  <2>3. h1 \in HookType /\ [h1 EXCEPT !.addr = None] = g
    BY <1>2 DEF HookType
  <2> HIDE DEF h1, g, h
  <2>4. /\ q1 \in Seq(HookType) /\ q1[iFunc] = h1
        /\ [q1 EXCEPT ![iFunc] = g] = q
    BY <1>2, <1>3, <2>3
  <2> HIDE DEF q1, q
  <2>5. e1.hooks = q1 /\ [e1 EXCEPT !.hooks = q] = e
    BY <1>3 DEF EntryType
  <2> HIDE DEF e1, e
  <2>6. l1[idx_mod] = e1 /\ [l1 EXCEPT ![idx_mod] = e] =
                               [module_list EXCEPT ![idx_mod] = e]
    BY <1>1, <1>2
  <2> HIDE DEF l1
  <2> QED  BY <2>2, <2>3, <2>4, <2>5, <2>6
<1>5. g \in HookType
  BY <1>2 DEF HookType
<1> HIDE DEF g, h
<1>6. /\ q \in Seq(HookType) /\ Len(q) = Len(m.hooks)
      /\ \A j \in 1 .. Len(m.hooks) : q[j] = IF j = iFunc THEN g ELSE m.hooks[j]
  BY <1>2, <1>3, <1>5, ExceptSeq
<1>7. DOMAIN q = DOMAIN m.hooks
  OBVIOUS
<1> HIDE DEF q
<1>8. e \in EntryType /\ e.name = m.name /\ e.blk = m.blk /\ e.hooks = q
  BY <1>3, <1>6 DEF EntryType
<1> HIDE DEF e
<1>9. /\ module_list' \in Seq(EntryType)
      /\ Len(module_list') = Len(module_list)
      /\ \A i \in 1 .. Len(module_list) :
            module_list'[i] = IF i = idx_mod THEN e ELSE module_list[i]
  BY <1>1, <1>2, <1>4, <1>8, ExceptSeq
<1>10. DOMAIN module_list' = 1 .. Len(module_list)
  BY <1>1, <1>4
<1>11. ASSUME NEW i \in 1 .. Len(module_list), i # idx_mod
       PROVE  module_list'[i] = module_list[i]
  BY <1>9, <1>11
<1>12. ASSUME NEW i \in 1 .. Len(module_list), i = idx_mod
       PROVE  /\ module_list'[i].name = module_list[i].name
              /\ module_list'[i].blk = module_list[i].blk
              /\ module_list'[i].hooks = q /\ module_list[i] = m
  BY <1>8, <1>9, <1>12
<1>13. ASSUME NEW j \in DOMAIN m.hooks
       PROVE  q[j] = IF j = iFunc
                     THEN [m.hooks[j] EXCEPT !.disabled = TRUE, !.addr = None]
                     ELSE m.hooks[j]
  BY <1>3, <1>6 DEF g, h
<1> HIDE DEF m
<1> QED  BY <1>6, <1>7, <1>9, <1>10, <1>11, <1>12, <1>13

\* A disabled hook is passed over.
LEMMA SkipInv ==
    ASSUME IInv, Skip
    PROVE  IInv'
PROOF
<1> USE DEF IInv
<1> DEFINE m == module_list[idx_mod]
           n == patch_blk_list[m.blk].num_trampoline
<1>0. PICK c : c = Current
  OBVIOUS
<1>1. /\ phase = "install" /\ iFunc <= Len(m.hooks)
      /\ HookAt(c).disabled \/ Duplicated(m, iFunc)
      /\ iFunc' = iFunc + 1 /\ nFunc_InBlk' = FirstSlot(m)
      /\ UNCHANGED <<found_libc, phase, num_hook, num_patch_blk,
                     patch_blk_list, idx_mod, code, real>>
  BY <1>0, CurrentFacts DEF Skip, block
<1>2. /\ module_list \in Seq(EntryType) /\ module_list' \in Seq(EntryType)
      /\ Len(module_list') = Len(module_list)
      /\ DOMAIN module_list' = 1 .. Len(module_list)
      /\ DOMAIN module_list = 1 .. Len(module_list)
      /\ \A i \in 1 .. Len(module_list) :
            /\ module_list'[i].name = module_list[i].name
            /\ module_list'[i].blk = module_list[i].blk
            /\ Len(module_list'[i].hooks) = Len(module_list[i].hooks)
            /\ DOMAIN module_list'[i].hooks = DOMAIN module_list[i].hooks
            /\ \A j \in DOMAIN module_list[i].hooks :
                  module_list'[i].hooks[j] =
                     IF i = idx_mod /\ j = iFunc
                     THEN [module_list[i].hooks[j] EXCEPT
                              !.disabled = TRUE, !.addr = None]
                     ELSE module_list[i].hooks[j]
  BY SkipDisables, ListFacts DEF Types
<1>3. /\ c \in Hooks /\ c \notin Done
      /\ idx_mod \in 1 .. Len(module_list) /\ iFunc \in 1 .. Len(m.hooks)
      /\ HookAt(c) = m.hooks[iFunc] /\ HookAt(c) \in HookType
      /\ c[1] = idx_mod /\ c[2] = iFunc
  BY <1>0, <1>1, CurrentFacts DEF Current
<1>4. Hooks' = Hooks
  BY <1>2, HooksSame
<1>5. Done' = Done \cup {c}
  BY <1>0, <1>1, <1>4, DoneGrows
<1>6. /\ HookAt(c)' = [HookAt(c) EXCEPT !.disabled = TRUE, !.addr = None]
      /\ \A s \in Hooks : /\ s # c => HookAt(s)' = HookAt(s)
                          /\ AddressAt(s)' = AddressAt(s)
  <2>1. \A s \in Hooks : /\ s[1] \in 1 .. Len(module_list)
                         /\ s[2] \in DOMAIN module_list[s[1]].hooks
                         /\ s = <<s[1], s[2]>>
                         /\ HookAt(s) \in HookType
    BY <1>2, HooksFacts, ListFacts
  <2>2. HookAt(c)' = [HookAt(c) EXCEPT !.disabled = TRUE, !.addr = None]
    BY <1>2, <1>3, <2>1 DEF HookAt
  <2>3. ASSUME NEW s \in Hooks, s # c PROVE HookAt(s)' = HookAt(s)
    <3>1. ~(s[1] = idx_mod /\ s[2] = iFunc)
      BY <1>3, <2>1, <2>3
    <3> QED  BY <1>2, <2>1, <3>1 DEF HookAt
  <2>4. ASSUME NEW s \in Hooks PROVE AddressAt(s)' = AddressAt(s)
    <3>1. HookAt(s)'.func = HookAt(s).func
      <4>1. CASE s = c
        BY <1>3, <2>2, <4>1 DEF HookType
      <4> QED  BY <2>3, <4>1
    <3> QED  BY <1>2, <2>1, <3>1 DEF AddressAt
  <2> QED  BY <2>2, <2>3, <2>4
<1>7. /\ HookAt(c)'.disabled /\ HookAt(c)'.addr = None
      /\ \A t \in Target : Slot(t)' = Slot(t)
      /\ \A s \in Done : s # c /\ HookAt(s)' = HookAt(s)
  BY <1>1, <1>3, <1>6 DEF HookType, Slot, Done
<1>8. /\ FirstSlot(m) \in Slots /\ FirstSlot(m) = Limit(m.blk)
      /\ n <= FirstSlot(m) /\ FirstSlot(m) <= n + iFunc - 1
      /\ iFunc \in Nat \ {0} /\ n \in Nat
  BY <1>1, NextSlot, TrampolinesFit DEF Loops
<1>9. Types'
  BY <1>1, <1>2 DEF Types
<1>10. Loops'
  <2>1. /\ idx_mod' <= Len(module_list') /\ iFunc' \in Nat \ {0}
        /\ nFunc_InBlk' \in Nat
        /\ iFunc' <= Len(module_list'[idx_mod'].hooks) + 1
    <3>1. Len(m.hooks) \in Nat
      BY <1>2, <1>3, ListFacts
    <3>0. /\ Len(module_list') = Len(module_list) /\ idx_mod' = idx_mod
          /\ Len(module_list) \in Nat
      BY <1>1, <1>2, ListFacts
    <3>2. idx_mod' = idx_mod /\ idx_mod' <= Len(module_list')
      BY <1>3, <3>0
    <3>3. Len(module_list'[idx_mod].hooks) = Len(m.hooks)
      BY <1>2, <1>3
    <3>4. nFunc_InBlk' \in Nat
      BY <1>1, <1>8 DEF Slots
    <3> HIDE DEF m
    <3>5. iFunc' <= Len(m.hooks) + 1 /\ iFunc' \in Nat \ {0}
      BY <1>1, <1>8, <3>1
    <3>6. iFunc' <= Len(module_list'[idx_mod'].hooks) + 1
      BY <3>2, <3>3, <3>5
    <3> QED  BY <3>2, <3>4, <3>5, <3>6
  <2>2. module_list'[idx_mod'].blk = m.blk /\ patch_blk_list' = patch_blk_list
    BY <1>1, <1>2, <1>3
  <2> HIDE DEF m
  <2>3. n <= nFunc_InBlk' /\ nFunc_InBlk' <= n + iFunc' - 1
    BY <1>1, <1>8 DEF Slots
  <2> QED  BY <1>1, <2>1, <2>2, <2>3 DEF Loops
<1>11. Registered'
  <2>1. ASSUME module_list = << >> PROVE FALSE
    <3>1. Len(module_list) = 0
      BY <2>1
    <3> QED  BY <1>3, <3>1
  <2>2. found_libc'
    BY <1>1, <2>1 DEF Registered
  <2> QED  BY <1>1, <1>2, <1>4, <2>2 DEF Registered
<1>12. Looked'
  <2>1. ASSUME NEW s \in Hooks, s # c,
               HookAt(s)'.disabled, AddressAt(s)' # None
        PROVE  /\ s \in Done'
               /\ \E l \in 1 .. s[2] - 1 :
                     /\ ~HookAt(<<s[1], l>>)'.disabled
                     /\ HookAt(<<s[1], l>>)'.addr = AddressAt(s)'
    <3>1. HookAt(s).disabled /\ AddressAt(s) # None
      BY <1>6, <2>1
    <3>2. PICK l \in 1 .. s[2] - 1 :
             /\ ~HookAt(<<s[1], l>>).disabled
             /\ HookAt(<<s[1], l>>).addr = AddressAt(s)
      BY <1>1, <3>1 DEF Looked
    <3>3. s \in Done
      BY <1>1, <3>1 DEF Looked
    <3>4. /\ s[1] \in 1 .. Len(module_list)
          /\ s[2] \in 1 .. Len(module_list[s[1]].hooks)
          /\ Len(module_list[s[1]].hooks) \in Nat
      BY <1>2, HooksFacts, ListFacts
    <3>5. l \in 1 .. Len(module_list[s[1]].hooks)
      BY <3>4
    <3>6. <<s[1], l>> \in Hooks
      BY <3>4, <3>5, HooksFacts
    <3>7. <<s[1], l>> # c
      <4>1. s[1] = idx_mod => s[2] < iFunc
        BY <1>1, <1>2, <1>3, <3>3 DEF Done
      <4> QED  BY <1>3, <3>4, <4>1
    <3> QED  BY <1>5, <1>6, <3>2, <3>3, <3>6, <3>7
  <2>2. ASSUME AddressAt(c)' # None
        PROVE  \E l \in 1 .. c[2] - 1 :
                  /\ ~HookAt(<<c[1], l>>)'.disabled
                  /\ HookAt(<<c[1], l>>)'.addr = AddressAt(c)'
    <3>1. AddressAt(c) # None
      BY <1>3, <1>6, <2>2
    <3>2. ~HookAt(c).disabled /\ HookAt(c).addr = AddressAt(c)
      BY <1>1, <1>3, <3>1 DEF Looked
    <3>3. PICK l \in 1 .. iFunc - 1 :
             ~m.hooks[l].disabled /\ m.hooks[l].addr = m.hooks[iFunc].addr
      BY <1>1, <3>2 DEF Duplicated
    <3>4. HookAt(<<c[1], l>>) = m.hooks[l]
      BY <1>3 DEF HookAt
    <3>5. Len(m.hooks) \in Nat
      BY <1>2, <1>3, ListFacts
    <3>6. l \in 1 .. Len(m.hooks) /\ l # iFunc
      BY <1>3, <3>5
    <3>7. <<c[1], l>> \in Hooks /\ <<c[1], l>> # c
      BY <1>3, <3>6, HooksFacts
    <3> QED  BY <1>3, <1>6, <3>2, <3>3, <3>4, <3>7
  <2>3. ASSUME NEW s \in Hooks, s # c
        PROVE  /\ ~HookAt(s)'.disabled =>
                     HookAt(s)'.addr = AddressAt(s)' /\ HookAt(s)'.addr # None
               /\ HookAt(s)'.disabled => HookAt(s)'.addr = None
    BY <1>1, <1>6, <2>3 DEF Looked
  <2> QED  BY <1>3, <1>4, <1>5, <1>7, <2>1, <2>2, <2>3 DEF Looked
<1>13. Allocated'
  <2>1. ASSUME NEW i \in 1 .. Len(module_list), InUse(i)'
        PROVE  InUse(i)
    <3>1. PICK j \in DOMAIN module_list'[i].hooks :
             ~module_list'[i].hooks[j].disabled
      BY <2>1 DEF InUse
    <3>2. j \in DOMAIN module_list[i].hooks
      BY <1>2
    <3>3. <<i, j>> \in Hooks /\ HookAt(<<i, j>>)' = module_list'[i].hooks[j]
      BY <1>2, <3>2, HooksFacts, ListFacts DEF HookAt
    <3>4. <<i, j>> # c
      BY <1>7, <3>1, <3>3
    <3>5. HookAt(<<i, j>>) = module_list[i].hooks[j]
      BY DEF HookAt
    <3> QED  BY <1>6, <3>1, <3>2, <3>3, <3>4, <3>5 DEF InUse
  <2> QED  BY <1>1, <1>2, <2>1 DEF Allocated, OneBlock
<1>14. Trampolines'
  <2>1. \A b \in Index : Counted(b)' = Counted(b)
    BY <1>1, <1>2, <1>4, HooksFacts DEF Counted
  <2> QED  BY <1>1, <2>1 DEF Trampolines
<1>15. Filled'
  <2>1. \A b \in Index : Limit(b)' = Limit(b)
    <3>1. iFunc' > 1
      BY <1>1, <1>8
    <3>2. module_list'[idx_mod'].blk = m.blk
      BY <1>1, <1>2, <1>3
    <3> QED  BY <1>1, <1>8, <3>1, <3>2 DEF Limit
  <2> QED  BY <1>1, <1>5, <1>7, <2>1 DEF Filled, Target
<1>16. Patched'
  <2>1. \A s \in Done : module_list'[s[1]].blk = module_list[s[1]].blk
    BY <1>2, HooksFacts DEF Done
  <2>2. \A s \in Done : module_list'[s[1]].name = module_list[s[1]].name
    BY <1>2, HooksFacts DEF Done
  <2>3. ASSUME NEW s \in Done, ~HookAt(s).disabled
        PROVE  /\ real'[HookAt(s).ptr] # None
               /\ \E t \in Target :
                     /\ t[1] = module_list'[s[1]].blk
                     /\ Slot(t)'.addr = HookAt(s).addr
                     /\ Slot(t)'.new = HookAt(s).new
                     /\ code'[HookAt(s).addr] =
                           JumpTo(t[1], t[2], module_list[s[1]].name)'
    <3>1. PICK t \in Target :
             /\ t[1] = module_list[s[1]].blk
             /\ Slot(t).addr = HookAt(s).addr
             /\ Slot(t).new = HookAt(s).new
             /\ code[HookAt(s).addr] =
                   JumpTo(t[1], t[2], module_list[s[1]].name)
      BY <1>1, <2>3 DEF Patched
    <3>2. JumpTo(t[1], t[2], module_list[s[1]].name)' =
             JumpTo(t[1], t[2], module_list[s[1]].name)
      BY <1>1, <2>2, <2>3 DEF JumpTo
    <3>3. real[HookAt(s).ptr] # None
      BY <1>1, <2>3 DEF Patched
    <3> QED  BY <1>1, <1>7, <2>1, <3>1, <3>2, <3>3
  <2> HIDE DEF m, n
  <2> QED  BY <1>5, <1>7, <2>3 DEF Patched
<1>17. Empty' /\ Emptied' /\ Jumps' /\ Pointers'
  <2>1. \A p \in Pointer : real[p] # None => real[p] \in Target
    BY DEF Types
  <2> QED  BY <1>1, <1>5, <1>7, <2>1 DEF Empty, Emptied, Jumps, Pointers
<1> QED  BY <1>9, <1>10, <1>11, <1>12, <1>13, <1>14, <1>15, <1>16, <1>17

\* No slot holds the function of a hook that is about to be patched: its entry
\* has its own code.
LEMMA NotPatchedYet ==
    ASSUME IInv, phase = "install",
           iFunc <= Len(module_list[idx_mod].hooks),
           ~HookAt(Current).disabled, ~Duplicated(module_list[idx_mod], iFunc)
    PROVE  LET a == HookAt(Current).addr
           IN  /\ a \in Code /\ a = AddressAt(Current) /\ a # None
               /\ \A t \in Target : Slot(t).addr # a
               /\ code[a] = Original
PROOF
<1> USE DEF IInv
<1> DEFINE m == module_list[idx_mod]
           a == HookAt(Current).addr
<1>1. /\ Current \in Hooks /\ Current \notin Done
      /\ idx_mod \in 1 .. Len(module_list) /\ iFunc \in 1 .. Len(m.hooks)
      /\ HookAt(Current) = m.hooks[iFunc] /\ HookAt(Current) \in HookType
      /\ Current[1] = idx_mod /\ Current[2] = iFunc
  BY CurrentFacts DEF Current
<1>2. a \in Code /\ a = AddressAt(Current) /\ a # None
  BY <1>1 DEF Looked, HookType
<1>3. ASSUME NEW t \in Target, Slot(t).addr = a PROVE FALSE
  <2>1. PICK s \in Done : ~HookAt(s).disabled /\ HookAt(s).addr = a
    BY <1>2, <1>3 DEF Filled
  <2>2. /\ s \in Hooks /\ AddressAt(s) = a
        /\ s[1] \in 1 .. Len(module_list)
        /\ s[2] \in 1 .. Len(module_list[s[1]].hooks)
        /\ s[1] = idx_mod => s[2] < iFunc
    <3>1. s \in Hooks /\ AddressAt(s) = a
      BY <2>1 DEF Done, Looked
    <3>2. s[1] = idx_mod => s[2] < iFunc
      BY <1>1, ListFacts DEF Done, Types
    <3> QED  BY <3>1, <3>2, HooksFacts
  <2>3. module_list[s[1]].name = m.name
    <3>1. HookAt(s).func \in Symbol /\ HookAt(Current).func \in Symbol
      BY <1>1, <2>2, HooksFacts DEF HookType
    <3>2. module_list[s[1]].name \in Module /\ m.name \in Module
      BY <1>1, <2>2, ListFacts DEF Types
    <3> QED  BY <1>1, <1>2, <2>2, <3>1, <3>2, HookAssumption DEF AddressAt
  <2>4. s[1] = idx_mod
    BY <1>1, <2>2, <2>3, ListFacts DEF Registered, Types
  <2>5. HookAt(s) = m.hooks[s[2]]
    BY <2>4 DEF HookAt
  <2>6. s[2] \in 1 .. iFunc - 1
    BY <1>1, <2>2, <2>4, ListFacts DEF Types
  <2>7. Duplicated(m, iFunc)
    BY <1>1, <2>1, <2>5, <2>6 DEF Duplicated
  <2> QED  BY <2>7
<1>4. code[a] = Original
  BY <1>2, <1>3 DEF Jumps
<1> QED  BY <1>2, <1>3, <1>4

\* A function that is patched was original, and its slot empty: no other hook
\* has its address, and the slots below the count are those of other hooks.
LEMMA PatchInv ==
    ASSUME IInv, Patch
    PROVE  IInv'
PROOF
<1> USE DEF IInv
<1> DEFINE m == module_list[idx_mod]
           n == patch_blk_list[m.blk].num_trampoline
<1>0. PICK c, h, a, t0 : /\ c = Current /\ h = HookAt(Current) /\ a = h.addr
                         /\ t0 = <<m.blk, FirstSlot(m)>>
  OBVIOUS
<1>1. /\ phase = "install" /\ iFunc <= Len(m.hooks)
      /\ ~h.disabled /\ ~Duplicated(m, iFunc)
      /\ patch_blk_list' = [patch_blk_list EXCEPT ![t0[1]].slot[t0[2]] =
            [addr |-> a, new |-> h.new, saved |-> code[a]]]
      /\ real' = [real EXCEPT ![h.ptr] = t0]
      /\ code' = [code EXCEPT ![a] = JumpTo(t0[1], t0[2], m.name)]
      /\ iFunc' = iFunc + 1
      /\ nFunc_InBlk' = FirstSlot(m) + 1
      /\ UNCHANGED <<found_libc, phase, num_hook, module_list, num_patch_blk,
                     idx_mod>>
  BY <1>0, CurrentFacts DEF Patch, table
<1>2. /\ c \in Hooks /\ c \notin Done
      /\ idx_mod \in 1 .. Len(module_list) /\ iFunc \in 1 .. Len(m.hooks)
      /\ HookAt(c) = h /\ h = m.hooks[iFunc] /\ h \in HookType
      /\ c[1] = idx_mod /\ c[2] = iFunc
      /\ h.new \in Wrapper /\ h.ptr \in Pointer
  BY <1>0, <1>1, CurrentFacts DEF Current, HookType
<1>3. /\ a \in Code /\ a = AddressAt(c) /\ a # None
      /\ \A t \in Target : Slot(t).addr # a
      /\ code[a] = Original
  BY <1>0, <1>1, NotPatchedYet
<1>4. /\ t0[2] \in Slots /\ t0[2] = FirstSlot(m) /\ FirstSlot(m) = Limit(m.blk)
      /\ n <= FirstSlot(m) /\ FirstSlot(m) <= n + iFunc - 1
      /\ iFunc \in Nat \ {0} /\ n \in Nat
      /\ t0[1] = m.blk /\ m.blk \in Index /\ t0 \in Target
      /\ t0 = <<t0[1], t0[2]>>
  BY <1>0, <1>1, NextSlot, TrampolinesFit DEF Loops, Target
<1>5. m.blk <= num_patch_blk
  <2>1. InUse(idx_mod) /\ idx_mod \in DOMAIN module_list
    BY <1>1, <1>2, ListFacts DEF InUse, Types
  <2> QED  BY <1>1, <2>1 DEF Allocated
<1>6. Slot(t0).addr = None
  <2>1. ~(t0[2] < Limit(t0[1]))
    BY <1>4 DEF Slots
  <2> QED  BY <1>4, <2>1 DEF Filled
<1>7. /\ Hooks' = Hooks /\ Done' = Done \cup {c}
      /\ \A s \in Hooks : HookAt(s)' = HookAt(s) /\ AddressAt(s)' = AddressAt(s)
  BY <1>0, <1>1, DoneGrows DEF Hooks, HookAt, AddressAt
<1>8. /\ patch_blk_list' \in
            [Index -> [at : Module \cup {None}, num_trampoline : Nat,
                       slot : [Slots -> SlotType]]]
      /\ \A b \in Index :
            /\ patch_blk_list'[b].num_trampoline = patch_blk_list[b].num_trampoline
            /\ patch_blk_list'[b].at = patch_blk_list[b].at
      /\ \A t \in Target :
            Slot(t)' = IF t = t0
                       THEN [addr |-> a, new |-> h.new, saved |-> Original]
                       ELSE Slot(t)
  <2> DEFINE B == [at : Module \cup {None}, num_trampoline : Nat,
                   slot : [Slots -> SlotType]]
             b0 == t0[1]
             i0 == t0[2]
             x == [addr |-> a, new |-> h.new, saved |-> Original]
             q == [patch_blk_list[b0].slot EXCEPT ![i0] = x]
             e == [patch_blk_list[b0] EXCEPT !.slot = q]
  <2>1. x \in SlotType
    BY <1>2, <1>3 DEF SlotType
  <2>2. patch_blk_list' = [patch_blk_list EXCEPT ![b0] = e]
    BY <1>1, <1>3
  <2>3. b0 \in Index /\ i0 \in Slots /\ t0 = <<b0, i0>>
    BY <1>4
  <2> HIDE DEF x, b0, i0
  <2>4. /\ patch_blk_list \in [Index -> B] /\ patch_blk_list[b0] \in B
        /\ patch_blk_list[b0].slot \in [Slots -> SlotType]
    BY <2>3 DEF Types
  <2>5. /\ q \in [Slots -> SlotType] /\ q[i0] = x
        /\ \A i \in Slots : i # i0 => q[i] = patch_blk_list[b0].slot[i]
    BY <2>1, <2>3, <2>4
  <2> HIDE DEF q
  <2>6. /\ e \in B /\ e.slot = q /\ e.at = patch_blk_list[b0].at
        /\ e.num_trampoline = patch_blk_list[b0].num_trampoline
    BY <2>4, <2>5
  <2> HIDE DEF e, B
  <2>7. /\ patch_blk_list' \in [Index -> B]
        /\ \A b \in Index :
              patch_blk_list'[b] = IF b = b0 THEN e ELSE patch_blk_list[b]
    BY <2>2, <2>3, <2>4, <2>6
  <2>8. Slot(t0)' = x
    BY <2>3, <2>5, <2>6, <2>7 DEF Slot
  <2>9. ASSUME NEW t \in Target, t # t0 PROVE Slot(t)' = Slot(t)
    <3>1. t = <<t[1], t[2]>> /\ t[1] \in Index /\ t[2] \in Slots
      BY DEF Target
    <3>2. CASE t[1] = b0
      <4>1. t[2] # i0
        BY <2>3, <2>9, <3>1, <3>2
      <4> QED  BY <2>5, <2>6, <2>7, <3>1, <3>2, <4>1 DEF Slot
    <3>3. CASE t[1] # b0
      BY <2>7, <3>1, <3>3 DEF Slot
    <3> QED  BY <3>2, <3>3
  <2>10. \A b \in Index :
            /\ patch_blk_list'[b].num_trampoline = patch_blk_list[b].num_trampoline
            /\ patch_blk_list'[b].at = patch_blk_list[b].at
    BY <2>6, <2>7
  <2> QED  BY <2>7, <2>8, <2>9, <2>10 DEF x, B
<1>9. \A t \in Target : Slot(t).addr # None => t # t0 /\ Slot(t)' = Slot(t)
  BY <1>6, <1>8
<1>10. /\ code'[a] = JumpTo(t0[1], t0[2], m.name)
       /\ \A d \in Code : d # a => code'[d] = code[d]
       /\ code' \in [Code -> {Original, Astray} \cup Target]
       /\ real'[h.ptr] = t0
       /\ \A p \in Pointer : p # h.ptr => real'[p] = real[p]
       /\ real' \in [Pointer -> {None} \cup Target]
  <2>1. JumpTo(t0[1], t0[2], m.name) \in {Astray} \cup Target
    BY <1>4 DEF JumpTo
  <2> QED  BY <1>1, <1>2, <1>3, <1>4, <2>1 DEF Types
<1>11. /\ \A b \in Index : b # t0[1] => Limit(b)' = Limit(b)
       /\ Limit(t0[1])' = t0[2] + 1 /\ Limit(t0[1]) = t0[2]
       /\ t0[2] \in Nat
  <2>1. iFunc' > 1 /\ phase' = "install" /\ module_list'[idx_mod'].blk = m.blk
    BY <1>1, <1>4
  <2>2. Limit(t0[1])' = nFunc_InBlk'
    BY <1>1, <1>4, <2>1 DEF Limit
  <2>3. t0[2] \in Nat
    BY <1>4 DEF Slots
  <2> QED  BY <1>1, <1>4, <1>8, <2>1, <2>2, <2>3 DEF Limit
<1>12. Types'
  BY <1>1, <1>8, <1>10 DEF Types
<1>13. Loops'
  <2>1. /\ Len(m.hooks) \in Nat /\ idx_mod' = idx_mod /\ module_list' = module_list
        /\ idx_mod' <= Len(module_list')
    BY <1>1, <1>2, TrampolinesFit DEF Loops
  <2>2. patch_blk_list'[module_list'[idx_mod'].blk].num_trampoline = n
    BY <1>4, <1>8, <2>1
  <2>3. module_list'[idx_mod'].hooks = m.hooks
    BY <2>1
  <2>4. FirstSlot(m) \in Nat
    BY <1>4 DEF Slots
  <2> HIDE DEF m, n
  <2>5. /\ iFunc' \in Nat \ {0} /\ nFunc_InBlk' \in Nat
        /\ iFunc' <= Len(m.hooks) + 1
        /\ n <= nFunc_InBlk' /\ nFunc_InBlk' <= n + iFunc' - 1
    BY <1>1, <1>4, <2>1, <2>4
  <2> QED  BY <1>1, <2>1, <2>2, <2>3, <2>5 DEF Loops
<1>14. Registered'
  BY <1>1, <1>7 DEF Registered
<1>15. Looked'
  <2>1. ASSUME NEW s \in Hooks, NEW l \in 1 .. s[2] - 1
        PROVE  HookAt(<<s[1], l>>)' = HookAt(<<s[1], l>>)
    BY <1>1 DEF HookAt
  <2> QED  BY <1>1, <1>7, <2>1 DEF Looked
<1>16. Allocated'
  <2>1. \A i \in DOMAIN module_list : /\ InUse(i)' <=> InUse(i)
                                      /\ module_list[i].blk \in Index
    BY <1>1, ListFacts DEF InUse, Types
  <2> QED  BY <1>1, <1>8, <2>1 DEF Allocated, OneBlock
<1>17. Trampolines'
  <2>1. \A b \in Index : Counted(b)' = Counted(b)
    BY <1>1, <1>7 DEF Counted
  <2> QED  BY <1>1, <1>8, <2>1 DEF Trampolines
<1>18. Empty' /\ Emptied'
  BY <1>1 DEF Empty, Emptied
<1>19. Filled'
  <2>1. ASSUME NEW t \in Target, t # t0, Slot(t)'.addr # None
        PROVE  /\ t[1] <= num_patch_blk' /\ t[2] < Limit(t[1])'
               /\ Slot(t)'.saved = Original
               /\ \E s \in Done' :
                     /\ ~HookAt(s)'.disabled /\ HookAt(s)'.addr = Slot(t)'.addr
                     /\ \A u \in Target : Slot(u)'.addr = Slot(t)'.addr => u = t
    <3>1. Slot(t)' = Slot(t) /\ Slot(t).addr # None /\ Slot(t).addr # a
      BY <1>3, <1>8, <2>1
    <3>2. /\ t[1] <= num_patch_blk' /\ t[2] < Limit(t[1])
          /\ Slot(t).saved = Original /\ t[1] \in Index /\ t[2] \in Nat
      BY <1>1, <3>1 DEF Filled, Target, Slots
    <3>3. PICK s \in Done :
             /\ ~HookAt(s).disabled /\ HookAt(s).addr = Slot(t).addr
             /\ \A u \in Target : Slot(u).addr = Slot(t).addr => u = t
      BY <3>1 DEF Filled
    <3>4. s \in Done' /\ HookAt(s)' = HookAt(s)
      BY <1>7 DEF Done
    <3>5. Slot(t0)'.addr = a
      BY <1>4, <1>8
    <3>6. \A u \in Target : Slot(u)'.addr = Slot(t)'.addr => u = t
      BY <1>8, <3>1, <3>3, <3>5
    <3>7. t[2] < Limit(t[1])'
      <4>1. CASE t[1] = t0[1]
        <5>1. Limit(t[1])' = t0[2] + 1 /\ Limit(t[1]) = t0[2]
          BY <1>11, <4>1
        <5> QED  BY <1>11, <3>2, <5>1
      <4>2. CASE t[1] # t0[1]
        BY <1>11, <3>2, <4>2
      <4> QED  BY <4>1, <4>2
    <3> QED  BY <3>1, <3>2, <3>3, <3>4, <3>6, <3>7
  <2>2. /\ t0[1] <= num_patch_blk' /\ t0[2] < Limit(t0[1])'
        /\ Slot(t0)'.saved = Original
        /\ c \in Done' /\ ~HookAt(c)'.disabled /\ HookAt(c)'.addr = Slot(t0)'.addr
        /\ \A u \in Target : Slot(u)'.addr = Slot(t0)'.addr => u = t0
    <3>2. t0[2] < Limit(t0[1])'
      BY <1>11
    <3>3. Slot(t0)'.addr = a /\ Slot(t0)'.saved = Original
      BY <1>4, <1>8
    <3>4. \A u \in Target : Slot(u)'.addr = a => u = t0
      BY <1>3, <1>8
    <3>5. c \in Done' /\ HookAt(c)' = h
      BY <1>2, <1>7
    <3> QED  BY <1>0, <1>1, <1>4, <1>5, <3>2, <3>3, <3>4, <3>5
  <2> QED  BY <1>4, <2>1, <2>2 DEF Filled
<1>20. ASSUME NEW b \in Index, NEW i, NEW k
       PROVE  JumpTo(b, i, module_list[k].name)' =
                 JumpTo(b, i, module_list[k].name)
  BY <1>1, <1>8 DEF JumpTo
<1>21. Patched'
  <2>1. ASSUME NEW s \in Done, ~HookAt(s).disabled
        PROVE  /\ real'[HookAt(s).ptr] # None
               /\ \E t \in Target :
                     /\ t[1] = module_list'[s[1]].blk
                     /\ Slot(t)'.addr = HookAt(s).addr
                     /\ Slot(t)'.new = HookAt(s).new
                     /\ code'[HookAt(s).addr] =
                           JumpTo(t[1], t[2], module_list[s[1]].name)'
    <3>1. /\ real[HookAt(s).ptr] # None
          /\ HookAt(s).ptr \in Pointer /\ HookAt(s).addr \in Code
          /\ HookAt(s).addr # None
      BY <1>1, <2>1, HooksFacts, HookAssumption
      DEF Patched, Done, HookType, Looked
    <3>2. PICK t \in Target :
             /\ t[1] = module_list[s[1]].blk
             /\ Slot(t).addr = HookAt(s).addr
             /\ Slot(t).new = HookAt(s).new
             /\ code[HookAt(s).addr] =
                   JumpTo(t[1], t[2], module_list[s[1]].name)
      BY <1>1, <2>1 DEF Patched
    <3>3. Slot(t)' = Slot(t) /\ HookAt(s).addr # a
      BY <1>3, <1>9, <3>1, <3>2
    <3>4. real'[HookAt(s).ptr] # None
      BY <1>4, <1>10, <3>1, HookAssumption DEF Target, Index, Slots
    <3>5. code'[HookAt(s).addr] = code[HookAt(s).addr]
      BY <1>10, <3>1, <3>3
    <3>6. t[1] \in Index
      BY DEF Target
    <3>7. JumpTo(t[1], t[2], module_list[s[1]].name)' =
             JumpTo(t[1], t[2], module_list[s[1]].name)
      BY <1>20, <3>6
    <3>8. module_list' = module_list
      BY <1>1
    <3> QED  BY <3>2, <3>3, <3>4, <3>5, <3>7, <3>8
  <2>2. /\ real'[h.ptr] # None
        /\ t0[1] = module_list'[c[1]].blk
        /\ Slot(t0)'.addr = a /\ Slot(t0)'.new = h.new
        /\ code'[a] = JumpTo(t0[1], t0[2], module_list[c[1]].name)'
    <3>1. real'[h.ptr] # None
      BY <1>4, <1>10, HookAssumption DEF Target, Index, Slots
    <3>2. Slot(t0)'.addr = a /\ Slot(t0)'.new = h.new
      BY <1>4, <1>8
    <3>3. JumpTo(t0[1], t0[2], module_list[c[1]].name)' =
             JumpTo(t0[1], t0[2], module_list[c[1]].name)
      BY <1>4, <1>20
    <3>4. m.name = module_list[c[1]].name /\ m.blk = module_list[c[1]].blk
      BY <1>2
    <3>5. module_list' = module_list
      BY <1>1
    <3> QED  BY <1>4, <1>10, <3>1, <3>2, <3>3, <3>4, <3>5
  <2>3. /\ HookAt(c)' = h /\ h.addr = a
        /\ \A s \in Done : HookAt(s)' = HookAt(s)
    BY <1>0, <1>2, <1>7 DEF Done
  <2> HIDE DEF m, n
  <2>4. ASSUME NEW s \in Done', ~HookAt(s)'.disabled
        PROVE  /\ real'[HookAt(s)'.ptr] # None
               /\ \E t \in Target :
                     /\ t[1] = module_list'[s[1]].blk
                     /\ Slot(t)'.addr = HookAt(s)'.addr
                     /\ Slot(t)'.new = HookAt(s)'.new
                     /\ code'[HookAt(s)'.addr] =
                           JumpTo(t[1], t[2], module_list[s[1]].name)'
    <3>1. CASE s = c
      BY <1>4, <2>2, <2>3, <3>1
    <3>2. CASE s # c
      <4>1. s \in Done /\ HookAt(s)' = HookAt(s)
        BY <1>7, <2>3, <3>2
      <4> QED  BY <2>1, <2>4, <4>1
    <3> QED  BY <3>1, <3>2
  <2> QED  BY <2>4 DEF Patched
<1>22. Jumps'
  <2>1. Slot(t0)'.addr = a
    BY <1>4, <1>8
  <2>2. ASSUME NEW d \in Code, d # a, code'[d] # Original
        PROVE  \E t \in Target : Slot(t)'.addr = d
    <3>1. PICK t \in Target : Slot(t).addr = d
      BY <1>10, <2>2 DEF Jumps
    <3>2. d # None
      BY HookAssumption
    <3> QED  BY <1>9, <3>1, <3>2
  <2> QED  BY <1>4, <2>1, <2>2 DEF Jumps
<1>23. Pointers'
  <2>0. Slot(t0)'.addr = a
    BY <1>4, <1>8
  <2>1. /\ Slot(t0)'.addr = a /\ HookAt(c)' = h /\ h.addr = a /\ c \in Done'
    BY <1>0, <1>2, <1>7, <2>0
  <2>2. ASSUME NEW p \in Pointer, p # h.ptr, real'[p] # None
        PROVE  /\ Slot(real[p])'.addr # None
               /\ \E s \in Done' : /\ ~HookAt(s)'.disabled /\ HookAt(s)'.ptr = p
                                   /\ HookAt(s)'.addr = Slot(real[p])'.addr
    <3>1. real'[p] = real[p] /\ real[p] \in Target
      BY <1>10, <2>2 DEF Types
    <3>2. /\ Slot(real[p]).addr # None
          /\ \E s \in Done : /\ ~HookAt(s).disabled /\ HookAt(s).ptr = p
                             /\ HookAt(s).addr = Slot(real[p]).addr
      BY <1>1, <2>2, <3>1 DEF Pointers
    <3>3. PICK t \in Target : t = real[p] /\ real'[p] = t
      BY <3>1
    <3>4. Slot(t)' = Slot(t)
      BY <1>9, <3>2, <3>3
    <3>5. Slot(real[p])' = Slot(t)' /\ Slot(real[p]) = Slot(t)
      BY <3>3 DEF Slot
    <3>6. \A s \in Done : s \in Done' /\ HookAt(s)' = HookAt(s)
      BY <1>7 DEF Done
    <3> QED  BY <3>2, <3>4, <3>5, <3>6
  <2>3. Slot(real[h.ptr])' = Slot(t0)'
    BY <1>10 DEF Slot
  <2> QED  BY <1>1, <1>2, <1>3, <2>1, <2>2, <2>3 DEF Pointers
<1> QED  BY <1>12, <1>13, <1>14, <1>15, <1>16, <1>17, <1>18, <1>19, <1>21,
            <1>22, <1>23

\* The count of trampolines rises by the hooks of the module, patched or not.
LEMMA NextModuleInv ==
    ASSUME IInv, NextModule
    PROVE  IInv'
PROOF
<1> USE DEF IInv
<1> DEFINE m == module_list[idx_mod]
           n == patch_blk_list[m.blk].num_trampoline
           l == Len(m.hooks)
<1>0. PICK k, b0 : k = idx_mod /\ b0 = m.blk
  OBVIOUS
<1>1. /\ phase = "install" /\ iFunc = l + 1
      /\ patch_blk_list' =
            [patch_blk_list EXCEPT ![b0].num_trampoline = @ + l]
      /\ iFunc' = 1 /\ nFunc_InBlk' = 0
      /\ UNCHANGED <<found_libc, num_hook, module_list, num_patch_blk, code,
                     real>>
  BY <1>0 DEF NextModule, table
<1>2. /\ k \in 1 .. Len(module_list) /\ b0 \in Index
      /\ n \in Nat /\ l \in Nat /\ n + l <= num_hook
      /\ IsFiniteSet(Counted(b0))
      /\ Cardinality(Counted(b0) \cup ({k} \X (1 .. l))) = n + l
      /\ n = patch_blk_list[b0].num_trampoline
      /\ module_list[k].blk = b0 /\ l = Len(module_list[k].hooks)
  BY <1>0, <1>1, TrampolinesFit
<1>3. /\ Len(module_list) \in Nat
      /\ \/ k < Len(module_list) /\ idx_mod' = k + 1 /\ phase' = "install"
         \/ k = Len(module_list) /\ idx_mod' = 1 /\ phase' = "run"
  <2>1. Len(module_list) \in Nat
    BY ListFacts DEF Types
  <2>2. Advance(1, Len(module_list), "run")
    BY DEF NextModule
  <2> QED  BY <1>0, <1>1, <1>2, <2>1, <2>2 DEF Advance
<1>4. /\ Hooks' = Hooks
      /\ \A s \in Hooks : HookAt(s)' = HookAt(s) /\ AddressAt(s)' = AddressAt(s)
  BY <1>1 DEF Hooks, HookAt, AddressAt
<1>5. \A s \in Hooks :
         /\ s[1] \in 1 .. Len(module_list) /\ s = <<s[1], s[2]>>
         /\ s[2] \in Nat \ {0} /\ s[2] <= Len(module_list[s[1]].hooks)
  BY HooksFacts, ListFacts DEF Types
<1>6. Done' = Done
  <2>1. ASSUME NEW s \in Hooks PROVE s \in Done' <=> s \in Done
    <3>1. s \in Done <=> s[1] <= k
      <4>1. s[1] = k => s[2] < iFunc
        BY <1>1, <1>2, <1>5
      <4> QED  BY <1>0, <1>1, <1>2, <1>5, <4>1 DEF Done
    <3>2. s \in Done' <=> s[1] <= k
      BY <1>1, <1>2, <1>3, <1>4, <1>5 DEF Done
    <3> QED  BY <3>1, <3>2
  <2> QED  BY <1>4, <2>1 DEF Done
<1>7. /\ patch_blk_list' \in
            [Index -> [at : Module \cup {None}, num_trampoline : Nat,
                       slot : [Slots -> SlotType]]]
      /\ \A b \in Index :
            /\ patch_blk_list'[b].at = patch_blk_list[b].at
            /\ patch_blk_list'[b].slot = patch_blk_list[b].slot
            /\ patch_blk_list'[b].num_trampoline =
                  IF b = b0 THEN n + l ELSE patch_blk_list[b].num_trampoline
  <2> DEFINE B == [at : Module \cup {None}, num_trampoline : Nat,
                   slot : [Slots -> SlotType]]
             e == [patch_blk_list[b0] EXCEPT !.num_trampoline = @ + l]
  <2> HIDE DEF m, l, n
  <2>1. patch_blk_list \in [Index -> B] /\ patch_blk_list[b0] \in B
    BY <1>2 DEF Types
  <2>2. patch_blk_list[b0].num_trampoline + l = n + l /\ n + l \in Nat
    BY <1>2
  <2>3. /\ e \in B /\ e.at = patch_blk_list[b0].at
        /\ e.slot = patch_blk_list[b0].slot /\ e.num_trampoline = n + l
    BY <2>1, <2>2
  <2>4. patch_blk_list' = [patch_blk_list EXCEPT ![b0] = e]
    BY <1>1
  <2> HIDE DEF e, B
  <2>5. /\ patch_blk_list' \in [Index -> B]
        /\ \A b \in Index :
              patch_blk_list'[b] = IF b = b0 THEN e ELSE patch_blk_list[b]
    BY <1>2, <2>1, <2>3, <2>4
  <2> QED  BY <2>3, <2>5 DEF B
<1>8. \A t \in Target : Slot(t)' = Slot(t)
  BY <1>7 DEF Slot, Target
<1>9. Types'
  BY <1>1, <1>3, <1>7 DEF Types
<1>10. Loops'
  <2>1. Len(module_list'[k + 1].hooks) \in Nat \/ k = Len(module_list)
    BY <1>1, <1>2, <1>3, ListFacts DEF Types
  <2>2. idx_mod' \in Nat \ {0} /\ (phase' = "run" => idx_mod' = 1)
    BY <1>2, <1>3
  <2>3. phase' = "install" =>
           /\ idx_mod' <= Len(module_list')
           /\ iFunc' <= Len(module_list'[idx_mod'].hooks) + 1
    BY <1>1, <1>2, <1>3, <2>1
  <2> QED  BY <1>1, <1>3, <2>2, <2>3 DEF Loops
<1>11. Registered'
  BY <1>1, <1>4 DEF Registered
<1>12. Looked'
  <2>1. ASSUME NEW s, NEW j PROVE HookAt(<<s[1], j>>)' = HookAt(<<s[1], j>>)
    BY <1>1 DEF HookAt
  <2> QED  BY <1>1, <1>4, <1>6, <2>1 DEF Looked
<1>13. Allocated'
  <2>1. \A i \in DOMAIN module_list : /\ InUse(i)' <=> InUse(i)
                                      /\ module_list[i].blk \in Index
    BY <1>1, ListFacts DEF InUse, Types
  <2> QED  BY <1>1, <1>3, <1>7, <2>1 DEF Allocated, OneBlock
<1>14. Trampolines'
  <2>1. ASSUME NEW b \in Index, phase' = "install"
        PROVE  patch_blk_list'[b].num_trampoline = Cardinality(Counted(b)')
    <3>1. idx_mod' = k + 1 /\ idx_mod = k
      BY <1>0, <1>3, <2>1
    <3>2. CASE b = b0
      <4>1. Counted(b)' = Counted(b) \cup ({k} \X (1 .. l))
        <5>1. ASSUME NEW s \in Hooks
              PROVE  s \in {k} \X (1 .. l) <=> s[1] = k
          BY <1>2, <1>5
        <5>2. {k} \X (1 .. l) \subseteq Hooks
          BY <1>2, HooksFacts
        <5>3. \A s \in Hooks : s[1] = k => module_list[s[1]].blk = b
          BY <1>2, <3>2
        <5>4. \A s \in Hooks : s[1] < k + 1 <=> s[1] < k \/ s[1] = k
          BY <1>2, <1>5
        <5> HIDE DEF l
        <5> QED  BY <1>1, <1>4, <3>1, <5>1, <5>2, <5>3, <5>4 DEF Counted
      <4> QED  BY <1>2, <1>7, <3>2, <4>1
    <3>3. CASE b # b0
      <4>1. Counted(b)' = Counted(b)
        <5>1. \A s \in Hooks :
                 module_list[s[1]].blk = b => (s[1] < k + 1 <=> s[1] < k)
          BY <1>2, <1>5, <3>3
        <5> QED  BY <1>1, <1>4, <3>1, <5>1 DEF Counted
      <4> QED  BY <1>1, <1>7, <3>3, <4>1 DEF Trampolines
    <3> QED  BY <3>2, <3>3
  <2>2. \A b \in Index : patch_blk_list'[b].num_trampoline <= num_hook'
    BY <1>1, <1>2, <1>7 DEF Trampolines
  <2> QED  BY <1>3, <2>1, <2>2 DEF Trampolines
<1>15. Empty' /\ Emptied'
  BY <1>3 DEF Empty, Emptied
<1>16. Filled'
  <2>1. ASSUME NEW b \in Index
        PROVE  Limit(b) \in Nat /\ Limit(b)' \in Nat /\ Limit(b) <= Limit(b)'
    <3>1. Limit(b)' = IF b = b0 THEN n + l
                                ELSE patch_blk_list[b].num_trampoline
      BY <1>1, <1>7 DEF Limit
    <3>2. patch_blk_list[b].num_trampoline \in Nat
      BY DEF Types
    <3>3. CASE b = b0
      <4>1. Limit(b) \in Nat /\ Limit(b) <= n + l
        <5>1. iFunc > 1 => /\ n <= nFunc_InBlk /\ nFunc_InBlk <= n + iFunc - 1
                           /\ nFunc_InBlk \in Nat
          BY <1>1 DEF Loops
        <5>2. Limit(b) = IF iFunc > 1 THEN nFunc_InBlk ELSE n
          BY <1>0, <1>1, <1>2, <3>3 DEF Limit
        <5> HIDE DEF n, l
        <5> QED  BY <1>1, <1>2, <5>1, <5>2
      <4> HIDE DEF n, l
      <4> QED  BY <1>2, <3>1, <3>3, <4>1
    <3>4. CASE b # b0
      <4>1. Limit(b) = patch_blk_list[b].num_trampoline
        BY <1>0, <3>4 DEF Limit
      <4> QED  BY <3>1, <3>2, <3>4, <4>1
    <3> QED  BY <3>3, <3>4
  <2>2. ASSUME NEW t \in Target, t[2] < Limit(t[1])
        PROVE  t[2] < Limit(t[1])'
    <3>1. t[1] \in Index /\ t[2] \in Nat
      BY DEF Target, Slots
    <3> QED  BY <2>1, <2>2, <3>1
  <2>3. \A s \in Done : HookAt(s)' = HookAt(s)
    BY <1>4 DEF Done
  <2> QED  BY <1>1, <1>6, <1>8, <2>2, <2>3 DEF Filled
<1>17. Patched'
  <2>1. ASSUME NEW b \in Index, NEW i, NEW s
        PROVE  JumpTo(b, i, module_list[s].name)' =
                  JumpTo(b, i, module_list[s].name)
    BY <1>1, <1>7 DEF JumpTo
  <2>2. \A s \in Done : HookAt(s)' = HookAt(s)
    BY <1>4 DEF Done
  <2>3. ASSUME NEW s \in Done, ~HookAt(s).disabled
        PROVE  /\ real'[HookAt(s).ptr] # None
               /\ \E t \in Target :
                     /\ t[1] = module_list'[s[1]].blk
                     /\ Slot(t)'.addr = HookAt(s).addr
                     /\ Slot(t)'.new = HookAt(s).new
                     /\ code'[HookAt(s).addr] =
                           JumpTo(t[1], t[2], module_list[s[1]].name)'
    <3>1. PICK t \in Target :
             /\ t[1] = module_list[s[1]].blk
             /\ Slot(t).addr = HookAt(s).addr
             /\ Slot(t).new = HookAt(s).new
             /\ code[HookAt(s).addr] =
                   JumpTo(t[1], t[2], module_list[s[1]].name)
      BY <1>1, <2>3 DEF Patched
    <3>2. JumpTo(t[1], t[2], module_list[s[1]].name)' =
             JumpTo(t[1], t[2], module_list[s[1]].name)
      BY <2>1 DEF Target
    <3>3. real[HookAt(s).ptr] # None
      BY <1>1, <2>3 DEF Patched
    <3>4. Slot(t)' = Slot(t) /\ real' = real /\ code' = code
          /\ module_list' = module_list
      BY <1>1, <1>8
    <3> QED  BY <3>1, <3>2, <3>3, <3>4
  <2> HIDE DEF m, n, l
  <2> QED  BY <1>6, <2>2, <2>3 DEF Patched
<1>18. Jumps'
  BY <1>1, <1>8 DEF Jumps
<1>19. Pointers'
  <2>1. \A p \in Pointer : real[p] # None =>
           Slot(real[p])' = Slot(real[p]) /\ real'[p] = real[p]
    <3>1. \A p \in Pointer : real[p] # None => real[p] \in Target
      BY DEF Types
    <3> QED  BY <1>1, <1>7, <3>1 DEF Slot, Target
  <2>2. \A s \in Done : HookAt(s)' = HookAt(s)
    BY <1>4 DEF Done
  <2> QED  BY <1>1, <1>6, <2>1, <2>2 DEF Pointers
<1> QED  BY <1>9, <1>10, <1>11, <1>12, <1>13, <1>14, <1>15, <1>16, <1>17,
            <1>18, <1>19

-----------------------------------------------------------------------------
(* uninstall_hook.                                                         *)

\* A function is in one slot at most, so that what is copied back is its own
\* code, and one that is in no slot was not patched.
LEMMA BackOriginal ==
    ASSUME IInv, phase = "run", NEW a \in Code
    PROVE  Back(a) = Original
PROOF
<1> USE DEF IInv
<1> DEFINE used == {s \in (1 .. num_patch_blk) \X Slots :
                      /\ s[2] < patch_blk_list[s[1]].num_trampoline
                      /\ patch_blk_list[s[1]].slot[s[2]].addr = a}
           last == CHOOSE s \in used : \A t \in used :
                      t[1] < s[1] \/ (t[1] = s[1] /\ t[2] <= s[2])
<1>1. Back(a) = IF used = {} THEN code[a]
                ELSE patch_blk_list[last[1]].slot[last[2]].saved
  BY DEF Back
<1>2. a # None
  BY HookAssumption
<1>3. /\ num_patch_blk \in Nat /\ num_patch_blk <= MAX_MODULE
      /\ MAX_MODULE \in Nat
  BY ModulesFit, HookAssumption DEF Types, Allocated
<1>4. ASSUME NEW s \in used
      PROVE  s \in Target /\ Slot(s).addr = a /\ s[1] \in Nat /\ s[2] \in Nat
  BY <1>3 DEF Target, Index, Slots, Slot
<1>5. ASSUME NEW s \in Target, Slot(s).addr = a PROVE s \in used
  <2>1. s[1] <= num_patch_blk /\ s[2] < Limit(s[1])
    BY <1>2, <1>5 DEF Filled
  <2>2. Limit(s[1]) = patch_blk_list[s[1]].num_trampoline
    BY DEF Limit
  <2>3. s = <<s[1], s[2]>> /\ s[1] \in 1 .. num_patch_blk /\ s[2] \in Slots
    BY <1>3, <2>1 DEF Target, Index
  <2>4. s \in (1 .. num_patch_blk) \X Slots
    BY <2>3
  <2> QED  BY <1>5, <2>1, <2>2, <2>4 DEF Slot
<1> HIDE DEF used
<1>6. CASE used = {}
  <2>1. \A t \in Target : Slot(t).addr # a
    BY <1>5, <1>6
  <2>2. code[a] = Original
    BY <2>1 DEF Jumps
  <2> QED  BY <1>1, <1>6, <2>2
<1>7. CASE used # {}
  <2>1. PICK s \in used : TRUE
    BY <1>7
  <2>2. s \in Target /\ Slot(s).addr = a /\ s[1] \in Nat /\ s[2] \in Nat
    BY <1>4
  <2>3. \A t \in used : t = s
    BY <1>2, <1>4, <2>2 DEF Filled
  <2>4. \E x \in used : \A t \in used :
           t[1] < x[1] \/ (t[1] = x[1] /\ t[2] <= x[2])
    BY <2>1, <2>2, <2>3
  <2>5. last \in used
    BY <2>4
  <2>6. last = s
    BY <2>3, <2>5
  <2>7. Slot(s).saved = Original
    BY <1>2, <2>2 DEF Filled
  <2> QED  BY <1>1, <1>7, <2>6, <2>7 DEF Slot
<1> QED  BY <1>6, <1>7

\* Each slot holds the entry it replaced, so that copying back restores it.
LEMMA UninstallInv ==
    ASSUME IInv, uninstall_hook
    PROVE  IInv'
PROOF
<1> USE DEF IInv
<1>1. /\ phase = "run" /\ phase' = "uninstalled"
      /\ UNCHANGED <<found_libc, num_hook, module_list, num_patch_blk, idx_mod,
                     iFunc, nFunc_InBlk, real>>
  BY DEF uninstall_hook, table, loop
<1>2. /\ Hooks' = Hooks /\ Done' = Done
      /\ \A s \in Hooks : HookAt(s)' = HookAt(s) /\ AddressAt(s)' = AddressAt(s)
  BY <1>1 DEF Hooks, Done, HookAt, AddressAt
<1>3. /\ \A a \in Code : code'[a] = Original
      /\ code' \in [Code -> {Original, Astray} \cup Target]
  <2>1. CASE found_libc
    BY <1>1, <2>1, BackOriginal DEF uninstall_hook
  <2>2. CASE ~found_libc
    <3>1. Done = {}
      BY <2>2 DEF Registered, Done, Hooks
    <3>2. \A a \in Code : code[a] = Original
      BY <3>1, HookAssumption DEF Jumps, Filled
    <3> QED  BY <2>2, <3>2 DEF uninstall_hook, Types
  <2> QED  BY <2>1, <2>2 DEF Types
<1>4. /\ patch_blk_list' \in
            [Index -> [at : Module \cup {None}, num_trampoline : Nat,
                       slot : [Slots -> SlotType]]]
      /\ \A b \in Index : /\ patch_blk_list'[b].num_trampoline =
                                patch_blk_list[b].num_trampoline
                          /\ \A i \in Slots :
                                patch_blk_list'[b].slot[i].addr = None
  <2> DEFINE B == [at : Module \cup {None}, num_trampoline : Nat,
                   slot : [Slots -> SlotType]]
             F == [i \in Slots |-> Free]
             e(b) == [patch_blk_list[b] EXCEPT !.at = None, !.slot = F]
  <2>1. patch_blk_list \in [Index -> B] /\ num_patch_blk \in Nat
    BY DEF Types
  <2>2. F \in [Slots -> SlotType] /\ \A i \in Slots : F[i].addr = None
    BY DEF Free, SlotType
  <2>3. CASE found_libc
    <3>1. patch_blk_list' = [b \in Index |-> IF b <= num_patch_blk THEN e(b)
                                             ELSE patch_blk_list[b]]
      BY <2>3 DEF uninstall_hook
    <3> HIDE DEF F
    <3>2. \A b \in Index :
             /\ e(b) \in B /\ e(b).slot = F
             /\ e(b).num_trampoline = patch_blk_list[b].num_trampoline
      BY <2>1, <2>2
    <3> HIDE DEF e
    <3>3. ASSUME NEW b \in Index, ~(b <= num_patch_blk), NEW i \in Slots
          PROVE  patch_blk_list[b].slot[i].addr = None
      <4>1. <<b, i>> \in Target
        BY DEF Target
      <4> QED  BY <3>3, <4>1 DEF Filled, Slot
    <3> HIDE DEF B
    <3>4. /\ patch_blk_list' \in [Index -> B]
          /\ \A b \in Index :
                patch_blk_list'[b] = IF b <= num_patch_blk THEN e(b)
                                     ELSE patch_blk_list[b]
      BY <2>1, <3>1, <3>2
    <3> QED  BY <2>2, <3>2, <3>3, <3>4 DEF B
  <2>4. CASE ~found_libc
    <3>1. Done = {}
      BY <2>4 DEF Registered, Done, Hooks
    <3>2. \A t \in Target : Slot(t).addr = None
      BY <3>1 DEF Filled
    <3>3. \A b \in Index, i \in Slots : <<b, i>> \in Target
      BY DEF Target
    <3> QED  BY <2>1, <2>4, <3>2, <3>3 DEF uninstall_hook, Slot
  <2> QED  BY <2>3, <2>4
<1>5. Types' /\ Loops'
  BY <1>1, <1>3, <1>4 DEF Types, Loops
<1>6. Registered'
  BY <1>1, <1>2 DEF Registered
<1>7. Looked'
  <2>1. ASSUME NEW s, NEW j PROVE HookAt(<<s[1], j>>)' = HookAt(<<s[1], j>>)
    BY <1>1 DEF HookAt
  <2> QED  BY <1>1, <1>2, <2>1 DEF Looked
<1>8. Allocated'
  <2>1. \A i \in DOMAIN module_list : InUse(i)' <=> InUse(i)
    BY <1>1 DEF InUse
  <2> QED  BY <1>1, <2>1 DEF Allocated
<1>9. Trampolines'
  BY <1>1, <1>4 DEF Trampolines
<1>10. \A t \in Target : Slot(t)'.addr = None
  BY <1>4 DEF Slot, Target
<1>11. Empty' /\ Emptied' /\ Filled' /\ Patched' /\ Jumps' /\ Pointers'
  BY <1>1, <1>3, <1>10
  DEF Empty, Emptied, Filled, Patched, Jumps, Pointers
<1> QED  BY <1>5, <1>6, <1>7, <1>8, <1>9, <1>11

-----------------------------------------------------------------------------
(* The invariant.                                                          *)

\* A stutter changes nothing.
LEMMA StutterInv == IInv /\ UNCHANGED vars => IInv'
PROOF
<1> SUFFICES ASSUME IInv, UNCHANGED vars PROVE IInv'
  OBVIOUS
<1>1. UNCHANGED <<found_libc, phase, num_hook, module_list, num_patch_blk,
                  patch_blk_list, idx_mod, iFunc, nFunc_InBlk, code, real>>
  BY DEF vars, table, block, loop
<1> USE DEF IInv
<1>2. Types' /\ Loops' /\ Registered'
  BY <1>1 DEF Types, Loops, Registered, Hooks
<1>3. Hooks' = Hooks /\ Done' = Done
  BY <1>1 DEF Hooks, Done
<1>4. ASSUME NEW s, NEW j
      PROVE  /\ HookAt(s)' = HookAt(s) /\ AddressAt(s)' = AddressAt(s)
             /\ HookAt(<<s[1], j>>)' = HookAt(<<s[1], j>>)
  BY <1>1 DEF HookAt, AddressAt
<1>5. Looked'
  BY <1>1, <1>3, <1>4 DEF Looked
<1>6. Allocated'
  BY <1>1 DEF Allocated, InUse, OneBlock
<1>7. ASSUME NEW b
      PROVE  Counted(b)' = Counted(b) /\ Limit(b)' = Limit(b)
  BY <1>1, <1>3 DEF Counted, Limit
<1>8. Trampolines'
  BY <1>1, <1>7 DEF Trampolines
<1>9. \A t \in Target : Slot(t)' = Slot(t)
  BY <1>1 DEF Slot
<1>10. Empty' /\ Emptied' /\ Filled' /\ Jumps'
  <2>1. Empty' /\ Emptied' /\ Jumps'
    BY <1>1, <1>9 DEF Empty, Emptied, Jumps
  <2>2. Filled'
    BY <1>1, <1>3, <1>4, <1>7, <1>9 DEF Filled
  <2> QED  BY <2>1, <2>2
<1>11. Patched'
  BY <1>1, <1>3, <1>4, <1>9 DEF Patched, JumpTo
<1>12. Pointers'
  <2> SUFFICES ASSUME phase' # "uninstalled", NEW p \in Pointer,
                      real'[p] # None
               PROVE  /\ Slot(real[p])'.addr # None
                      /\ \E s \in Done' : /\ ~HookAt(s)'.disabled
                                         /\ HookAt(s)'.ptr = p
                                         /\ HookAt(s)'.addr = Slot(real[p])'.addr
    BY DEF Pointers
  <2>1. Slot(real[p])' = Slot(real[p])
    BY <1>1 DEF Slot
  <2>2. phase # "uninstalled" /\ real[p] # None
    BY <1>1
  <2>3. PICK s \in Done : /\ ~HookAt(s).disabled /\ HookAt(s).ptr = p
                          /\ HookAt(s).addr = Slot(real[p]).addr
    BY <2>2 DEF Pointers
  <2>4. Slot(real[p]).addr # None
    BY <2>2 DEF Pointers
  <2>5. s \in Done' /\ HookAt(s)' = HookAt(s)
    BY <1>3, <1>4
  <2> QED  BY <2>1, <2>3, <2>4, <2>5
<1> QED  BY <1>2, <1>5, <1>6, <1>8, <1>10, <1>11, <1>12

\* Every step keeps the invariant.
LEMMA NextInv == IInv /\ [Next]_vars => IInv'
PROOF
<1> SUFFICES ASSUME IInv, [Next]_vars PROVE IInv'
  OBVIOUS
<1>1. ASSUME NEW r \in Request, register_a_hook(r) PROVE IInv'
  BY <1>1, RegisterInv
<1>2. CASE query_all_org_func_addr
  BY <1>2, QueryInv
<1>3. CASE allocate_memory_block_for_patches
  BY <1>3, AllocateInv
<1>4. CASE Skip
  BY <1>4, SkipInv
<1>5. CASE Patch
  BY <1>5, PatchInv
<1>6. CASE NextModule
  BY <1>6, NextModuleInv
<1>7. CASE uninstall_hook
  BY <1>7, UninstallInv
<1>8. CASE UNCHANGED vars
  BY <1>8, StutterInv
<1> QED  BY <1>1, <1>2, <1>3, <1>4, <1>5, <1>6, <1>7, <1>8 DEF Next

\* The strengthening holds throughout install_hook and uninstall_hook, for any
\* modules, requests, and sizes of a block.
THEOREM Invariance == Spec => []IInv
PROOF
<1> QED  BY InitInv, NextInv, PTL DEF Spec

-----------------------------------------------------------------------------
(* What follows from it.                                                   *)

\* The types of Hook: each module is listed once and within the table, and no
\* slot or block is used that does not exist (register_a_hook, install_hook).
THEOREM TypeCorrect == Spec => []TypeOK
PROOF
<1>1. IInv => TypeOK
  <2> SUFFICES ASSUME IInv PROVE TypeOK
    OBVIOUS
  <2> USE DEF IInv
  <2>1. /\ module_list \in Seq(
              [name : Module, blk : Index, hooks : Seq(
                  [func : Symbol, new : Wrapper, ptr : Pointer,
                   addr : Code \cup {None}, disabled : BOOLEAN])])
        /\ num_patch_blk \in 0 .. Len(module_list)
    BY ModulesFit DEF Types, EntryType, HookType, Allocated
  <2>4. /\ Len(module_list) <= MAX_MODULE
        /\ \A i, j \in DOMAIN module_list :
              module_list[i].name = module_list[j].name => i = j
        /\ \A i \in DOMAIN module_list : Len(module_list[i].hooks) <= num_hook
    BY ModulesFit DEF Registered
  <2>2. ASSUME NEW b \in Index
        PROVE  /\ patch_blk_list[b].at \in Module \cup {None}
               /\ patch_blk_list[b].num_trampoline \in 0 .. num_hook
    BY HookAssumption DEF Types, Trampolines
  <2>3. ASSUME NEW b \in Index, NEW i \in Slots,
               patch_blk_list[b].slot[i].addr # None
        PROVE  b <= num_patch_blk /\ i < num_hook
    <3>1. /\ <<b, i>> \in Target /\ Slot(<<b, i>>).addr # None
          /\ i \in Nat /\ num_hook \in Nat
      BY <2>3, HookAssumption DEF Target, Slot, Slots, Types
    <3>2. b <= num_patch_blk /\ i < Limit(b)
      BY <3>1 DEF Filled
    <3>3. Limit(b) \in Nat /\ Limit(b) <= num_hook
      <4>1. CASE phase = "install" /\ iFunc > 1 /\ module_list[idx_mod].blk = b
        <5> DEFINE m == module_list[idx_mod]
                   n == patch_blk_list[m.blk].num_trampoline
                   l == Len(m.hooks)
        <5>1. n \in Nat /\ l \in Nat /\ n + l <= num_hook
          BY <4>1, TrampolinesFit
        <5>2. /\ n <= nFunc_InBlk /\ nFunc_InBlk <= n + iFunc - 1
              /\ iFunc <= l + 1 /\ nFunc_InBlk \in Nat /\ iFunc \in Nat
              /\ Limit(b) = nFunc_InBlk
          BY <4>1 DEF Loops, Limit
        <5> HIDE DEF n, l
        <5> QED  BY <3>1, <5>1, <5>2
      <4>2. CASE ~(phase = "install" /\ iFunc > 1
                   /\ module_list[idx_mod].blk = b)
        BY <4>2, HookAssumption DEF Limit, Types, Trampolines
      <4> QED  BY <4>1, <4>2
    <3> QED  BY <3>1, <3>2, <3>3
  <2> QED  BY <2>1, <2>2, <2>3, <2>4 DEF TypeOK, Types
<1> QED  BY <1>1, Invariance, PTL

\* After uninstall_hook every function is as it was, for any modules, blocks
\* and requests.
THEOREM PatchesUndone == Spec => []Restored
PROOF
<1>1. IInv => Restored
  BY HookAssumption DEF IInv, Restored, Emptied, Jumps
<1> QED  BY <1>1, Invariance, PTL

\* A call of a function that was registered meets the first wrapper registered
\* for it.
THEOREM CallsMeetWrappers == Spec => []CallMeetsWrapper
PROOF
<1>1. IInv => CallMeetsWrapper
  <2> SUFFICES ASSUME IInv, phase = "run", found_libc, OneBlock, NEW s \in Hooks
               PROVE  LET m == module_list[s[1]]
                          a == Address[m.name][m.hooks[s[2]].func]
                          j == CHOOSE k \in DOMAIN m.hooks :
                                  /\ Address[m.name][m.hooks[k].func] = a
                                  /\ \A l \in 1 .. k - 1 :
                                        Address[m.name][m.hooks[l].func] # a
                      IN  a # None =>
                              /\ code[a] \in Target
                              /\ Slot(code[a]).addr = a
                              /\ Slot(code[a]).new = m.hooks[j].new
    BY DEF CallMeetsWrapper
  <2> USE DEF IInv
  <2> DEFINE m == module_list[s[1]]
             a == Address[m.name][m.hooks[s[2]].func]
             First(k) == /\ Address[m.name][m.hooks[k].func] = a
                         /\ \A l \in 1 .. k - 1 :
                               Address[m.name][m.hooks[l].func] # a
             j == CHOOSE k \in DOMAIN m.hooks : First(k)
  <2>1. /\ s[1] \in 1 .. Len(module_list) /\ s[2] \in 1 .. Len(m.hooks)
        /\ DOMAIN m.hooks = 1 .. Len(m.hooks) /\ Len(m.hooks) \in Nat
        /\ \A k \in 1 .. Len(m.hooks) :
              /\ <<s[1], k>> \in Hooks /\ <<s[1], k>> \in Done
              /\ HookAt(<<s[1], k>>) = m.hooks[k]
              /\ AddressAt(<<s[1], k>>) = Address[m.name][m.hooks[k].func]
    BY HooksFacts, ListFacts DEF Types, HookAt, AddressAt, Done
  <2> HIDE DEF m
  <2>2. \E k \in DOMAIN m.hooks : First(k)
    <3> DEFINE S == {k \in 1 .. Len(m.hooks) :
                        Address[m.name][m.hooks[k].func] = a}
    <3>1. S \subseteq Nat /\ s[2] \in S
      BY <2>1
    <3> HIDE DEF S
    <3>2. PICK k \in S : \A l \in S : k <= l
      BY <3>1, LeastExists
    <3>3. k \in 1 .. Len(m.hooks) /\ Address[m.name][m.hooks[k].func] = a
      BY <3>2 DEF S
    <3>4. ASSUME NEW l \in 1 .. k - 1
          PROVE  Address[m.name][m.hooks[l].func] # a
      <4>1. l \in 1 .. Len(m.hooks) /\ ~(k <= l)
        BY <2>1, <3>3
      <4>2. l \notin S
        BY <3>2, <4>1
      <4> QED  BY <4>1, <4>2 DEF S
    <3> QED  BY <2>1, <3>3, <3>4
  <2>3. j \in DOMAIN m.hooks /\ First(j)
    BY <2>2
  <2> HIDE DEF j
  <2>4. PICK u : u = <<s[1], j>>
    OBVIOUS
  <2>5. /\ u \in Hooks /\ u \in Done /\ HookAt(u) = m.hooks[j]
        /\ AddressAt(u) = a /\ u[1] = s[1] /\ u[2] = j
    BY <2>1, <2>3, <2>4
  <2>6. ASSUME a # None
        PROVE  /\ code[a] \in Target
               /\ Slot(code[a]).addr = a
               /\ Slot(code[a]).new = m.hooks[j].new
    <3>1. ~HookAt(u).disabled
      <4> SUFFICES ASSUME HookAt(u).disabled PROVE FALSE
        OBVIOUS
      <4>1. PICK l \in 1 .. j - 1 :
               /\ ~HookAt(<<s[1], l>>).disabled
               /\ HookAt(<<s[1], l>>).addr = a
        BY <2>5, <2>6 DEF Looked
      <4>2. l \in 1 .. Len(m.hooks)
        BY <2>1, <2>3
      <4>3. AddressAt(<<s[1], l>>) = a
        BY <2>1, <4>1, <4>2 DEF Looked
      <4> QED  BY <2>1, <2>3, <4>2, <4>3
    <3>2. HookAt(u).addr = a
      BY <2>5, <3>1 DEF Looked
    <3>3. PICK t \in Target :
             /\ t[1] = m.blk
             /\ Slot(t).addr = a
             /\ Slot(t).new = m.hooks[j].new
             /\ code[a] = JumpTo(t[1], t[2], m.name)
      BY <2>5, <3>1, <3>2 DEF Patched, m
    <3>4. <<patch_blk_list[m.blk].at, m.name>> \in Near
      <4>1. InUse(s[1]) /\ s[1] \in DOMAIN module_list
        BY <2>1, <2>3, <2>5, <3>1, ListFacts DEF InUse, m, Types
      <4> QED  BY <4>1 DEF Allocated, m
    <3>5. code[a] = t
      <4>1. t = <<t[1], t[2]>>
        BY DEF Target
      <4>2. JumpTo(t[1], t[2], m.name) = <<t[1], t[2]>>
        BY <3>3, <3>4 DEF JumpTo
      <4> QED  BY <3>3, <4>1, <4>2
    <3> QED  BY <3>3, <3>5
  <2> QED  BY <2>6 DEF j, m
<1> QED  BY <1>1, Invariance, PTL

\* A wrapper that is called finds its pointer set, and a pointer that is set
\* leads to the unpatched code of a function registered with it.
THEOREM PointersMeetOriginals == Spec => []PointerMeetsOriginal
PROOF
<1>1. IInv => PointerMeetsOriginal
  <2> SUFFICES ASSUME IInv, phase = "run" PROVE PointerMeetsOriginal
    BY DEF PointerMeetsOriginal
  <2> USE DEF IInv
  <2>1. ASSUME NEW s \in Hooks, ~HookAt(s).disabled
        PROVE  real[HookAt(s).ptr] # None
    BY <2>1 DEF Patched, Done
  <2>2. ASSUME NEW p \in Pointer, real[p] # None
        PROVE  /\ Slot(real[p]).saved = Original
               /\ \E s \in Hooks : /\ HookAt(s).ptr = p
                                   /\ HookAt(s).addr = Slot(real[p]).addr
    <3>1. real[p] \in Target
      BY <2>2 DEF Types
    <3> QED  BY <2>2, <3>1 DEF Pointers, Filled, Done
  <2> QED  BY <2>1, <2>2 DEF PointerMeetsOriginal, HookAt
<1> QED  BY <1>1, Invariance, PTL

\* A slot that is filled is not filled again, whatever modules share the block.
THEOREM SlotsKept == Spec => SlotKept
PROOF
<1> DEFINE Kept == phase = "install" =>
              \A b \in Index, i \in Slots :
                 patch_blk_list[b].slot[i].addr # None =>
                    patch_blk_list'[b].slot[i] = patch_blk_list[b].slot[i]
<1>1. IInv /\ [Next]_vars => [Kept]_vars
  <2> SUFFICES ASSUME IInv, Next, phase = "install",
                      NEW b \in Index, NEW i \in Slots,
                      patch_blk_list[b].slot[i].addr # None
               PROVE  patch_blk_list'[b].slot[i] = patch_blk_list[b].slot[i]
    OBVIOUS
  <2>1. CASE Skip
    BY <2>1 DEF Skip, block
  <2>2. CASE NextModule
    BY <2>2 DEF NextModule, IInv, Types
  <2>3. CASE Patch
    <3> DEFINE m == module_list[idx_mod]
    <3>1. /\ FirstSlot(m) = Limit(m.blk) /\ FirstSlot(m) \in Nat
          /\ m.blk \in Index
      BY <2>3, NextSlot, TrampolinesFit DEF Patch, Slots
    <3>2. i < Limit(b) /\ i \in Nat
      <4>1. <<b, i>> \in Target /\ Slot(<<b, i>>).addr # None
        BY DEF Target, Slot
      <4> QED  BY <4>1 DEF IInv, Filled, Slots
    <3>3. ~(b = m.blk /\ i = FirstSlot(m))
      BY <3>1, <3>2
    <3> QED  BY <2>3, <3>1, <3>3 DEF Patch, IInv, Types
  <2> QED
    BY <2>1, <2>2, <2>3
    DEF Next, register_a_hook, query_all_org_func_addr,
        allocate_memory_block_for_patches, uninstall_hook
<1> QED  BY <1>1, Invariance, PTL DEF Spec, SlotKept

=============================================================================

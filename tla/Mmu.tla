-------------------------------- MODULE Mmu --------------------------------
(***************************************************************************)
(* The memory tables of predOS: kernel/mmu/mmu.c and the proc_frame_*      *)
(* functions of kernel/proc/proc.c.  Physical and virtual memory are cut   *)
(* into 1 MB sections and both are named by the section number, so a       *)
(* frame's identity address is the frame itself.  Descriptors keep only    *)
(* what translation needs: the frame a section leads to.  Attributes,      *)
(* permissions and TLB maintenance (every entry write invalidates the TLB) *)
(* are left out.                                                           *)
(***************************************************************************)
EXTENDS Integers

CONSTANTS
    FRAME_TABLE_SIZE,  \* sections managed by the frame table
    KERNEL_FRAMES      \* reserved at start: text (0), heap and stack

Frame == 0 .. FRAME_TABLE_SIZE - 1
FAULT == -1            \* first-level descriptor 0: an access aborts
COARSE == -2           \* the descriptor of the root coarse page table

\* Section 0 is the kernel's; init, the first process, gets frames 1 and 2.
ASSUME FrameAssumption ==
    /\ FRAME_TABLE_SIZE \in Nat /\ FRAME_TABLE_SIZE > 2
    /\ KERNEL_FRAMES \subseteq Frame
    /\ 0 \in KERNEL_FRAMES /\ 1 \notin KERNEL_FRAMES /\ 2 \notin KERNEL_FRAMES

PageTable == [Frame -> Frame \cup {FAULT, COARSE}]

\* What mmu_init leaves: the root coarse table under section 0, the kernel's
\* heap and stack mapped to themselves, nothing else below the peripherals.
InitPageTable ==
    [f \in Frame |-> IF f = 0 THEN COARSE
                     ELSE IF f \in KERNEL_FRAMES THEN f ELSE FAULT]

----------------------------------------------------------------------------
\* The frame table, as the set of the frames in use.  mmu_allocate_frame
\* hands out the lowest free frame.
IsFirstFree(f, table) ==
    /\ f \in Frame \ table
    /\ \A g \in Frame \ table : f <= g

\* (Definitions whose comment says "mutant" are faulty variants of the one that
\* follows; PROJECT.json lists the property each of them breaks.)

\* Mutant: the frames are not given back.
DeallocateNothing(table, freed) == table

Deallocate(table, freed) == table \ freed

----------------------------------------------------------------------------
\* The page-table updates made for a process p (a record with text_frame,
\* stack_frame and virtual_stack_frame).
Frames(p) == {p.text_frame, p.stack_frame}

\* Mutant: the text is forgotten.
WriteEnableStackOnly(table, p) == [table EXCEPT ![p.stack_frame] = p.stack_frame]

ProcFrameWriteEnable(table, p) ==
    [f \in Frame |-> IF f \in Frames(p) THEN f ELSE table[f]]

\* Mutant: clears the section the process sees its stack in.
WriteDisableVirtual(table, p) ==
    [f \in Frame |-> IF f \in {p.virtual_stack_frame, p.text_frame}
                     THEN FAULT ELSE table[f]]

ProcFrameWriteDisable(table, p) ==
    [f \in Frame |-> IF f \in Frames(p) THEN FAULT ELSE table[f]]

\* proc_frame_map: the two identity entries go, the stack appears in the
\* section the process believes it lives in.  (The text goes under the root
\* coarse table, which Kernel keeps in a variable of its own.)
ProcFrameMap(table, p) ==
    [ProcFrameWriteDisable(table, p) EXCEPT
        ![p.virtual_stack_frame] = p.stack_frame]

\* Mutant: the others' entries stay.
SwitchKeepingOthers(table, used, p) == ProcFrameMap(table, p)

\* Mutant: nothing is remapped.
SwitchForgotten(table, used, p) == table

\* kernel_context_switch: no process in use keeps its identity entries, the
\* current one is mapped.
ContextSwitchTable(table, used, p) ==
    ProcFrameMap([f \in Frame |-> IF \E q \in used : f \in Frames(q)
                                  THEN FAULT ELSE table[f]], p)
============================================================================

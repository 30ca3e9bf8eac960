------------------------------- MODULE Layout -------------------------------
(***************************************************************************)
(* The thread objects in memory: how C gets from a node of a list to its   *)
(* thread (hello_world/tools/misc.h, thread.h) and how pend_sv.S, which    *)
(* knows no types, finds the saved stack pointer of a thread.              *)
(*                                                                         *)
(* A pointer is a pair of the thread object it points into and an offset   *)
(* in bytes.                                                               *)
(***************************************************************************)
EXTENDS Integers

CONSTANTS
    thread_t,        \* the offset the compiler gives to each member of
    thread_ctx_t     \* thread_t and of thread_ctx_t

ASSUME LayoutAssumption ==
    /\ thread_t \in [{"ctx_ptr", "wait_queue", "id", "list_node"} -> Nat]
    /\ thread_ctx_t \in [{"stack_ptr", "status", "list_node"} -> Nat]

Member(ptr, type, field) == <<ptr[1], ptr[2] + type[field]>>

CONTAINER_OF(ptr, type, field) == <<ptr[1], ptr[2] - type[field]>>

THREAD_OBJECT_GET(node) == CONTAINER_OF(node, thread_t, "list_node")

(* The symbol is generated from the two types of a nested member ...        *)
GEN_ASM_OFFSET_NESTED_SYM(type, field, nested, member) ==
    type[field] + nested[member]

(* ... here for pend_sv.S. *)
thread_t_ctx_ptr_stack_ptr_OFFSET ==
    GEN_ASM_OFFSET_NESTED_SYM(thread_t, "ctx_ptr", thread_ctx_t, "stack_ptr")

Object(t) == <<t, 0>>

ListNode(t) == Member(Object(t), thread_t, "list_node")

(* ctx_ptr.stack_ptr of a thread object, in C and in assembler.             *)
CStackPtr(object) ==
    Member(Member(object, thread_t, "ctx_ptr"), thread_ctx_t, "stack_ptr")

AsmStackPtr(object) ==
    <<object[1], object[2] + thread_t_ctx_ptr_stack_ptr_OFFSET>>
=============================================================================

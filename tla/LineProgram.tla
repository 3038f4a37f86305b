----------------------------- MODULE LineProgram -----------------------------
(***************************************************************************)
(* The line number program of a compile unit                               *)
(* (np/spiegel/dwarf/lineno_program.cxx): a machine whose opcodes append   *)
(* rows to a table, run from the start for every address whose source line *)
(* is wanted.  The opcodes are the input: each step takes the next one,    *)
(* whatever it is.  Rows exist only in the machine's registers; "rows" is  *)
(* the table they would make, kept to say what a lookup should find.       *)
(***************************************************************************)
EXTENDS Integers, Sequences

CONSTANTS
    Advances,       \* operands of advance_pc
    LineAdvances,   \* operands of advance_line
    Addresses,      \* operands of set_address, and the addresses looked up
    LineModulus,    \* 2^32 in the code: the line register is unsigned
    LineBase, LineRange, OpcodeBase, LastOpcode,   \* LastOpcode is 255 in the code
    MinInstructionLength, MaxOperations,
    NFiles,         \* files in the header
    MaxSteps        \* bound: opcodes in a program

VARIABLES
    seeking_,           \* the address looked up
    registers_, start_, have_start_,
    additional_files_,  \* how many define_file opcodes have been run
    running_,
    status,             \* what run() returns, "none" while it runs
    found,              \* what the delegate stored: a file and a line, or NoLocation
    steps, rows

vars == <<seeking_, registers_, start_, have_start_, additional_files_, running_, status,
          found, steps, rows>>

NoLocation == [file |-> 0, line |-> -1, known |-> FALSE]

reset_registers ==
    [address |-> 0, op_index |-> 0, file |-> 1, line |-> 1, end_sequence |-> FALSE]

Init ==
    /\ seeking_ \in Addresses
    /\ registers_ = reset_registers /\ start_ = reset_registers /\ have_start_ = FALSE
    /\ additional_files_ = 0 /\ running_ = TRUE /\ status = "none" /\ found = NoLocation
    /\ steps = 0 /\ rows = <<>>

-----------------------------------------------------------------------------
(* The parts of the machine.                                               *)

advance_pc(r, n) ==
    [r EXCEPT !.address = @ + ((r.op_index + n) \div MaxOperations) * MinInstructionLength,
              !.op_index = (@ + n) % MaxOperations]

advance_line(r, n) == [r EXCEPT !.line = (@ + n) % LineModulus]

special_opcode_line_advance(op) == LineBase + ((op - OpcodeBase) % LineRange)
special_opcode_operation_advance(op) == (op - OpcodeBase) \div LineRange

get_file_entry(i) == i > 0 /\ i <= NFiles + additional_files_

\* range_t::contains(a): is operation 0 of the instruction at a in the range
\* from the start registers to the current ones?
contains(a, r) ==
    /\ ~(a < start_.address \/ (a = start_.address /\ start_.op_index > 0))
    /\ ~(a >= r.address)

\* copy(): report the range that ends here, and begin the next one.
have_start_after_Always(r) == TRUE
have_start_after(r) == ~r.end_sequence

copy(r, next) ==
    LET hit == have_start_ /\ contains(seeking_, r)
    IN  /\ rows' = Append(rows, r)
        /\ running_' = ~hit
        /\ found' = IF hit THEN [file |-> start_.file, line |-> start_.line,
                                 known |-> get_file_entry(start_.file)]
                    ELSE found
        /\ have_start_' = IF hit THEN have_start_ ELSE have_start_after(r)
        /\ start_' = IF hit THEN start_ ELSE IF r.end_sequence THEN reset_registers ELSE r
        /\ registers_' = next

-----------------------------------------------------------------------------
(* run(): one action for each kind of opcode.                              *)

Fetch ==
    /\ status = "none" /\ running_ /\ steps < MaxSteps
    /\ steps' = steps + 1
    /\ UNCHANGED seeking_

\* An opcode that only changes registers.
Sets(r) ==
    /\ Fetch /\ registers_' = r
    /\ UNCHANGED <<start_, have_start_, additional_files_, running_, status, found, rows>>

Copies(r, next) == Fetch /\ copy(r, next) /\ UNCHANGED <<additional_files_, status>>

DW_LNE_end_sequence == Copies([registers_ EXCEPT !.end_sequence = TRUE], reset_registers)
DW_LNE_set_address == \E a \in Addresses : Sets([registers_ EXCEPT !.address = a, !.op_index = 0])
DW_LNE_define_file ==
    /\ Fetch /\ additional_files_' = additional_files_ + 1
    /\ UNCHANGED <<registers_, start_, have_start_, running_, status, found, rows>>
DW_LNS_copy == Copies(registers_, registers_)
DW_LNS_advance_pc == \E n \in Advances : Sets(advance_pc(registers_, n))
DW_LNS_advance_line == \E n \in LineAdvances : Sets(advance_line(registers_, n))
DW_LNS_set_file == \E f \in 0..(NFiles + 1) : Sets([registers_ EXCEPT !.file = f])
DW_LNS_const_add_pc == Sets(advance_pc(registers_, special_opcode_operation_advance(LastOpcode)))
DW_LNS_fixed_advance_pc == \E n \in Advances : Sets([registers_ EXCEPT !.address = @ + n])

\* set_column, negate_stmt, set_basic_block, set_prologue_end, set_epilogue_begin,
\* set_isa, set_discriminator: registers no lookup looks at; and a standard
\* opcode without a case, which does nothing.
other_standard == Sets(registers_)

special_opcode ==
    \E op \in OpcodeBase..LastOpcode :
        LET r == advance_pc(advance_line(registers_, special_opcode_line_advance(op)),
                            special_opcode_operation_advance(op))
        IN  Copies(r, r)

Returns(s) ==
    /\ status = "none" /\ status' = s
    /\ UNCHANGED <<seeking_, registers_, start_, have_start_, additional_files_, running_,
                   found, steps, rows>>

unknown_extended == running_ /\ steps < MaxSteps /\ Returns("ERR_BAD_OPCODE")

\* The section ends in the middle of an opcode's operands.
operand_missing ==
    /\ running_ /\ steps < MaxSteps
    /\ \E s \in {"ERR_OPCODE_FETCH", "ERR_OPERAND_FETCH"} : Returns(s)

\* The program is over, or the delegate has stopped it.
run_ends == Returns(IF running_ THEN "SUCCESS" ELSE "ERR_HALTED_BY_DELEGATE")

ended == status # "none" /\ UNCHANGED vars

Next ==
    \/ DW_LNE_end_sequence \/ DW_LNE_set_address \/ DW_LNE_define_file
    \/ DW_LNS_copy \/ DW_LNS_advance_pc \/ DW_LNS_advance_line \/ DW_LNS_set_file
    \/ DW_LNS_const_add_pc \/ DW_LNS_fixed_advance_pc \/ other_standard \/ special_opcode
    \/ unknown_extended \/ operand_missing \/ run_ends \/ ended

Spec == Init /\ [][Next]_vars

get_source_line == status = "ERR_HALTED_BY_DELEGATE" /\ found # NoLocation

-----------------------------------------------------------------------------
(* Properties.                                                             *)

TypeOK ==
    /\ registers_.line \in 0..(LineModulus - 1) /\ start_.line \in 0..(LineModulus - 1)
    /\ registers_.op_index \in 0..(MaxOperations - 1)
    /\ registers_.end_sequence = FALSE /\ start_.end_sequence = FALSE
    /\ have_start_ \in BOOLEAN /\ running_ \in BOOLEAN

\* The rows that cover an address: the row at or before it whose successor in
\* the same sequence is after it.  Between a sequence's end and the next
\* sequence's first row nothing is covered.
Before(r, a) == r.address < a \/ (r.address = a /\ r.op_index = 0)
Covering ==
    {i \in 1..(Len(rows) - 1) : /\ ~rows[i].end_sequence
                                /\ Before(rows[i], seeking_) /\ ~Before(rows[i + 1], seeking_)}
Located(i) ==
    /\ found.file = rows[i].file /\ found.line = rows[i].line
    /\ found.known <=> found.file \in 1..(NFiles + additional_files_)

\* A lookup finds an address exactly when some row of the table covers it, and
\* gives the file and line of the first row that does, however the program
\* interleaves sequences, address resets and end-of-sequence marks.
LookupMatchesTable ==
    /\ ~running_ <=> Covering # {}
    /\ ~running_ => \E i \in Covering : (\A j \in Covering : i <= j) /\ Located(i)
    /\ status # "none" => (get_source_line <=> Covering # {})

\* A source line is looked up as the whole table would have it.
LinesFound == TypeOK /\ LookupMatchesTable

\* The inductive invariant.  While the program runs no row covers the address,
\* and the start registers are the last row's unless that ended a sequence;
\* when it has been stopped it is the last row but one that covers the address.
Rows ==
    [address : Int, op_index : 0..(MaxOperations - 1), file : Int, line : 0..(LineModulus - 1),
     end_sequence : BOOLEAN]
LookupInv ==
    /\ seeking_ \in Int /\ registers_ \in Rows /\ start_ \in Rows
    /\ ~registers_.end_sequence /\ ~start_.end_sequence
    /\ have_start_ \in BOOLEAN /\ running_ \in BOOLEAN
    /\ additional_files_ \in Nat /\ rows \in Seq(Rows)
    /\ running_ =>
         /\ Covering = {} /\ found = NoLocation /\ status # "ERR_HALTED_BY_DELEGATE"
         /\ have_start_ <=> rows # <<>> /\ ~rows[Len(rows)].end_sequence
         /\ have_start_ => start_ = rows[Len(rows)]
    /\ ~running_ =>
         /\ status \in {"none", "ERR_HALTED_BY_DELEGATE"}
         /\ Len(rows) > 1 /\ Covering = {Len(rows) - 1}
         /\ Located(Len(rows) - 1) /\ found.line >= 0

\* The operands of the opcodes are integers, and an address is that of one
\* operation: on the processors the code is for an instruction has no more.
Header ==
    /\ Advances \subseteq Nat /\ LineAdvances \subseteq Int /\ Addresses \subseteq Nat
    /\ LineModulus \in Nat \ {0, 1} /\ LineBase \in Int /\ LineRange \in Nat \ {0}
    /\ OpcodeBase \in Nat /\ LastOpcode \in Nat /\ MinInstructionLength \in Nat
    /\ MaxOperations = 1 /\ NFiles \in Nat

\* "end" is one operation past the last operation in the range: with several
\* operations to an instruction the last row's partial instruction counts too.
\* The code does not keep this, and no run checks it.
LookupCoversLastOperation ==
    status = "SUCCESS" => Covering = {}

\* An extended opcode the code does not know is skipped, as the comment at it
\* says: it does not end the program, and later rows are still found.
\* The code does not keep this, and no run checks it.
UnknownOpcodesSkipped == status # "ERR_BAD_OPCODE"
=============================================================================

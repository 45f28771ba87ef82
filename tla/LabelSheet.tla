----------------------------- MODULE LabelSheet -----------------------------
(***************************************************************************)
(* The blind labels of the benchmark, bench/label.py: an export writes the *)
(* packets, the key that says which pair of runs a packet shows, and an    *)
(* empty label sheet; a labelling pass asks for one label per packet and   *)
(* rewrites the sheet after every answer.  Either may be killed between    *)
(* two writes, and the corpus may have changed before the next export.     *)
(*                                                                         *)
(* One person uses the desk: an export and a labelling pass do not run at  *)
(* the same time.  A selection is the sequence of pairs to show; a label   *)
(* is the pair its author was looking at, 0 for none.                      *)
(***************************************************************************)
EXTENDS Naturals, Sequences, FiniteSets

CONSTANTS
    Samples, \* what the corpus may select, of any length
    Pairs    \* the pairs of runs, not 0

ASSUME SamplesAssumption == Samples \subseteq Seq(Pairs) /\ 0 \notin Pairs

VARIABLES
    packets,  \* packet number -> the pair it shows
    key,      \* the rows of key.jsonl, or Missing
    sheet,    \* packet number -> label, the rows of the sheet
    exists,   \* the label sheet exists
    desk,     \* what runs: [pc, selection, rows]
    answers,  \* history: the <<packet number, label>> that were written
    torn      \* a process was killed while it rewrote the sheet

labelVars == <<packets, key, sheet, exists, desk, answers, torn>>

Missing == <<0>>
Off == [pc |-> "off", selection |-> <<>>, rows |-> <<>>]

LabelInit ==
    /\ packets = <<>> /\ key = Missing /\ sheet = <<>> /\ exists = FALSE
    /\ desk = Off /\ answers = {} /\ torn = FALSE

\* Fault: the key is compared only when there are labels in the sheet.
GuardExportIfLabelled(selection) ==
    IF key = Missing /\ ~exists THEN TRUE
    ELSE key # Missing /\ exists /\ (key = selection \/ sheet = <<>>)

\* _guard_label_export
GuardExport(selection) ==
    IF key = Missing /\ ~exists THEN TRUE
    ELSE key # Missing /\ exists /\ key = selection

\* export_packets: after the guard the old packets are removed.
BeginExport(selection) ==
    /\ desk.pc = "off" /\ GuardExport(selection)
    /\ desk' = [pc |-> "packets", selection |-> selection, rows |-> <<>>]
    /\ packets' = <<>>
    /\ UNCHANGED <<key, sheet, exists, answers, torn>>

WritePacket ==
    /\ desk.pc = "packets" /\ Len(packets) < Len(desk.selection)
    /\ packets' = Append(packets, desk.selection[Len(packets) + 1])
    /\ UNCHANGED <<key, sheet, exists, desk, answers, torn>>

\* The key is opened for writing, and written.
OpenKey ==
    /\ desk.pc = "packets" /\ Len(packets) = Len(desk.selection)
    /\ key' = <<>>
    /\ desk' = [desk EXCEPT !.pc = "key"]
    /\ UNCHANGED <<packets, sheet, exists, answers, torn>>
WriteKey ==
    /\ desk.pc = "key"
    /\ key' = desk.selection
    /\ desk' = [desk EXCEPT !.pc = "sheet"]
    /\ UNCHANGED <<packets, sheet, exists, answers, torn>>

\* A sheet is made only if there is none: opened, and written.
OpenSheet ==
    /\ desk.pc = "sheet"
    /\ exists' = TRUE
    /\ desk' = IF exists THEN Off ELSE [desk EXCEPT !.pc = "blank"]
    /\ UNCHANGED <<packets, key, sheet, answers, torn>>
WriteBlank ==
    /\ desk.pc = "blank"
    /\ sheet' = [k \in DOMAIN desk.selection |-> 0]
    /\ desk' = Off
    /\ UNCHANGED <<packets, key, exists, answers, torn>>

Blank(seen) == [k \in DOMAIN seen |-> 0]

\* _sheet_rows: the sheet, or one row per packet if it has none.
SheetRows == IF sheet # <<>> THEN sheet ELSE Blank(packets)

\* label_interactively starts, if something was exported and is unlabelled.
BeginLabels ==
    /\ desk.pc = "off" /\ packets # <<>>
    /\ \E k \in DOMAIN SheetRows : SheetRows[k] = 0
    /\ desk' = [pc |-> "label", selection |-> <<>>, rows |-> SheetRows]
    /\ UNCHANGED <<packets, key, sheet, exists, answers, torn>>

\* A packet is shown and labelled; write_text empties the sheet first.
Answer(k) ==
    /\ desk.pc = "label" /\ k \in DOMAIN desk.rows \cap DOMAIN packets /\ desk.rows[k] = 0
    /\ desk' = [desk EXCEPT !.pc = "write", !.rows[k] = packets[k]]
    /\ sheet' = <<>> /\ exists' = TRUE
    /\ UNCHANGED <<packets, key, answers, torn>>
WriteSheet ==
    /\ desk.pc \in {"write", "save"}
    /\ sheet' = desk.rows
    /\ answers' = answers \cup {<<k, desk.rows[k]>> : k \in {j \in DOMAIN desk.rows : desk.rows[j] # 0}}
    /\ desk' = IF desk.pc = "save" THEN Off ELSE [desk EXCEPT !.pc = "label"]
    /\ UNCHANGED <<packets, key, exists, torn>>

\* The answer is "q", or the input ends: the sheet is written once more.
Save ==
    /\ desk.pc = "label"
    /\ desk' = [desk EXCEPT !.pc = "save"]
    /\ sheet' = <<>> /\ exists' = TRUE
    /\ UNCHANGED <<packets, key, answers, torn>>

\* Every packet was shown, and labelled or skipped.
EndLabels ==
    /\ desk.pc = "label"
    /\ desk' = Off
    /\ UNCHANGED <<packets, key, sheet, exists, answers, torn>>

Rewriting == desk.pc \in {"write", "save"}

KillDesk ==
    /\ desk.pc # "off"
    /\ torn' = (torn \/ Rewriting)
    /\ desk' = Off
    /\ UNCHANGED <<packets, key, sheet, exists, answers>>

LabelNext ==
    \/ \E selection \in Samples : BeginExport(selection)
    \/ WritePacket \/ OpenKey \/ WriteKey \/ OpenSheet \/ WriteBlank
    \/ BeginLabels \/ (\E k \in DOMAIN desk.rows : Answer(k)) \/ WriteSheet \/ Save \/ EndLabels
    \/ KillDesk

LabelSpec == LabelInit /\ [][LabelNext]_labelVars

-----------------------------------------------------------------------------
\* "existing labels could be applied to different trajectories" is what the
\* guard refuses: a label stays with the pair its author saw, in the packets
\* and in the key, whatever was exported or killed in between.
LabelsStayWithTheirPair ==
    \A k \in DOMAIN sheet :
        sheet[k] # 0 =>
            /\ k \in DOMAIN packets => packets[k] = sheet[k]
            /\ key # Missing /\ k \in DOMAIN key => key[k] = sheet[k]

\* "Writing as it goes is what makes labeling resumable": an answer that was
\* written is kept, except when a process is killed while it rewrites the sheet.
AnswersAreKept ==
    torn \/ Rewriting
    \/ \A a \in answers : a[1] \in DOMAIN sheet /\ sheet[a[1]] = a[2]

\* No export, interruption or change of the corpus loses or moves a label.
LabelsSurvive == LabelsStayWithTheirPair /\ AnswersAreKept
=============================================================================

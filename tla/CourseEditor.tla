----------------------------- MODULE CourseEditor -----------------------------
(* The pages of the administrator that create and edit courses and NVQs        *)
(* (app/(admin)/admin/courses and app/(admin)/admin/nvqs), and the handler that *)
(* stores them. A form holds scalar fields and lists of items. Its handlers    *)
(* write { ...formData, field } with the formData of the render they were made *)
(* in, and an upload does so when it returns. Most items of the lists are      *)
(* objects, shared by the form and by every older copy of it; others are        *)
(* strings, of which every copy has its own. A value is a version: 0 for none,  *)
(* 1 for a blank, greater ones for what was typed.                             *)
EXTENDS Integers, FiniteSets

CONSTANTS
  Courses,           \* ids of courses that can exist
  FirstCourses,      \* those that exist at first
  Nvqs,              \* those of type nvq; the others are of type course
  Units, Dates,      \* items of the lists of a form; Dates are the slots
  Lines,             \* the items that are strings: of included and of whatIsIt
  FirstItems,        \* the items of the courses that exist at first
  CourseListLimit,   \* courses in a list asked for without a limit (20)
  Authors,           \* administrators, each with one page open
  MaxEdits           \* bound: changes typed, and pages opened

ASSUME CourseEditorAssumption ==
  /\ FirstCourses \subseteq Courses /\ Nvqs \subseteq Courses
  /\ FirstItems \subseteq Units \cup Dates
  /\ (Units \cup Dates) \cap {"title", "slug", "text", "level", "image", "hidden"} = {}
  /\ Units \cap Dates = {} /\ Lines \subseteq Units
  /\ CourseListLimit \in Nat /\ MaxEdits \in Nat

VARIABLES
  course,      \* server: the row of each course, or NoCourse
  edit,        \* the page of each administrator
  edits,
  due,         \* history: for each course, the values that administrators saved last
  tainted      \* history: courses saved from a form that was not as its administrator saw it

editorVars == << course, edit, edits, due, tainted >>

Items == Units \cup Dates
Scalars == {"title", "slug", "text", "level", "image"}
Fields == Scalars \cup Items \cup {"hidden"}
CourseRow == [Fields -> Nat]
NoCourse == [f \in Fields |-> 0]
NoEdit == [at |-> "closed"]

\* What a form shows before a course is loaded, and on the pages that create one.
BlankCourse == [f \in Fields |-> IF f \in Scalars \ {"level"} THEN 1 ELSE 0]
BlankNvq == [f \in Fields |-> IF f \in Scalars THEN 1 ELSE 0]
NewCourse == BlankCourse
NewNvq == BlankNvq

\* Mutant: the items of a course are not loaded.
CourseFormWithoutItems(r) == [f \in Fields |-> IF f \in Items \cup {"level", "hidden"} THEN 0 ELSE r[f]]

\* The form made of an answer: what the page has no field for is not kept.
CourseForm(r) == [f \in Fields |-> IF f \in {"level", "hidden"} THEN 0 ELSE r[f]]
NvqForm(r) == [f \in Fields |-> CASE f = "hidden" -> 0
                                  [] f = "level" /\ r[f] = 0 -> 1
                                  [] OTHER -> r[f]]

\* The controls of each page, in its two columns.
CourseColumn == {"title", "slug", "text", "image"} \cup Units
CourseSide == {"text"} \cup Dates
NvqColumn == {"title", "slug", "text", "level", "image"} \cup Units
NvqSide == {"text"}
NewCourseColumn == CourseColumn
NewCourseSide == CourseSide
NewNvqColumn == NvqColumn
NewNvqSide == NvqSide

Controls(page) ==
  CASE page = "course" -> CourseColumn \cup CourseSide
    [] page = "nvq" -> NvqColumn \cup NvqSide
    [] page = "new course" -> NewCourseColumn \cup NewCourseSide
    [] page = "new nvq" -> NewNvqColumn \cup NewNvqSide

\* The payloads drop items that were left blank.
Clean(f) == [x \in Fields |-> IF x \in Units /\ f[x] = 1 THEN 0 ELSE f[x]]

\* Rows of the lists, newest first, each with a link to its page.
Listed(kind) == { c \in kind : /\ course[c] # NoCourse
                               /\ Cardinality({ d \in kind : d >= c /\ course[d] # NoCourse }) <= CourseListLimit }
CourseTable == Listed(Courses \ Nvqs)
NvqTable == Listed(Nvqs)

-----------------------------------------------------------------------------
EditorInit ==
  /\ course = [c \in Courses |-> IF c \in FirstCourses
                 THEN [f \in Fields |-> IF f \in Items \ FirstItems \/ (f = "level" /\ c \notin Nvqs)
                                        THEN 0 ELSE 2]
                 ELSE NoCourse]
  /\ edit = [a \in Authors |-> NoEdit]
  /\ edits = 0
  /\ due = course
  /\ tainted = {}

Edit == edits < MaxEdits /\ edits' = edits + 1
Fresh == edits + 3

Page(page, id, at, form) ==
  [at |-> at, page |-> page, id |-> id, form |-> form, meant |-> form, touched |-> {},
   uploading |-> FALSE, copy |-> form, payload |-> form, sent |-> [meant |-> form, touched |-> {}],
   stale |-> FALSE]

OpenEditor(a) ==
  /\ edit[a] = NoEdit
  /\ Edit
  /\ edit' \in { [edit EXCEPT ![a] = p] : p \in
         { Page("course", c, "loading", BlankCourse) : c \in CourseTable }
    \cup { Page("nvq", c, "loading", BlankNvq) : c \in NvqTable }
    \cup { Page("new course", c, "open", NewCourse) : c \in Courses \ Nvqs }
    \cup { Page("new nvq", c, "open", NewNvq) : c \in Nvqs } }
  /\ UNCHANGED << course, due, tainted >>

LoadCourse(a) ==
  /\ edit[a].at = "loading"
  /\ LET form == IF edit[a].page = "course" THEN CourseForm(course[edit[a].id])
                                            ELSE NvqForm(course[edit[a].id])
     IN edit' = [edit EXCEPT ![a] = Page(@.page, @.id, "open", form)]
  /\ UNCHANGED << course, edits, due, tainted >>

\* An alert, and the blank form is shown as if it were the course.
LoadFails(a) ==
  /\ edit[a].at = "loading"
  /\ edit' = [edit EXCEPT ![a] = [@ EXCEPT !.at = "open", !.stale = TRUE]]
  /\ UNCHANGED << course, edits, due, tainted >>

-----------------------------------------------------------------------------
Open(a) == edit[a].at \in {"open", "putting", "leaving"}
Offers(a, f) == Open(a) /\ f \in Controls(edit[a].page)

\* setFormData({ ...formData, f: v }); a title writes the slug as well.
Written(form, f, v) ==
  [form EXCEPT ![f] = v, !["slug"] = IF f \in {"title", "slug"} THEN v ELSE @]

Write(a, f, v) ==
  LET e == edit[a]
  IN edit' = [edit EXCEPT ![a] = [e EXCEPT !.form = Written(e.form, f, v), !.meant = Written(e.meant, f, v),
                                           !.touched = e.touched \cup {f}]]

TypeField(a, f) ==
  /\ Offers(a, f) /\ f \in Scalars \ {"image"}
  /\ Edit
  /\ Write(a, f, Fresh)

\* addArrayItem and removeArrayItem make a new array; an item that was removed does
\* not come back, another one is added.
AddItem(a, i) ==
  /\ Offers(a, i) /\ i \in Items
  /\ edit[a].form[i] = 0 /\ i \notin edit[a].touched
  /\ Edit
  /\ Write(a, i, 1)

RemoveItem(a, i) ==
  /\ Offers(a, i) /\ i \in Items
  /\ edit[a].form[i] # 0
  /\ Edit
  /\ Write(a, i, 0)

\* updateArrayItem writes into the object itself, wherever it is held; a string is
\* put into a new array, which an older copy of the form does not have.
UpdateItem(a, i) ==
  /\ Offers(a, i) /\ i \in Items
  /\ edit[a].form[i] # 0
  /\ Edit
  /\ LET e == edit[a]
     IN edit' = [edit EXCEPT ![a] =
          [e EXCEPT !.form = [e.form EXCEPT ![i] = Fresh], !.meant = [e.meant EXCEPT ![i] = Fresh],
                    !.touched = e.touched \cup {i},
                    !.copy = IF e.copy[i] = 0 \/ i \in Lines THEN e.copy ELSE [e.copy EXCEPT ![i] = Fresh]]]

\* handleImageUpload keeps the formData it was called with.
ChooseImage(a) ==
  /\ Offers(a, "image") /\ ~edit[a].uploading
  /\ Edit
  /\ edit' = [edit EXCEPT ![a] = [@ EXCEPT !.uploading = TRUE, !.copy = edit[a].form]]

EditStep(a) ==
  /\ \/ \E f \in Fields : TypeField(a, f) \/ AddItem(a, f) \/ RemoveItem(a, f) \/ UpdateItem(a, f)
     \/ ChooseImage(a)
  /\ UNCHANGED << course, due, tainted >>

ImageReturns(a) ==
  /\ Open(a) /\ edit[a].uploading
  /\ LET e == edit[a]
     IN edit' = [edit EXCEPT ![a] =
          [e EXCEPT !.uploading = FALSE, !.form = [e.copy EXCEPT !["image"] = Fresh],
                    !.meant = [e.meant EXCEPT !["image"] = Fresh], !.touched = e.touched \cup {"image"}]]
  /\ UNCHANGED << course, edits, due, tainted >>

ImageFails(a) ==
  /\ Open(a) /\ edit[a].uploading
  /\ edit' = [edit EXCEPT ![a].uploading = FALSE]
  /\ UNCHANGED << course, edits, due, tainted >>

-----------------------------------------------------------------------------
\* handleSave of each page: the payload is the form of the click.
SubmitCourse(a) == edit[a].at = "open" /\ edit[a].page = "course"
SubmitNvq(a) == edit[a].at = "open" /\ edit[a].page = "nvq"
SubmitNewCourse(a) == edit[a].at = "open" /\ edit[a].page = "new course"
SubmitNewNvq(a) == edit[a].at = "open" /\ edit[a].page = "new nvq"

Submit(a) ==
  /\ SubmitCourse(a) \/ SubmitNvq(a) \/ SubmitNewCourse(a) \/ SubmitNewNvq(a)
  /\ edit' = [edit EXCEPT ![a] =
       [@ EXCEPT !.at = "putting", !.payload = Clean(edit[a].form),
                 !.sent = [meant |-> Clean(edit[a].meant), touched |-> edit[a].touched]]]
  /\ UNCHANGED << course, edits, due, tainted >>

\* The row that Update writes: every column but the slug is the payload's.
Updated(r, payload) == [payload EXCEPT !["slug"] = r["slug"]]

\* What was changed in the form is due; the rest is as it was saved before.
Owed(c, sent) == [f \in Fields |-> IF f \in sent.touched THEN sent.meant[f] ELSE due[c][f]]

\* The form is not what its administrator meant, or other forms of the course
\* are open with what they loaded before.
Reliable(e) == ~e.stale /\ Clean(e.payload) = e.sent.meant

StoreCourse(a) ==
  /\ edit[a].at = "putting" /\ edit[a].page \in {"course", "nvq"}
  /\ LET c == edit[a].id
     IN /\ course' = [course EXCEPT ![c] = Updated(@, edit[a].payload)]
        /\ due' = [due EXCEPT ![c] = Owed(c, edit[a].sent)]
        /\ tainted' = IF Reliable(edit[a]) THEN tainted ELSE tainted \cup {c}
        /\ edit' = [b \in Authors |->
             CASE b = a -> [edit[b] EXCEPT !.at = "leaving"]
               [] b # a /\ edit[b] # NoEdit /\ edit[b].id = c -> [edit[b] EXCEPT !.stale = TRUE]
               [] OTHER -> edit[b]]
  /\ UNCHANGED edits

\* Create: a slug that another course has is refused.
CreateCourse(a) ==
  /\ edit[a].at = "putting" /\ edit[a].page \in {"new course", "new nvq"}
  /\ course[edit[a].id] = NoCourse
  /\ \A d \in Courses : course[d]["slug"] # edit[a].payload["slug"]
  /\ course' = [course EXCEPT ![edit[a].id] = edit[a].payload]
  /\ due' = [due EXCEPT ![edit[a].id] = edit[a].sent.meant]
  /\ tainted' = IF Reliable(edit[a]) THEN tainted ELSE tainted \cup {edit[a].id}
  /\ edit' = [edit EXCEPT ![a].at = "leaving"]
  /\ UNCHANGED edits

SaveFails(a) ==
  /\ edit[a].at = "putting"
  /\ edit' = [edit EXCEPT ![a].at = "open"]
  /\ UNCHANGED << course, edits, due, tainted >>

\* A second after the save, or by the link back to the list.
LeaveEditor(a) ==
  /\ edit[a].at \in {"open", "leaving"}
  /\ edit' = [edit EXCEPT ![a] = NoEdit]
  /\ UNCHANGED << course, edits, due, tainted >>

EditorNext ==
  \E a \in Authors :
     \/ OpenEditor(a) \/ LoadCourse(a) \/ LoadFails(a) \/ EditStep(a)
     \/ ImageReturns(a) \/ ImageFails(a) \/ Submit(a)
     \/ StoreCourse(a) \/ CreateCourse(a) \/ SaveFails(a) \/ LeaveEditor(a)

EditorSpec == EditorInit /\ [][EditorNext]_editorVars

-----------------------------------------------------------------------------
EditPage ==
  [at: {"loading", "open", "putting", "leaving"}, page: {"course", "nvq", "new course", "new nvq"},
   id: Courses, form: CourseRow, meant: CourseRow, touched: SUBSET Fields, uploading: BOOLEAN,
   copy: CourseRow, payload: CourseRow, sent: [meant: CourseRow, touched: SUBSET Fields],
   stale: BOOLEAN]

EditorTypeOK ==
  /\ course \in [Courses -> CourseRow]
  /\ edit \in [Authors -> EditPage \cup {NoEdit}]
  /\ edits \in Nat
  /\ due \in [Courses -> CourseRow]
  /\ tainted \subseteq Courses

Kept == {"title", "text", "image"} \cup Items

\* What administrators changed and saved is in the database, whoever saved the course
\* last and whatever else the form held, unless a form was saved that had failed to
\* load, that was loaded before the save of another administrator, or whose
\* picture came back after other changes (handleSave, handleImageUpload, the load
\* effect, CourseService.Update). The slug is not stored by Update.
EditsAreKept == \A c \in Courses \ tainted : \A f \in Kept : course[c][f] = due[c][f]

-----------------------------------------------------------------------------
(* What makes EditsAreKept inductive. *)

\* A course has a slug, and no unit that is blank.
RowsAreClean ==
  \A c \in Courses : /\ course[c] # NoCourse => course[c]["slug"] # 0
                     /\ \A u \in Units : course[c][u] # 1

Edits(e) == e.page \in {"course", "nvq"}

\* A form that is good holds what is due of the course, but for what was changed in it; and so
\* does the payload of its save.
PageFollows(e) ==
  /\ Edits(e) => course[e.id] # NoCourse
  /\ e.at = "putting" => Clean(e.payload) = e.payload
  /\ Edits(e) /\ ~e.stale /\ e.id \notin tainted =>
       /\ e.at \in {"open", "putting"} => \A f \in Kept \ e.touched : Clean(e.meant)[f] = due[e.id][f]
       /\ e.at = "putting" => \A f \in Kept \ e.sent.touched : e.sent.meant[f] = due[e.id][f]

EditorInv ==
  /\ EditorTypeOK /\ RowsAreClean /\ EditsAreKept
  /\ \A a \in Authors : edit[a] # NoEdit => PageFollows(edit[a])
=============================================================================

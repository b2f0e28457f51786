--------------------------- MODULE MCCoursePackages ---------------------------
(* Three courses that can be published, two of them of one text under two     *)
(* licenses and one with a widget, and four that their author must be told     *)
(* about.                                                                    *)
EXTENDS CoursePackages

Block(key, type) == [key |-> key, type |-> type, sound |-> TRUE, asset |-> None, captions |-> None,
                     transcript |-> None, check |-> None, widget |-> None, titled |-> TRUE]

Shows(key, type, asset) == [Block(key, type) EXCEPT !.asset = asset]

Places(key, release) == [Block(key, "PLUGIN_WIDGET") EXCEPT !.widget = release]

Checks(key, assessment) == [Block(key, "KNOWLEDGE_CHECK") EXCEPT !.check = assessment]

Video(key, asset, captions, transcript) ==
    [Shows(key, "VIDEO", asset) EXCEPT !.captions = captions, !.transcript = transcript]

Lesson1(key, position, requires, blocks) ==
    [key |-> key, position |-> position, sound |-> TRUE, objectives |-> 1, requires |-> requires, blocks |-> blocks]

OneModule(lessons) == <<[key |-> "m1", position |-> 0, sound |-> TRUE, lessons |-> lessons]>>

Of(modules, assessments) ==
    [sound |-> TRUE, objectives |-> 1, modules |-> modules, assessments |-> assessments]

OneLesson(blocks) == OneModule(<<Lesson1("l1", 0, <<>>, blocks)>>)

Items == <<[key |-> "x", position |-> 0], [key |-> "y", position |-> 1]>>

Choice == [key |-> "q1", position |-> 0, sound |-> TRUE, type |-> "SINGLE_CHOICE", options |-> Items,
           correct |-> <<"y">>, left |-> <<>>, right |-> <<>>, pairs |-> <<>>]

Match == [key |-> "q2", position |-> 1, sound |-> TRUE, type |-> "MATCHING", options |-> <<>>,
          correct |-> <<>>, left |-> Items, right |-> Items, pairs |-> <<<<"y", "x">>, <<"x", "y">>>>]

PlainText == Of(OneLesson(<<Block("b1", "TEXT")>>), <<>>)

Rich == Of(OneModule(<<Lesson1("l2", 0, <<>>, <<Video("b2", 1, 2, 3), Checks("b1", 7),
                                                  Places("b3", "quiz")>>),
                       Lesson1("l1", 1, <<"l2">>, <<Shows("b1", "IMAGE", 4), Block("b3", "CODE"),
                                                     Shows("b2", "DOWNLOAD", 4)>>)>>),
           <<[key |-> 7, questions |-> <<Choice, Match>>]>>)

MCSnapshot ==
    [plain     |-> PlainText,
     twin      |-> PlainText,
     rich      |-> Rich,
     aimless   |-> [PlainText EXCEPT !.objectives = 0],
     borrowed  |-> Of(OneLesson(<<Shows("b1", "IMAGE", 4)>>), <<>>),
     unchecked |-> Of(OneLesson(<<Checks("b1", 8)>>), <<>>),
     empty     |-> Of(OneLesson(<<Checks("b1", 9)>>), <<[key |-> 9, questions |-> <<>>]>>)]

MCDrafts == DOMAIN MCSnapshot

MCLicense == [d \in MCDrafts |-> IF d = "twin" THEN "CC-BY-SA" ELSE "CC-BY"]

StoredAs(media) == [owner |-> "rich", available |-> TRUE, media |-> media, digest |-> media]

MCAssets == <<StoredAs("video"), StoredAs("text"), StoredAs("text"), StoredAs("image")>>

MCWidgets == {"quiz"}

\* With its translation the package of one course is more than the reader takes.
MCOversized == {<<"twin", TargetLanguages>>}

=============================================================================

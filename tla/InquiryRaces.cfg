SPECIFICATION InboxSpec
CONSTANTS
  a1 = a1
  a2 = a2
  t1 = t1
  t2 = t2
  Edits = {e1}
  Removals = {d1}
  Answers = {a1, a2}
  AnswerEdits = {b1}
  Creation = c
  Texts = {t1, t2}
  NoText = NoText
  Marks = {m1}
INVARIANTS AnsweredMeansReply ToldOnce AnsweredShowsAnswer
SYMMETRY Symmetric

SPECIFICATION Spec
INVARIANT RequestSound
INVARIANT AnswersOnly

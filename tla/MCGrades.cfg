SPECIFICATION Spec
CONSTANTS
    quiz = quiz  exam = exam  practice = practice  final = final
    None = None
    Assessments = {quiz, exam, practice, final}
    TermOf <- MCTermOf
    TotalOf <- MCTotalOf
    WeightOf <- MCWeightOf
    MarksOf <- MCMarksOf
    Unit = 30000
    Tracks = {"AMERICAN", "IGCSE", "NATIONAL"}
INVARIANTS
    TypeOK
    MeanIsBetween
    
    
    NationalIsCoherent
